------------------------------- MODULE MCProfile -------------------------------
(***************************************************************************)
(* Profile on a small instance, in three mixes of requests.  Forms: two    *)
(* tabs in which the owner does anything.  Visits: two tabs that publish,  *)
(* and a visitor.  Locks: three tabs, for what takes row locks, which are  *)
(* moods, deletions and publications of one style.                         *)
(***************************************************************************)
EXTENDS Profile, TLC

CONSTANT Pair   \* two of the tabs

VARIABLE mix

\* A bound on the writes.
Last == IF mix = "locks" THEN 4 ELSE 3

Published == [s \in Slots |-> IF s \in Tinted THEN "own" ELSE "paper"]

\* Writes that have yet to read the clock.
Undated == {t \in Tab : req[t].op \in {"mood", "style"} /\ req[t].now = 0}

MayStart(t) ==
    /\ t \in Pair \/ mix = "locks"
    /\ clock + Cardinality(Undated') <= Last
    /\ req'[t].op = "style" =>
          /\ mix # "forms" => req'[t].arg = "publish"
          /\ mix = "locks" => req'[t].form.fields = Published

MCInit == Init /\ mix \in {"forms", "visits", "locks"}

MCNext ==
    /\ Next /\ UNCHANGED mix
    /\ mix = "visits" \/ UNCHANGED visitorVars
    /\ \A t \in Tab \ Busy : req'[t] # NoRequest => MayStart(t)

MCSpec == MCInit /\ [][MCNext]_<<vars, mix>>

Sym == Permutations(Pair)
===============================================================================
