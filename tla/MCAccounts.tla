------------------------------ MODULE MCAccounts ------------------------------
(***************************************************************************)
(* Accounts on a small instance.  A behaviour runs one mix of operations,  *)
(* each on accounts and with bounds of its own: links until they are       *)
(* purged, handles past a reservation, and three clients who request, log  *)
(* in and delete at once.                                                  *)
(***************************************************************************)
EXTENDS Accounts, TLC

CONSTANTS Claiming, Closing    \* accounts of the second and the third mix

VARIABLE mix

\* Operations by their first statement; bounds on the work at a time, on the
\* links and on the clock.
Mixes ==
    {[starts |-> {"rLock", "cConsume", "pApply"}, addrs |-> Addr \ SignedUp,
      workers |-> 2, links |-> 3, last |-> 5],
     [starts |-> {"hCheck", "dLock"}, addrs |-> Claiming,
      workers |-> 2, links |-> 0, last |-> 3],
     [starts |-> {"rLock", "cConsume", "dLock"}, addrs |-> Closing,
      workers |-> 3, links |-> 2, last |-> 0]}

Busy == {w \in Worker : pc[w] # "idle"}

Links == {k \in Token : use[k] # "new"} \cup {job[w].tok : w \in Busy}

MayStart(w) ==
    /\ pc'[w] \in mix.starts
    /\ job'[w].addr \in mix.addrs \cup {None}
    /\ Cardinality(Busy) < mix.workers
    /\ pc'[w] = "rLock" => Cardinality(Links \ {None}) < mix.links

MCInit == Init /\ mix \in Mixes

MCNext ==
    /\ Next /\ UNCHANGED mix
    /\ clock' <= mix.last
    /\ \A w \in Worker \ Busy : pc'[w] # "idle" => MayStart(w)

MCSpec == MCInit /\ [][MCNext]_<<vars, mix>>

Sym == Permutations(Worker) \cup Permutations(Token) \cup Permutations(Claiming)
===============================================================================
