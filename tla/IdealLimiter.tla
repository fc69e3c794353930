----------------------------- MODULE IdealLimiter -----------------------------
(***************************************************************************)
(* What a rate limiter promises: every client has an allowance of its own, *)
(* full at first and never forgotten.  fullAt[k] is when the allowance of  *)
(* k will be full again; a request costs Cost time units of it and is      *)
(* admitted if that leaves it within Capacity units of full.               *)
(* A limiter may also turn away a client it has no room to remember, but   *)
(* only one that has its whole allowance left.                             *)
(***************************************************************************)
EXTENDS Integers

CONSTANTS Worker, Key, None, Time, Cost, Capacity

VARIABLES
    key, now,    \* the request each worker is to answer, and its clock reading
    fullAt,
    reply        \* the last answer

iVars == <<key, now, fullAt, reply>>

Later(s, t) == IF s < t THEN t ELSE s

Within(w) == Later(fullAt[key[w]], now[w]) + Cost <= now[w] + Capacity

Init ==
    /\ key = [w \in Worker |-> None]
    /\ now = [w \in Worker |-> 0]
    /\ fullAt = [k \in Key |-> 0]
    /\ reply = "none"

Ask(w, k, n) ==
    /\ key[w] = None
    /\ key' = [key EXCEPT ![w] = k]
    /\ now' = [now EXCEPT ![w] = n]
    /\ UNCHANGED <<fullAt, reply>>

Answer(w, r) ==
    /\ key' = [key EXCEPT ![w] = None]
    /\ now' = [now EXCEPT ![w] = 0]
    /\ reply' = r

Admit(w) ==
    /\ key[w] # None
    /\ Within(w)
    /\ fullAt' = [fullAt EXCEPT ![key[w]] = Later(@, now[w]) + Cost]
    /\ Answer(w, "admit")

Deny(w) ==
    /\ key[w] # None
    /\ ~Within(w)
    /\ Answer(w, "deny")
    /\ UNCHANGED fullAt

Shed(w) ==
    /\ key[w] # None
    /\ fullAt[key[w]] <= now[w]
    /\ Answer(w, "shed")
    /\ UNCHANGED fullAt

Next ==
    \E w \in Worker :
        \/ \E k \in Key, n \in Time : Ask(w, k, n)
        \/ Admit(w) \/ Deny(w) \/ Shed(w)

Spec == Init /\ [][Next]_iVars
===============================================================================
