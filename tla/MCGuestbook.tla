----------------------------- MODULE MCGuestbook -----------------------------
(* Guestbook on two small instances: all visitors at once and one entry    *)
(* less than MaxEntries, or one visitor and all the entries, which are     *)
(* more than the dashboard lists.                                          *)
EXTENDS Guestbook

VARIABLE visitors    \* who comes in this behaviour
mcVars == <<vars, visitors>>

Few == entry[MaxEntries] = NoEntry
Within ==
    /\ visitors = Visitor => Few
    /\ \A v \in Visitor \ visitors : req[v] = NoRequest

MCInit ==
    /\ Init
    /\ visitors \in {Visitor, {CHOOSE v \in Visitor : TRUE}}

MCNext == Next /\ UNCHANGED visitors /\ Within'

\* The fairness of FairSpec, of steps within these bounds.
MCFairSpec ==
    /\ MCInit /\ [][MCNext]_mcVars
    /\ \A v \in Visitor : SF_mcVars(Serve(v) /\ UNCHANGED visitors /\ Within')
                          /\ WF_mcVars(DeadlockAbort(v) /\ UNCHANGED visitors /\ Within')
==============================================================================
