-------------------------------- MODULE Server --------------------------------
(***************************************************************************)
(* The life of the process: start, listeners, purge loop, signal, drain    *)
(* within the shutdown budget, and the connection pool that is closed when *)
(* run returns.  Goroutines and requests interleave freely.                *)
(***************************************************************************)
EXTENDS Naturals

CONSTANTS
    Listener,   \* the public server and the diagnostics server
    Request,    \* requests that may arrive
    None        \* no value

ASSUME NoneAssumption == None \notin Listener

VARIABLES
    main,       \* where run is
    status,     \* what run returned: 0, 1 or None
    ctx,        \* "done" after the signal
    listener,   \* state of each ListenAndServe
    errCh,      \* listeners whose failure is waiting in errCh
    runErr,     \* a failure was received from errCh
    shut,       \* state of each Shutdown
    budget,     \* the shutdown budget is used up
    req,        \* where each request is
    purge,      \* the statement the purge is at, "wait" or "stopped"
    due         \* tables with rows past their retention

serveVars == <<main, status, ctx, listener, errCh, runErr, shut, budget>>
vars == <<serveVars, req, purge, due>>

Tables == {"tokens", "sessions", "handles"}
NoReq == [at |-> "none", on |-> None]
Active == {"running", "querying"}

Init ==
    /\ main = "init" /\ status = None /\ ctx = "live"
    /\ listener = [s \in Listener |-> "none"]
    /\ errCh = {} /\ runErr = FALSE
    /\ shut = [s \in Listener |-> "none"] /\ budget = FALSE
    /\ req = [r \in Request |-> NoReq]
    /\ purge = "none" /\ due = {}
-------------------------------------------------------------------------------
(* run                                                                     *)

Startup ==
    /\ main = "init"
    /\ main' = "select"
    /\ listener' = [s \in Listener |-> "binding"]
    /\ purge' = "tokens"
    /\ UNCHANGED <<status, ctx, errCh, runErr, shut, budget, req, due>>

StartupFails ==
    /\ main = "init"
    /\ main' = "exit" /\ status' = 1
    /\ UNCHANGED <<ctx, listener, errCh, runErr, shut, budget, req, purge, due>>

Signal ==
    /\ main # "exit" /\ ctx = "live"
    /\ ctx' = "done"
    /\ UNCHANGED <<main, status, listener, errCh, runErr, shut, budget, req, purge, due>>

\* The pool is closed once every connection has been returned; then the process
\* ends, and what is still running with it.
PoolIdle == purge \notin Tables /\ \A r \in Request : req[r].at # "querying"

ClosePool ==
    /\ main = "close" /\ PoolIdle
    /\ main' = "exit"
    /\ req' = [r \in Request |->
          IF req[r].at \in Active THEN [req[r] EXCEPT !.at = "cut"] ELSE req[r]]
    /\ UNCHANGED <<status, ctx, listener, errCh, runErr, shut, budget, purge, due>>
-------------------------------------------------------------------------------
(* serve                                                                   *)

Listen(s) ==
    /\ listener[s] = "binding" /\ shut[s] = "none" /\ main # "exit"
    /\ listener' = [listener EXCEPT ![s] = "serving"]
    /\ UNCHANGED <<main, status, ctx, errCh, runErr, shut, budget, req, purge, due>>

ListenFails(s) ==
    /\ listener[s] \in {"binding", "serving"} /\ shut[s] = "none" /\ main # "exit"
    /\ listener' = [listener EXCEPT ![s] = "failed"]
    /\ errCh' = errCh \cup {s}
    /\ UNCHANGED <<main, status, ctx, runErr, shut, budget, req, purge, due>>

SelectError ==
    /\ main = "select"
    /\ \E s \in errCh : errCh' = errCh \ {s}
    /\ runErr' = TRUE /\ main' = "shutdown"
    /\ UNCHANGED <<status, ctx, listener, shut, budget, req, purge, due>>

SelectDone ==
    /\ main = "select" /\ ctx = "done"
    /\ main' = "shutdown"
    /\ UNCHANGED <<status, ctx, listener, errCh, runErr, shut, budget, req, purge, due>>

\* Shutdown closes the listener, and ListenAndServe returns ErrServerClosed.
BeginShutdown(s) ==
    /\ main = "shutdown" /\ shut[s] = "none"
    /\ shut' = [shut EXCEPT ![s] = "draining"]
    /\ listener' = [listener EXCEPT ![s] = IF @ = "failed" THEN @ ELSE "closed"]
    /\ UNCHANGED <<main, status, ctx, errCh, runErr, budget, req, purge, due>>

ActiveOn(s) == {r \in Request : req[r].on = s /\ req[r].at \in Active}

Drained(s) ==
    /\ shut[s] = "draining" /\ ActiveOn(s) = {}
    /\ shut' = [shut EXCEPT ![s] = "done"]
    /\ UNCHANGED <<main, status, ctx, listener, errCh, runErr, budget, req, purge, due>>

BudgetExpires ==
    /\ main = "shutdown" /\ ~budget
    /\ budget' = TRUE
    /\ UNCHANGED <<main, status, ctx, listener, errCh, runErr, shut, req, purge, due>>

\* Defect: Shutdown gets the context of the signal.
ShutdownCancelled(s) ==
    /\ shut[s] = "draining" /\ (budget \/ ctx = "done")
    /\ shut' = [shut EXCEPT ![s] = "timeout"]
    /\ UNCHANGED <<main, status, ctx, listener, errCh, runErr, budget, req, purge, due>>

\* Defect: Shutdown has no deadline.
ShutdownUnbounded(s) ==
    /\ shut[s] = "draining" /\ budget /\ ActiveOn(s) = {}
    /\ shut' = [shut EXCEPT ![s] = "timeout"]
    /\ UNCHANGED <<main, status, ctx, listener, errCh, runErr, budget, req, purge, due>>

ShutdownTimeout(s) ==
    /\ shut[s] = "draining" /\ budget
    /\ shut' = [shut EXCEPT ![s] = "timeout"]
    /\ UNCHANGED <<main, status, ctx, listener, errCh, runErr, budget, req, purge, due>>

ExitStatus == IF runErr \/ \E s \in Listener : shut[s] = "timeout" THEN 1 ELSE 0

ServeReturns ==
    /\ main = "shutdown"
    /\ \A s \in Listener : shut[s] \in {"done", "timeout"}
    /\ main' = "close" /\ status' = ExitStatus
    /\ UNCHANGED <<ctx, listener, errCh, runErr, shut, budget, req, purge, due>>
-------------------------------------------------------------------------------
(* Requests.  A handler may use the pool; after it is closed that fails.   *)

Move(r, step) ==
    /\ req' = [req EXCEPT ![r].at = step]
    /\ UNCHANGED <<serveVars, purge, due>>

Accept(r) ==
    /\ req[r] = NoReq
    /\ \E s \in Listener :
          /\ listener[s] = "serving" /\ main # "exit"
          /\ req' = [req EXCEPT ![r] = [at |-> "running", on |-> s]]
    /\ UNCHANGED <<serveVars, purge, due>>

Query(r) == req[r].at = "running" /\ main \notin {"close", "exit"} /\ Move(r, "querying")
QueryDone(r) == req[r].at = "querying" /\ Move(r, "running")
Answer(r) == req[r].at = "running" /\ Move(r, "answered")
-------------------------------------------------------------------------------
(* purgeLoop                                                               *)

Usable == ctx = "live" /\ main # "close"

PurgeTable(k) ==
    /\ purge = k /\ main # "exit"
    /\ due' = due \ {k}
    /\ purge' = CASE k = "tokens" /\ Usable -> "sessions"
                  [] k = "sessions" /\ Usable -> "handles"
                  [] OTHER -> "wait"
    /\ UNCHANGED <<serveVars, req>>

\* Defect: a failed purge ends the loop.
PurgeFailsForGood ==
    /\ purge \in Tables /\ main # "exit"
    /\ purge' = "stopped"
    /\ UNCHANGED <<serveVars, req, due>>

PurgeFails ==
    /\ purge \in Tables /\ main # "exit"
    /\ purge' = "wait"
    /\ UNCHANGED <<serveVars, req, due>>

\* A tick that select takes although the context is done, or the pool closed, fails at
\* its first delete before a connection is had: the loop waits as before.
PurgeTick ==
    /\ purge = "wait" /\ Usable /\ main # "exit"
    /\ purge' = "tokens"
    /\ UNCHANGED <<serveVars, req, due>>

PurgeStops ==
    /\ purge = "wait" /\ ctx = "done" /\ main # "exit"
    /\ purge' = "stopped"
    /\ UNCHANGED <<serveVars, req, due>>

\* A row passes its retention.
Expire(k) ==
    /\ k \notin due /\ main # "exit"
    /\ due' = due \cup {k}
    /\ UNCHANGED <<serveVars, req, purge>>
-------------------------------------------------------------------------------
Serving(s) == Listen(s) \/ BeginShutdown(s) \/ Drained(s) \/ ShutdownTimeout(s)

Main == Startup \/ SelectError \/ SelectDone \/ BudgetExpires \/ ServeReturns \/ ClosePool

Next ==
    \/ Main \/ StartupFails \/ Signal
    \/ \E s \in Listener : Serving(s) \/ ListenFails(s)
    \/ \E r \in Request : Accept(r) \/ Query(r) \/ QueryDone(r) \/ Answer(r)
    \/ \E k \in Tables : PurgeTable(k) \/ Expire(k)
    \/ PurgeFails \/ PurgeTick \/ PurgeStops

Spec == Init /\ [][Next]_vars

\* The scheduler runs every goroutine, timers fire, a statement ends and is not
\* refused for ever.  Signals, failures, requests and expiries are not required,
\* and neither is an answer: a handler may run for ever without the database.
FairSpec ==
    /\ Spec
    /\ WF_vars(Main) /\ \A s \in Listener : WF_vars(Serving(s))
    /\ \A r \in Request : WF_vars(QueryDone(r))
    /\ WF_vars(PurgeTick) /\ WF_vars(PurgeStops)
    /\ \A k \in Tables : SF_vars(PurgeTable(k))
-------------------------------------------------------------------------------
TypeOK ==
    /\ main \in {"init", "select", "shutdown", "close", "exit"}
    /\ status \in {None, 0, 1} /\ ctx \in {"live", "done"}
    /\ listener \in [Listener -> {"none", "binding", "serving", "failed", "closed"}]
    /\ errCh \subseteq Listener /\ runErr \in BOOLEAN
    /\ shut \in [Listener -> {"none", "draining", "done", "timeout"}] /\ budget \in BOOLEAN
    /\ \A r \in Request :
          /\ req[r].at \in Active \cup {"none", "answered", "cut"}
          /\ req[r].on \in Listener \cup {None}
    /\ purge \in Tables \cup {"none", "wait", "stopped"} /\ due \subseteq Tables

\* serve, "drains all of them within the shutdown budget": no request that was
\* accepted on any listener is cut off while the budget lasts, on a signal or
\* after a listener failed.
CutOnlyAfterBudget == \A r \in Request : req[r].at = "cut" => budget

\* run returns without an error only after a signal, and then every accepted
\* request was answered.
CleanExit ==
    main = "exit" /\ status = 0 =>
        ctx = "done" /\ \A r \in Request : req[r].at \in {"none", "answered"}

\* A signal or a failed listener ends the process, although the drain, the
\* requests and the purge all keep the pool busy.
Stops ==
    ctx = "done" \/ (\E s \in Listener : listener[s] = "failed") ~> main = "exit"

\* purgeLoop, "one bad purge must not stop the process or the next attempt":
\* while the process serves, rows past their retention are deleted.
EventuallyPurged ==
    \A k \in Tables : k \in due ~> (k \notin due \/ ctx = "done" \/ main # "select")

\* serve and run: neither a signal, a failed listener nor their coincidence costs an
\* accepted request its time, and the exit status tells if one was cut.
DrainHonest == TypeOK /\ CutOnlyAfterBudget /\ CleanExit
===============================================================================
