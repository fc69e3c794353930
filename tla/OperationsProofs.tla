--------------------------- MODULE OperationsProofs ---------------------------
(***************************************************************************)
(* The process, the mail it sends and the backups of its data, for every   *)
(* number of listeners, requests, handlers and runs and for all durations. *)
(*                                                                         *)
(* The drain of serve and run is honest.  The argument: a listener is      *)
(* closed before its drain begins, so a drain that has ended stays ended;  *)
(* a drain is given up only once the budget is used up; and run returns    *)
(* after every drain.                                                      *)
(*                                                                         *)
(* Mail is honest and in time.  The argument: a deadline counts from the   *)
(* link, so the mail with it is taken at most SendTimeout later; and at    *)
(* the end of any window the links minted in it are within the budget.     *)
(*                                                                         *)
(* There is a backup to restore from.  The argument: a run holds the lock, *)
(* its own files are too young for its prune, and so is what the remote    *)
(* has under its date, because a file's date is off by less than a run;    *)
(* a night's files are all made within a run of its beginning, so what a   *)
(* prune leaves is of the last KeepDays nights.                            *)
(***************************************************************************)
EXTENDS Server, Mail, Backup, FiniteSetTheorems, TLAPS

-------------------------------------------------------------------------------
(* The life of the process.                                                *)

ReqOK == req \in [Request -> [at : Active \cup {"none", "answered", "cut"},
                              on : Listener \cup {None}]]

\* Before the listeners exist there is no request.
Quiet ==
    main = "init" =>
        /\ \A s \in Listener : listener[s] = "none"
        /\ \A r \in Request : req[r] = NoReq

\* Nothing is accepted any more on a listener that drains.
Closed ==
    \A s \in Listener : shut[s] # "none" =>
        listener[s] \in {"closed", "failed"} /\ main \in {"shutdown", "close", "exit"}

\* A request in progress belongs to a listener, and not to one that was drained.
Undrained ==
    \A r \in Request : req[r].at \in Active =>
        req[r].on \in Listener /\ shut[req[r].on] # "done"

\* Shutdown gives up only when the budget is used up.
Late == \A s \in Listener : shut[s] = "timeout" => budget

\* serve returns for a reason, and after every Shutdown.
Reason == main \in {"shutdown", "close"} /\ ~runErr => ctx = "done"

Returned ==
    main = "close" =>
        /\ \A s \in Listener : shut[s] \in {"done", "timeout"}
        /\ status = ExitStatus

\* What is still in progress when the process ends is cut, and only that.
Ended ==
    /\ main = "exit" => \A r \in Request : req[r].at \notin Active
    /\ \A r \in Request : req[r].at = "cut" => main = "exit"

DrainInv ==
    /\ DrainHonest /\ ReqOK /\ Quiet /\ Closed /\ Undrained
    /\ Late /\ Reason /\ Returned /\ Ended
-------------------------------------------------------------------------------
\* The process starts with no request and no listener.
LEMMA InitDrain == Init => DrainInv
<1> SUFFICES ASSUME Init PROVE  DrainInv
  OBVIOUS
<1>1. TypeOK /\ ReqOK
  BY DEF Init, TypeOK, ReqOK, NoReq, Active, Tables
<1>2. /\ CutOnlyAfterBudget /\ CleanExit /\ Quiet /\ Closed /\ Undrained
      /\ Late /\ Reason /\ Returned /\ Ended
  BY DEF Init, CutOnlyAfterBudget, CleanExit, Quiet, Closed, Undrained, Late, Reason,
         Returned, Ended, NoReq, Active
<1> QED
  BY <1>1, <1>2 DEF DrainInv, DrainHonest

\* run keeps the invariant, closing the pool included: when it returns without an
\* error every drain has ended, so nothing is left to cut.
LEMMA RunStep ==
    ASSUME DrainInv, Startup \/ StartupFails \/ Signal \/ ClosePool
    PROVE  DrainInv'
<1> USE NoneAssumption DEF DrainInv, DrainHonest, Active, NoReq, Tables
<1>1. CASE Startup
  BY <1>1 DEF Startup, TypeOK, CutOnlyAfterBudget, CleanExit, ReqOK, Quiet,
              Closed, Undrained, Late, Reason, Returned, Ended
<1>2. CASE StartupFails
  BY <1>2 DEF StartupFails, TypeOK, CutOnlyAfterBudget, CleanExit, ReqOK, Quiet,
              Closed, Undrained, Late, Reason, Returned, Ended
<1>3. CASE Signal
  BY <1>3 DEF Signal, TypeOK, CutOnlyAfterBudget, CleanExit, ReqOK, Quiet,
              Closed, Undrained, Late, Reason, Returned, Ended, ExitStatus
<1>4. CASE ClosePool
  <2>1. ASSUME NEW r \in Request, req[r].at \in Active PROVE  budget
    BY <1>4, <2>1 DEF ClosePool, Undrained, Returned, Late
  <2>2. ASSUME status = 0 PROVE  ctx = "done" /\ \A r \in Request : req[r].at \notin Active
    BY <1>4, <2>2 DEF ClosePool, Undrained, Returned, Reason, ExitStatus, TypeOK
  <2>3. ASSUME NEW r \in Request
        PROVE  req'[r] = IF req[r].at \in Active THEN [at |-> "cut", on |-> req[r].on]
                                                 ELSE req[r]
    BY <1>4 DEF ClosePool, ReqOK
  <2>4. ReqOK' /\ TypeOK'
    BY <1>4, <2>3 DEF ClosePool, ReqOK, TypeOK
  <2>5. CutOnlyAfterBudget'
    BY <1>4, <2>1, <2>3 DEF ClosePool, CutOnlyAfterBudget
  <2>6. CleanExit'
    BY <1>4, <2>2, <2>3 DEF ClosePool, CleanExit, Ended, TypeOK
  <2>7. Undrained' /\ Ended'
    BY <1>4, <2>3 DEF ClosePool, Undrained, Ended, ReqOK
  <2>8. (Quiet /\ Closed /\ Late /\ Reason /\ Returned)'
    BY <1>4 DEF ClosePool, Quiet, Closed, Late, Reason, Returned
  <2> QED
    BY <2>4, <2>5, <2>6, <2>7, <2>8
<1> QED
  BY <1>1, <1>2, <1>3, <1>4

\* So does serve: a drain ends when its listener has no request in progress, and
\* is given up only after the budget.
LEMMA ServeStep ==
    ASSUME DrainInv,
           \/ SelectError \/ SelectDone \/ BudgetExpires \/ ServeReturns
           \/ \E s \in Listener : Serving(s) \/ ListenFails(s)
    PROVE  DrainInv'
<1> USE NoneAssumption DEF DrainInv, DrainHonest, Active, NoReq, Tables
<1>1. CASE SelectError \/ SelectDone \/ BudgetExpires \/ ServeReturns
  <2>1. (TypeOK /\ ReqOK)'
    BY <1>1 DEF SelectError, SelectDone, BudgetExpires, ServeReturns, TypeOK, ReqOK, ExitStatus
  <2>2. (CutOnlyAfterBudget /\ CleanExit /\ Ended)'
    BY <1>1 DEF SelectError, SelectDone, BudgetExpires, ServeReturns, TypeOK, ReqOK,
       CutOnlyAfterBudget, CleanExit, Ended, Quiet
  <2>3. (Quiet /\ Closed /\ Late)'
    BY <1>1 DEF SelectError, SelectDone, BudgetExpires, ServeReturns, TypeOK, ReqOK, Quiet,
       Closed, Late
  <2>4. (Undrained /\ Reason)'
    BY <1>1 DEF SelectError, SelectDone, BudgetExpires, ServeReturns, TypeOK, ReqOK,
       Undrained, Reason, Closed
  <2>5. Returned'
    BY <1>1 DEF SelectError, SelectDone, BudgetExpires, ServeReturns, TypeOK, Returned,
       ExitStatus, Closed
  <2> QED
    BY <2>1, <2>2, <2>3, <2>4, <2>5
<1>2. ASSUME NEW s \in Listener, Listen(s) \/ ListenFails(s) PROVE  DrainInv'
  <2>1. (TypeOK /\ ReqOK)'
    <3>1. CASE Listen(s)
      BY <3>1 DEF Listen, TypeOK, ReqOK
    <3>2. CASE ListenFails(s)
      BY <3>2 DEF ListenFails, TypeOK, ReqOK
    <3> QED
      BY <1>2, <3>1, <3>2
  <2>2. (CutOnlyAfterBudget /\ CleanExit /\ Ended)'
    BY <1>2 DEF Listen, ListenFails, TypeOK, ReqOK, CutOnlyAfterBudget, CleanExit, Ended, Quiet
  <2>3. (Quiet /\ Closed /\ Late)'
    BY <1>2 DEF Listen, ListenFails, TypeOK, ReqOK, Quiet, Closed, Late
  <2>4. (Undrained /\ Reason)'
    BY <1>2 DEF Listen, ListenFails, TypeOK, ReqOK, Undrained, Reason, Closed
  <2>5. Returned'
    BY <1>2 DEF Listen, ListenFails, TypeOK, Returned, ExitStatus, Closed
  <2> QED
    BY <2>1, <2>2, <2>3, <2>4, <2>5
<1>3. ASSUME NEW s \in Listener, BeginShutdown(s) PROVE  DrainInv'
  BY <1>3 DEF BeginShutdown, TypeOK, CutOnlyAfterBudget, CleanExit, ReqOK, Quiet,
      Closed, Undrained, Late, Reason, Returned, Ended
<1>4. ASSUME NEW s \in Listener, Drained(s) \/ ShutdownTimeout(s) PROVE  DrainInv'
  <2>1. (TypeOK /\ ReqOK)'
    <3>1. /\ shut' \in {[shut EXCEPT ![s] = "done"], [shut EXCEPT ![s] = "timeout"]}
          /\ UNCHANGED <<main, status, ctx, listener, errCh, runErr, budget, req, purge, due>>
      BY <1>4 DEF Drained, ShutdownTimeout
    <3> QED
      BY <3>1 DEF TypeOK, ReqOK
  <2>2. (CutOnlyAfterBudget /\ CleanExit /\ Ended)'
    BY <1>4 DEF Drained, ShutdownTimeout, ActiveOn, TypeOK, ReqOK, CutOnlyAfterBudget,
       CleanExit, Ended, Quiet
  <2>3. (Quiet /\ Closed /\ Late)'
    BY <1>4 DEF Drained, ShutdownTimeout, ActiveOn, TypeOK, ReqOK, Quiet, Closed, Late
  <2>4. (Undrained /\ Reason)'
    BY <1>4 DEF Drained, ShutdownTimeout, ActiveOn, TypeOK, ReqOK, Undrained, Reason, Closed
  <2>5. Returned'
    BY <1>4 DEF Drained, ShutdownTimeout, ActiveOn, TypeOK, Returned, ExitStatus, Closed
  <2> QED
    BY <2>1, <2>2, <2>3, <2>4, <2>5
<1> QED
  BY <1>1, <1>2, <1>3, <1>4 DEF Serving

\* And every request and the purge.
LEMMA WorkStep ==
    ASSUME DrainInv,
           \/ \E r \in Request : Accept(r) \/ Query(r) \/ QueryDone(r) \/ Answer(r)
           \/ \E k \in Tables : PurgeTable(k) \/ Expire(k)
           \/ PurgeFails \/ PurgeTick \/ PurgeStops
    PROVE  DrainInv'
<1> USE NoneAssumption DEF DrainInv, DrainHonest, Active, NoReq
<1>1. ASSUME NEW r \in Request, Accept(r) PROVE  DrainInv'
  BY <1>1 DEF Accept, serveVars, TypeOK, CutOnlyAfterBudget, CleanExit, ReqOK, Quiet,
      Closed, Undrained, Late, Reason, Returned, Ended, ExitStatus
<1>2. ASSUME NEW r \in Request, Query(r) \/ QueryDone(r) \/ Answer(r) PROVE  DrainInv'
  <2>1. (TypeOK /\ ReqOK)'
    BY <1>2 DEF Query, QueryDone, Answer, Move, serveVars, TypeOK, ReqOK
  <2>2. (CutOnlyAfterBudget /\ CleanExit /\ Ended)'
    BY <1>2 DEF Query, QueryDone, Answer, Move, serveVars, TypeOK, ReqOK,
       CutOnlyAfterBudget, CleanExit, Ended, Quiet
  <2>3. (Quiet /\ Closed /\ Late)'
    BY <1>2 DEF Query, QueryDone, Answer, Move, serveVars, TypeOK, ReqOK, Quiet, Closed, Late
  <2>4. (Undrained /\ Reason)'
    BY <1>2 DEF Query, QueryDone, Answer, Move, serveVars, TypeOK, ReqOK, Undrained, Reason, Closed
  <2>5. Returned'
    BY <1>2 DEF Query, QueryDone, Answer, Move, serveVars, TypeOK, Returned, ExitStatus, Closed
  <2> QED
    BY <2>1, <2>2, <2>3, <2>4, <2>5
<1>3. CASE \/ \E k \in Tables : PurgeTable(k) \/ Expire(k)
           \/ PurgeFails \/ PurgeTick \/ PurgeStops
  <2>1. UNCHANGED <<serveVars, req>>
    BY <1>3 DEF PurgeTable, Expire, PurgeFails, PurgeTick, PurgeStops
  <2>2. purge' \in Tables \cup {"none", "wait", "stopped"} /\ due' \subseteq Tables
    BY <1>3 DEF PurgeTable, Expire, PurgeFails, PurgeTick, PurgeStops, TypeOK, Tables
  <2> QED
    BY <2>1, <2>2 DEF serveVars, TypeOK, CutOnlyAfterBudget, CleanExit, ReqOK, Quiet,
      Closed, Undrained, Late, Reason, Returned, Ended, ExitStatus
<1> QED
  BY <1>1, <1>2, <1>3

\* serve, "drains all of them within the shutdown budget", and run: no accepted
\* request is cut while the budget lasts, and an exit without an error means that
\* a signal was received and every request answered.
THEOREM Drains == Spec => []DrainHonest
<1>1. DrainInv /\ [Next]_vars => DrainInv'
  <2> SUFFICES ASSUME DrainInv, [Next]_vars PROVE  DrainInv'
    OBVIOUS
  <2>1. CASE UNCHANGED vars
    BY <2>1 DEF vars, serveVars, DrainInv, DrainHonest, TypeOK, CutOnlyAfterBudget, CleanExit,
      ReqOK, Quiet, Closed, Undrained, Late, Reason, Returned, Ended, ExitStatus
  <2>2. CASE Next
    BY <2>2, RunStep, ServeStep, WorkStep DEF Next, Main
  <2> QED
    BY <2>1, <2>2
<1>2. DrainInv => DrainHonest
  BY DEF DrainInv
<1> QED
  BY InitDrain, <1>1, <1>2, PTL DEF Spec
-------------------------------------------------------------------------------
(* Sending a login link.                                                   *)

Handler == [at : Steps, link : Link \cup {NoValue}, start : Time \cup {NoValue},
            deadline : 0..(MaxTime + SendTimeout) \cup {NoValue}, tls : BOOLEAN]

Longest == IF DialLimit > SendTimeout THEN DialLimit ELSE SendTimeout

\* A handler that sends has a link, minted when the send began, and a deadline that
\* counts from there; and the clock waits for it.
Carrying(h) ==
    h.at \in Conversation \cup {"dial"} =>
        /\ h.link \in Link /\ h.start \in Nat
        /\ h.deadline = h.start + SendTimeout
        /\ minted[h.link] = h.start
        /\ h.start <= now /\ now <= h.start + Longest

\* Nothing is authenticated or sent in the clear, but to the machine itself.
Encrypted(h) ==
    h.at \in {"auth", "mail", "rcpt", "data", "write", "close", "quit", "check"}
        /\ h.link # NoValue => h.tls \/ isLoopbackHost

\* The relay has taken what the handler is done with.
Taken(h) == h.at \in {"quit", "check"} /\ h.link # NoValue => accepted[h.link] # NoValue

HandlerOK(h) == h \in Handler /\ Carrying(h) /\ Encrypted(h) /\ Taken(h)

\* A mail is taken within SendTimeout of its link.
Prompt ==
    \A l \in Link :
        /\ minted[l] # NoValue => minted[l] <= now
        /\ accepted[l] # NoValue =>
              /\ minted[l] # NoValue
              /\ minted[l] <= accepted[l] /\ accepted[l] < minted[l] + SendTimeout

\* The links of the window that ends at m, at the end of each of which the budget held.
MintedIn(m) == {l \in Link : minted[l] # NoValue /\ minted[l] <= m /\ m - minted[l] < Window}

Rate == \A m \in Nat : Cardinality(MintedIn(m)) <= LoginBudget

Relay ==
    /\ now \in Time /\ relay \in Relays
    /\ minted \in [Link -> Time \cup {NoValue}]
    /\ accepted \in [Link -> Time \cup {NoValue}]

MailInv ==
    /\ Relay /\ Prompt /\ Rate
    /\ DOMAIN send = Req /\ send = [r \in Req |-> send[r]]
    /\ \A r \in Req : HandlerOK(send[r])

LEMMA LinksFinite ==
    ASSUME NEW S \in SUBSET Link
    PROVE  IsFiniteSet(S) /\ Cardinality(S) \in Nat
<1>1. IsFiniteSet(Link)
  BY FS_Interval, TimeAssumption DEF Link
<1> QED
  BY <1>1, FS_Subset, FS_CardinalityType

LEMMA MailStart == MailInit => MailInv
<1> SUFFICES ASSUME MailInit PROVE  MailInv
  OBVIOUS
<1>1. Relay /\ Prompt
  BY TimeAssumption DEF MailInit, Relay, Prompt, Time
<1>2. \A m \in Nat : MintedIn(m) = {}
  BY DEF MailInit, MintedIn
<1>3. Rate
  BY <1>2, FS_EmptySet, TimeAssumption DEF Rate
<1>4. ASSUME NEW r \in Req PROVE  HandlerOK(send[r])
  BY DEF MailInit, NoRequest, HandlerOK, Handler, Steps, Carrying, Encrypted, Taken, Conversation
<1> QED
  BY <1>1, <1>3, <1>4 DEF MailInv, MailInit

\* A step of one handler that concerns nobody else.
LEMMA HandlerMoves ==
    ASSUME MailInv, UNCHANGED <<now, relay, minted, accepted>>,
           NEW r \in Req, NEW h, HandlerOK(h), send' = [send EXCEPT ![r] = h]
    PROVE  MailInv'
<1>1. Relay' /\ Prompt' /\ Rate'
  BY DEF MailInv, Relay, Prompt, Rate, MintedIn
<1>2. ASSUME NEW s \in Req PROVE  HandlerOK(send'[s])
  BY DEF MailInv
<1>3. ASSUME NEW s \in Req PROVE  HandlerOK(send[s])'
  BY <1>2 DEF HandlerOK, Carrying, Encrypted, Taken, isLoopbackHost
<1> QED
  BY <1>1, <1>3 DEF MailInv

\* The clock waits for the timers that are due.
LEMMA TimePasses == ASSUME MailInv, Tick PROVE MailInv'
<1>1. /\ UNCHANGED <<relay, minted, accepted, send>> /\ now' = now + 1
      /\ now \in Nat /\ now < MaxTime
      /\ \A r \in Req : ~TimersDue(r)
  BY TimeAssumption DEF Tick, MailInv, Relay, Time
<1>2. Relay' /\ Prompt' /\ Rate'
  BY <1>1, TimeAssumption DEF MailInv, Relay, Prompt, Rate, MintedIn, Time
<1>3. ASSUME NEW r \in Req PROVE  HandlerOK(send[r])'
  <2>1. HandlerOK(send[r]) /\ ~TimersDue(r)
    BY <1>1 DEF MailInv
  <2>2. Carrying(send[r])'
    <3> SUFFICES ASSUME send[r].at \in Conversation \cup {"dial"}
                 PROVE  now < send[r].start + Longest
      BY <1>1, <2>1, TimeAssumption DEF HandlerOK, Carrying, Longest
    <3>1. send[r].start \in Nat /\ send[r].deadline = send[r].start + SendTimeout
      BY <2>1 DEF HandlerOK, Carrying
    <3>2. now < send[r].start + DialLimit \/ now < send[r].deadline
      BY <1>1, <2>1, <3>1, TimeAssumption DEF TimersDue
    <3> QED
      BY <1>1, <3>1, <3>2, TimeAssumption DEF Longest
  <2> QED
    BY <1>1, <2>1, <2>2 DEF HandlerOK, Encrypted, Taken, isLoopbackHost
<1> QED
  BY <1>1, <1>2, <1>3 DEF MailInv

\* RequestLogin: one link more, while the budget of its window is not used up.
LEMMA LinkMinted == ASSUME MailInv, NEW r \in Req, RequestLogin(r) PROVE MailInv'
<1> DEFINE h(l) == [at |-> "dial", link |-> l, start |-> now,
                    deadline |-> now + SendTimeout, tls |-> FALSE]
<1>1. now \in Nat /\ now <= MaxTime /\ UNCHANGED <<now, relay, accepted>> /\ WithinBudget
  BY TimeAssumption DEF RequestLogin, MailInv, Relay, Time
<1>2. PICK l \in Link :
        /\ minted[l] = NoValue
        /\ minted' = [minted EXCEPT ![l] = now]
        /\ send' = [send EXCEPT ![r] = h(l)]
  BY DEF RequestLogin, Deadline
<1>3. minted \in [Link -> Time \cup {NoValue}] /\ now \in Time
  BY DEF MailInv, Relay
<1>4. \A k \in Link : minted'[k] = IF k = l THEN now ELSE minted[k]
  BY <1>2, <1>3
<1>5. Relay' /\ Prompt'
  BY <1>1, <1>2, <1>3, <1>4, NoValueAssumption, TimeAssumption DEF MailInv, Relay, Prompt, Time
<1>6. Rate'
  <2> SUFFICES ASSUME NEW m \in Nat PROVE  Cardinality(MintedIn(m)') <= LoginBudget
    BY DEF Rate
  <2> DEFINE Counted == {k \in Link : minted[k] # NoValue /\ now - minted[k] < Window}
  <2>1. Cardinality(Counted) < LoginBudget /\ l \notin Counted
    BY <1>1, <1>2 DEF WithinBudget
  <2>2. IsFiniteSet(Counted) /\ Cardinality(Counted) \in Nat
    BY LinksFinite
  <2>3. CASE m < now
    <3>1. MintedIn(m)' = MintedIn(m)
      BY <1>1, <1>2, <1>3, <1>4, <2>3 DEF MintedIn
    <3> QED
      BY <3>1 DEF MailInv, Rate
  <2>4. CASE m >= now
    <3>1. MintedIn(m)' \subseteq Counted \cup {l}
      <4> SUFFICES ASSUME NEW k \in MintedIn(m)', k # l PROVE  k \in Counted
        OBVIOUS
      <4>1. k \in Link /\ minted[k] # NoValue /\ m - minted[k] < Window
        BY <1>4 DEF MintedIn
      <4>2. minted[k] \in Nat
        BY <1>3, <4>1, TimeAssumption DEF Time
      <4> QED
        BY <1>1, <2>4, <4>1, <4>2, TimeAssumption
    <3>2. IsFiniteSet(Counted \cup {l}) /\ Cardinality(Counted \cup {l}) = Cardinality(Counted) + 1
      BY <2>1, <2>2, FS_AddElement
    <3>3. Cardinality(MintedIn(m)') <= Cardinality(Counted \cup {l})
      BY <3>1, <3>2, FS_Subset
    <3>4. MintedIn(m)' \in SUBSET Link
      BY DEF MintedIn
    <3>5. Cardinality(MintedIn(m)') \in Nat
      BY <3>4, LinksFinite
    <3> HIDE DEF Counted
    <3> QED
      BY <2>1, <2>2, <3>2, <3>3, <3>5, TimeAssumption
  <2> QED
    BY <1>1, <2>3, <2>4
<1>7. ASSUME NEW s \in Req PROVE  HandlerOK(send[s])'
  <2>1. CASE s = r
    <3>1. send'[s] = h(l)
      BY <1>2, <2>1 DEF MailInv
    <3>2. h(l) \in Handler
      BY <1>1, <1>3, TimeAssumption DEF Handler, Steps
    <3> QED
      BY <1>1, <1>4, <3>1, <3>2, TimeAssumption
         DEF HandlerOK, Carrying, Encrypted, Taken, Longest, Conversation
  <2>2. CASE s # r
    <3>1. send'[s] = send[s] /\ HandlerOK(send[s])
      BY <1>2, <2>2 DEF MailInv
    <3>2. Carrying(send[s])'
      BY <1>1, <1>2, <1>4, <3>1, NoValueAssumption DEF HandlerOK, Carrying
    <3> QED
      BY <1>1, <3>1, <3>2 DEF HandlerOK, Encrypted, Taken, isLoopbackHost
  <2> QED
    BY <2>1, <2>2
<1> QED
  BY <1>2, <1>5, <1>6, <1>7 DEF MailInv

\* The relay takes the message before the deadline, which counts from the link.
LEMMA MailTaken == ASSUME MailInv, NEW r \in Req, RelayAccepts(r) PROVE MailInv'
<1> DEFINE l == send[r].link
<1>1. /\ UNCHANGED <<now, relay, minted, send>> /\ InTime(r)
      /\ accepted' = [accepted EXCEPT ![l] = now] /\ send[r].at = "close"
  BY DEF RelayAccepts
<1>2. HandlerOK(send[r]) /\ now \in Time /\ accepted \in [Link -> Time \cup {NoValue}]
      /\ minted \in [Link -> Time \cup {NoValue}]
  BY DEF MailInv, Relay
<1>3. /\ l \in Link /\ minted[l] = send[r].start /\ minted[l] \in Nat
      /\ minted[l] <= now /\ now < minted[l] + SendTimeout
  BY <1>1, <1>2 DEF HandlerOK, Carrying, Conversation, InTime
<1> HIDE DEF l
<1>4. \A k \in Link : accepted'[k] = IF k = l THEN now ELSE accepted[k]
  BY <1>1, <1>2
<1>5. Relay' /\ Prompt' /\ Rate'
  BY <1>1, <1>2, <1>3, <1>4, NoValueAssumption DEF MailInv, Relay, Prompt, Rate, MintedIn
<1>6. ASSUME NEW s \in Req PROVE  HandlerOK(send[s])'
  <2>1. HandlerOK(send[s])
    BY DEF MailInv
  <2>2. Taken(send[s])'
    BY <1>1, <1>2, <1>4, <2>1, NoValueAssumption, TimeAssumption DEF HandlerOK, Handler, Taken, Time
  <2> QED
    BY <1>1, <2>1, <2>2 DEF HandlerOK, Carrying, Encrypted, isLoopbackHost
<1> QED
  BY <1>1, <1>5, <1>6 DEF MailInv

\* Every exchange that ends well.
LEMMA Exchanged ==
    ASSUME MailInv, NEW r \in Req,
           Dial(r) \/ Hello(r) \/ StartTLS(r) \/ Auth(r) \/ Command(r) \/ Close(r) \/ Quit(r)
    PROVE  MailInv'
<1>1. HandlerOK(send[r]) /\ UNCHANGED <<now, relay, minted, accepted>>
  BY DEF MailInv, Dial, Hello, StartTLS, Auth, Command, Close, Quit, Goto
<1> USE DEF HandlerOK, Handler, Carrying, Encrypted, Taken, Steps, Conversation
<1>2. CASE Dial(r)
  <2>1. send' = [send EXCEPT ![r] = [send[r] EXCEPT !.at = "hello", !.deadline = send[r].deadline]]
    BY <1>2 DEF Dial, ConnDeadline
  <2>2. HandlerOK([send[r] EXCEPT !.at = "hello", !.deadline = send[r].deadline])
    BY <1>1, <1>2 DEF Dial
  <2> QED
    BY <1>1, <2>1, <2>2, HandlerMoves
<1>3. CASE Hello(r)
  <2>1. PICK offered \in BOOLEAN :
          send' = [send EXCEPT ![r] = [send[r] EXCEPT !.at = AfterHello(offered)]]
    BY <1>3 DEF Hello, Goto
  <2>2. HandlerOK([send[r] EXCEPT !.at = AfterHello(offered)])
    BY <1>1, <1>3 DEF Hello, AfterHello
  <2> QED
    BY <1>1, <2>1, <2>2, HandlerMoves
<1>4. CASE StartTLS(r)
  <2>1. send' = [send EXCEPT ![r] = [send[r] EXCEPT !.at = "auth", !.tls = TRUE]]
    BY <1>4 DEF StartTLS
  <2>2. HandlerOK([send[r] EXCEPT !.at = "auth", !.tls = TRUE])
    BY <1>1, <1>4 DEF StartTLS
  <2> QED
    BY <1>1, <2>1, <2>2, HandlerMoves
<1>5. CASE Auth(r)
  <2>1. send' = [send EXCEPT ![r] = [send[r] EXCEPT !.at = "mail"]]
    BY <1>5 DEF Auth, Goto
  <2>2. HandlerOK([send[r] EXCEPT !.at = "mail"])
    BY <1>1, <1>5 DEF Auth
  <2> QED
    BY <1>1, <2>1, <2>2, HandlerMoves
<1>6. CASE Command(r)
  <2> DEFINE step == AfterCommand[send[r].at]
  <2>1. send[r].at \in {"mail", "rcpt", "data", "write"}
    BY <1>6 DEF Command, AfterCommand
  <2>2. step \in {"rcpt", "data", "write", "close"}
    BY <2>1 DEF AfterCommand
  <2>3. send' = [send EXCEPT ![r] = [send[r] EXCEPT !.at = step]]
    BY <1>6 DEF Command, Goto
  <2> HIDE DEF step
  <2>4. HandlerOK([send[r] EXCEPT !.at = step])
    BY <1>1, <2>1, <2>2
  <2> QED
    BY <1>1, <2>3, <2>4, HandlerMoves
<1>7. CASE Close(r)
  <2>1. send' = [send EXCEPT ![r] = [send[r] EXCEPT !.at = "quit"]]
    BY <1>7 DEF Close, Goto
  <2>2. HandlerOK([send[r] EXCEPT !.at = "quit"])
    BY <1>1, <1>7 DEF Close
  <2> QED
    BY <1>1, <2>1, <2>2, HandlerMoves
<1>8. CASE Quit(r)
  <2>1. send' = [send EXCEPT ![r] = [send[r] EXCEPT !.at = "check"]]
    BY <1>8 DEF Quit, Goto
  <2>2. HandlerOK([send[r] EXCEPT !.at = "check"])
    BY <1>1, <1>8 DEF Quit
  <2> QED
    BY <1>1, <2>1, <2>2, HandlerMoves
<1> QED
  BY <1>2, <1>3, <1>4, <1>5, <1>6, <1>7, <1>8

\* A send that fails, and a request that is answered without one.
LEMMA NotSent ==
    ASSUME MailInv, NEW r \in Req,
           DialFails(r) \/ AuthRefused(r) \/ ExchangeFails(r) \/ LoginBudgetExceeded(r)
    PROVE  MailInv'
<1> USE DEF HandlerOK, Handler, Carrying, Encrypted, Taken, Steps, Conversation
<1>1. HandlerOK(send[r]) /\ UNCHANGED <<now, relay, minted, accepted>>
  BY DEF MailInv, DialFails, AuthRefused, ExchangeFails, LoginBudgetExceeded, Fail
<1>2. CASE DialFails(r) \/ AuthRefused(r) \/ ExchangeFails(r)
  <2>1. send' = [send EXCEPT ![r] = [send[r] EXCEPT !.at = "error"]]
    BY <1>2 DEF DialFails, AuthRefused, ExchangeFails, Fail
  <2>2. HandlerOK([send[r] EXCEPT !.at = "error"])
    BY <1>1
  <2> QED
    BY <1>1, <2>1, <2>2, HandlerMoves
<1>3. CASE LoginBudgetExceeded(r)
  <2>1. send' = [send EXCEPT ![r] = [NoRequest EXCEPT !.at = "check"]]
    BY <1>3 DEF LoginBudgetExceeded
  <2>2. HandlerOK([NoRequest EXCEPT !.at = "check"])
    BY DEF NoRequest
  <2> QED
    BY <1>1, <2>1, <2>2, HandlerMoves
<1> QED
  BY <1>2, <1>3

LEMMA MailStep == MailInv /\ [MailNext]_mailVars => MailInv'
<1> SUFFICES ASSUME MailInv, [MailNext]_mailVars PROVE  MailInv'
  OBVIOUS
<1>1. CASE UNCHANGED mailVars
  BY <1>1 DEF mailVars, MailInv, Relay, Prompt, Rate, MintedIn, HandlerOK, Carrying, Encrypted,
     Taken, isLoopbackHost
<1>2. CASE MailNext
  BY <1>2, TimePasses, LinkMinted, MailTaken, Exchanged, NotSent DEF MailNext, Exchange
<1> QED
  BY <1>1, <1>2

\* handleLoginRequest: "check your email" after a send means that the relay has the
\* mail, and the link was protected on its way, whatever the relay answers and when.
THEOREM MailIsHonest == MailSpec => []MailHonest
<1>1. MailInv => MailHonest
  <2> SUFFICES ASSUME MailInv PROVE  MailHonest
    OBVIOUS
  <2>1. \A r \in Req : HandlerOK(send[r])
    BY DEF MailInv
  <2>2. MailTypeOK
    BY <2>1 DEF MailInv, Relay, MailTypeOK, HandlerOK, Handler
  <2>3. AnswerHonest /\ LinkProtected
    BY <2>1 DEF HandlerOK, Taken, Encrypted, AnswerHonest, LinkProtected
  <2> QED
    BY <2>2, <2>3 DEF MailHonest
<1> QED
  BY MailStart, MailStep, <1>1, PTL DEF MailSpec

\* A send ends in time, and the mails that reach the relay within any stretch of
\* time that is shorter than the window by SendTimeout are within the budget.
THEOREM SendsInTime == MailSpec => []SendTimed
<1>1. MailInv => SendTimed
  <2> SUFFICES ASSUME MailInv PROVE  SendTimed
    OBVIOUS
  <2>1. SendBounded
    BY DEF MailInv, HandlerOK, Carrying, SendBounded, Sending, Longest
  <2>2. ASSUME NEW t \in Time
        PROVE  Cardinality({l \in Link : accepted[l] # NoValue /\ accepted[l] >= t
                              /\ accepted[l] < t + (Window - SendTimeout)}) <= LoginBudget
    <3> DEFINE Mails == {l \in Link : accepted[l] # NoValue /\ accepted[l] >= t
                              /\ accepted[l] < t + (Window - SendTimeout)}
               m == t + (Window - SendTimeout) - 1
    <3>1. ASSUME NEW l \in Mails
          PROVE  m \in Nat /\ l \in MintedIn(m)
      <4>1. /\ l \in Link /\ accepted[l] \in Nat /\ minted[l] \in Nat
            /\ minted[l] # NoValue
            /\ minted[l] <= accepted[l] /\ accepted[l] < minted[l] + SendTimeout
            /\ accepted[l] >= t /\ accepted[l] < t + (Window - SendTimeout)
        BY TimeAssumption DEF MailInv, Relay, Prompt, Time
      <4> QED
        BY <4>1, TimeAssumption DEF MintedIn, Time
    <3>2. CASE Mails = {}
      BY <3>2, FS_EmptySet, TimeAssumption
    <3>3. CASE Mails # {}
      <4>1. m \in Nat /\ Mails \subseteq MintedIn(m)
        BY <3>1, <3>3
      <4>2. Mails \in SUBSET Link /\ MintedIn(m) \in SUBSET Link
        BY DEF MintedIn
      <4> HIDE DEF Mails, m
      <4>3. IsFiniteSet(MintedIn(m)) /\ Cardinality(MintedIn(m)) \in Nat /\ Cardinality(Mails) \in Nat
        BY <4>2, LinksFinite
      <4>4. Cardinality(Mails) <= Cardinality(MintedIn(m))
        BY <4>1, <4>3, FS_Subset
      <4>5. Cardinality(MintedIn(m)) <= LoginBudget
        BY <4>1 DEF MailInv, Rate
      <4>6. Cardinality(Mails) <= LoginBudget
        BY <4>3, <4>4, <4>5, TimeAssumption
      <4> QED
        BY <4>6 DEF Mails
    <3> QED
      BY <3>2, <3>3
  <2> QED
    BY <2>1, <2>2 DEF SendTimed, InboxRate
<1> QED
  BY MailStart, MailStep, <1>1, PTL DEF MailSpec
-------------------------------------------------------------------------------
(* Backups.                                                                *)

Days == 0..Day(MaxClock)
Runner == [at : RunSteps, run : 1..MaxRuns \cup {Nil}, start : 0..MaxClock \cup {Nil},
           tmp : [Kinds -> File \cup {Nil}], day : Days \cup {Nil}]

DayStart(d) == d * DayLength

\* The nightly run begins with the day; its files are RunTicks old when it ends.
AtNight(t) == \E j \in Nat : DayStart(j) <= t /\ t <= DayStart(j) + RunTicks

\* A file's name gives the day on which its run verified it.
DirOK(dir) ==
    /\ dir \in [Name -> File \cup {Nil}]
    /\ \A n \in Name : dir[n] # Nil =>
          /\ dir[n].made <= clock
          /\ DayStart(n[2]) <= dir[n].made + RunTicks
          /\ nightly => AtNight(dir[n].made)

\* No file is older than a prune at t leaves it on the nightly schedule.
Recent(dir, t) == \A n \in Name : dir[n] # Nil => dir[n].made + (KeepDays - 1) * DayLength >= t

Backed(dir) == \E d \in Days : Pair(dir, d)

\* What a success has left in both places.
Success ==
    lastOK # Nil =>
        /\ lastOK <= clock /\ Backed(local) /\ Backed(remote)
        /\ nightly => Recent(local, lastOK) /\ Recent(remote, lastOK)

PlacesOK ==
    /\ DirOK(local) /\ DirOK(remote) /\ Success
    /\ stray \subseteq File /\ lastOK \in 0..MaxClock \cup {Nil}

\* A run is short, and began after the last one that succeeded.
Timed(q) ==
    /\ q.run \in 1..MaxRuns /\ q.start \in 0..MaxClock
    /\ q.start <= clock /\ clock <= q.start + RunTicks
    /\ lastOK # Nil => lastOK <= q.start
    /\ nightly => \E j \in Nat : q.start = DayStart(j)

\* Its temporary files are its own, and there when it publishes them.
Temporary(q) ==
    /\ \A k \in Kinds : q.tmp[k] # Nil =>
          q.tmp[k].run = q.run /\ q.start <= q.tmp[k].made /\ q.tmp[k].made <= clock
    /\ q.at = "publishDb" => q.tmp["db"] # Nil
    /\ q.at \in {"publishDb", "publishPhotos"} => q.tmp["photos"] # Nil

Dated(q) ==
    q.at \in {"publishDb", "publishPhotos", "copy", "pruneLocal", "pruneRemote", "ping"} =>
        /\ q.day \in Days
        /\ DayStart(q.day) <= q.start + RunTicks /\ q.start < DayStart(q.day) + DayLength

Own(q, k) ==
    LET file == local[<<k, q.day>>]
    IN  file # Nil /\ file.run = q.run /\ file.made >= q.start

Published(q) ==
    /\ q.at \in {"publishPhotos", "copy", "pruneLocal", "pruneRemote", "ping"} => Own(q, "db")
    /\ q.at \in {"copy", "pruneLocal", "pruneRemote", "ping"} => Own(q, "photos")

Copied(q) == q.at \in {"pruneLocal", "pruneRemote", "ping"} => Pair(remote, q.day)

Pruned(q) ==
    nightly =>
        /\ q.at \in {"pruneRemote", "ping"} => Recent(local, q.start)
        /\ q.at = "ping" => Recent(remote, q.start)

RunOK(q) ==
    /\ q \in Runner
    /\ q.at # "idle" =>
          Timed(q) /\ Temporary(q) /\ Dated(q) /\ Published(q) /\ Copied(q) /\ Pruned(q)

BackupInv ==
    /\ clock \in 0..MaxClock /\ lock \in Proc \cup {Nil} /\ runs \in 0..MaxRuns
    /\ nightly \in BOOLEAN /\ PlacesOK
    /\ DOMAIN proc = Proc /\ proc = [p \in Proc |-> proc[p]]
    /\ \A p \in Proc : RunOK(proc[p]) /\ (proc[p].at # "idle" => lock = p)

\* Days are DayLength long.
LEMMA Lengths ==
    /\ DayLength \in Nat /\ DayLength > 0 /\ KeepDays \in Nat /\ KeepDays > 0
    /\ Slack \in Nat /\ RunTicks \in Nat /\ MaxClock \in Nat /\ MaxRuns \in Nat
    /\ RunTicks < Slack
BY DurationAssumption

LEMMA DayBounds ==
    ASSUME NEW t \in Nat
    PROVE  Day(t) \in Nat /\ DayStart(Day(t)) <= t /\ t < DayStart(Day(t)) + DayLength
BY Lengths DEF Day, DayStart

LEMMA DayOrder ==
    ASSUME NEW s \in Nat, NEW t \in Nat, s <= t PROVE Day(s) <= Day(t)
BY Lengths DEF Day

LEMMA OnTheHour ==
    ASSUME NEW t \in Nat, t % DayLength = 0 PROVE t = DayStart(Day(t))
BY Lengths DEF Day, DayStart

LEMMA DayNumber == ASSUME NEW d \in Nat PROVE DayStart(d) \in Nat
BY Lengths DEF DayStart

\* Days that are less than KeepDays apart are at most KeepDays - 1 apart.
LEMMA DayGap ==
    ASSUME NEW m \in Nat, NEW j \in Nat, DayStart(m) - DayStart(j) < KeepDays * DayLength
    PROVE  DayStart(m) <= DayStart(j) + (KeepDays - 1) * DayLength
BY Lengths DEF DayStart

\* What pruning is about: the limit is longer than a day and two runs, and shorter
\* than KeepDays by more than a run.
LEMMA Limits ==
    /\ Limit \in Int /\ (KeepDays - 1) * DayLength \in Nat /\ KeepDays * DayLength \in Nat
    /\ DayLength + 2 * RunTicks < Limit
    /\ Limit + RunTicks < KeepDays * DayLength
    /\ KeepDays * DayLength = (KeepDays - 1) * DayLength + DayLength
BY Lengths, KeepAssumption DEF Limit

LEMMA DaysOK == Day(MaxClock) \in Nat /\ Days \subseteq Nat
BY Lengths, DayBounds DEF Days

LEMMA Names ==
    /\ Name = Kinds \X Days
    /\ \A n \in Name : n[1] \in Kinds /\ n[2] \in Nat /\ n = <<n[1], n[2]>> /\ n[2] \in Days
    /\ \A k \in Kinds, d \in Days : <<k, d>> \in Name
BY DaysOK DEF Name, Days

\* Taking files away.
LEMMA Thinned ==
    ASSUME NEW dir, DirOK(dir), NEW S
    PROVE  /\ DirOK(Without(dir, S))
           /\ \A n \in Name : Without(dir, S)[n] \in {dir[n], Nil}
           /\ \A t : Recent(dir, t) => Recent(Without(dir, S), t)
           /\ \A d \in Days : Pair(dir, d) /\ (\A k \in Kinds : <<k, d>> \notin S)
                                => Pair(Without(dir, S), d)
<1>1. \A n \in Name : Without(dir, S)[n] = IF n \in S THEN Nil ELSE dir[n]
  BY DEF Without
<1>2. \A n \in Name : dir[n] \in File \cup {Nil}
  BY DEF DirOK
<1>3. Without(dir, S) \in [Name -> File \cup {Nil}]
  BY <1>2 DEF Without
<1>4. DirOK(Without(dir, S))
  BY <1>1, <1>3 DEF DirOK
<1>5. \A t : Recent(dir, t) => Recent(Without(dir, S), t)
  BY <1>1 DEF Recent
<1>6. ASSUME NEW d \in Days, Pair(dir, d), \A k \in Kinds : <<k, d>> \notin S
      PROVE  Pair(Without(dir, S), d)
  BY <1>1, <1>6, Names DEF Pair
<1> QED
  BY <1>1, <1>4, <1>5, <1>6

\* A prune leaves only files of the last KeepDays nights.
LEMMA PruneLeaves ==
    ASSUME NEW dir, DirOK(dir), nightly, clock \in Nat,
           NEW m \in Nat, DayStart(m) <= clock,
           NEW S, \A n \in Name : dir[n] # Nil /\ clock - dir[n].made > Limit => n \in S
    PROVE  Recent(Without(dir, S), DayStart(m))
<1> SUFFICES ASSUME NEW n \in Name, Without(dir, S)[n] # Nil
             PROVE  Without(dir, S)[n].made + (KeepDays - 1) * DayLength >= DayStart(m)
  BY DEF Recent
<1>1. Without(dir, S)[n] = dir[n] /\ n \notin S /\ dir[n] # Nil
  BY DEF Without
<1>2. dir[n].made \in Nat /\ ~(clock - dir[n].made > Limit)
  BY <1>1 DEF DirOK, File
<1>3. PICK j \in Nat : DayStart(j) <= dir[n].made /\ dir[n].made <= DayStart(j) + RunTicks
  BY <1>1 DEF DirOK, AtNight
<1>4. DayStart(m) \in Nat /\ DayStart(j) \in Nat
  BY DayNumber
<1>5. DayStart(m) - DayStart(j) < KeepDays * DayLength
  BY <1>2, <1>3, <1>4, Limits, Lengths
<1>6. DayStart(m) <= DayStart(j) + (KeepDays - 1) * DayLength
  BY <1>5, DayGap
<1> QED
  BY <1>1, <1>2, <1>3, <1>4, <1>6, Limits

\* The files of this run are too young to be pruned, and so is what the remote has
\* under its date.
LEMMA RunKept ==
    ASSUME BackupInv, NEW p \in Proc, proc[p].at \in {"pruneLocal", "pruneRemote", "ping"},
           NEW k \in Kinds
    PROVE  /\ <<k, proc[p].day>> \notin ExpiredLocal(local)
           /\ <<k, proc[p].day>> \notin ExpiredRemote(remote)
<1> DEFINE q == proc[p]
           n == <<k, q.day>>
<1>1. RunOK(q) /\ q.at # "idle" /\ DirOK(local) /\ DirOK(remote) /\ clock \in Nat
  BY Lengths DEF BackupInv, PlacesOK
<1>2. /\ q.start \in Nat /\ clock <= q.start + RunTicks
      /\ q.day \in Days /\ q.start < DayStart(q.day) + DayLength /\ n \in Name /\ n[2] = q.day
  BY <1>1, Names, Lengths DEF RunOK, Timed, Dated
<1>3. DayStart(q.day) \in Nat
  BY <1>2, DaysOK, DayNumber
<1>4. local[n] # Nil /\ local[n].made >= q.start
  BY <1>1 DEF RunOK, Published, Own, Kinds
<1>5. remote[n] # Nil
  BY <1>1 DEF RunOK, Copied, Pair
<1> HIDE DEF n, q
<1>6. local[n].made \in Nat /\ remote[n].made \in Nat /\ DayStart(q.day) <= remote[n].made + RunTicks
  BY <1>1, <1>2, <1>4, <1>5 DEF DirOK, File
<1>7. clock - local[n].made <= RunTicks
  BY <1>1, <1>2, <1>4, <1>6, Lengths
<1>8. ~(clock - local[n].made > Limit)
  BY <1>1, <1>6, <1>7, Limits, Lengths
<1>9. clock - remote[n].made < DayLength + 2 * RunTicks
  BY <1>1, <1>2, <1>3, <1>6, Lengths
<1>10. ~(clock - remote[n].made >= Limit)
  BY <1>1, <1>6, <1>9, Limits, Lengths
<1> QED
  BY <1>8, <1>10 DEF ExpiredLocal, ExpiredRemote, n, q

LEMMA IdleRunner == Idle \in Runner /\ Idle.at = "idle"
BY DEF Idle, Runner, RunSteps

\* A step of the run that holds the lock: the other processes are idle.
LEMMA RunMoves ==
    ASSUME BackupInv, UNCHANGED <<clock, runs, nightly, lock>>, PlacesOK',
           NEW p \in Proc, proc[p].at # "idle",
           NEW q, proc' = [proc EXCEPT ![p] = q], RunOK(proc[p])'
    PROVE  BackupInv'
<1>1. ASSUME NEW s \in Proc PROVE  RunOK(proc[s])' /\ (proc'[s].at # "idle" => lock' = s)
  <2>1. CASE s = p
    BY <2>1 DEF BackupInv
  <2>2. CASE s # p
    <3>1. proc'[s] = proc[s] /\ proc[s].at = "idle" /\ proc[s] \in Runner
      BY <2>2 DEF BackupInv, RunOK
    <3> QED
      BY <3>1 DEF RunOK
  <2> QED
    BY <2>1, <2>2
<1> QED
  BY <1>1 DEF BackupInv

\* It ends, well or not.
LEMMA RunEnds ==
    ASSUME BackupInv, PlacesOK', NEW p \in Proc, proc[p].at # "idle", Exit(p)
    PROVE  BackupInv'
<1>1. ASSUME NEW s \in Proc PROVE  proc'[s] \in Runner /\ proc'[s].at = "idle"
  <2>1. CASE s = p
    BY <2>1, IdleRunner DEF BackupInv, Exit
  <2>2. CASE s # p
    BY <2>2 DEF BackupInv, RunOK, Exit
  <2> QED
    BY <2>1, <2>2
<1>2. ASSUME NEW s \in Proc PROVE  RunOK(proc[s])'
  BY <1>1 DEF RunOK
<1>3. lock' \in Proc \cup {Nil} /\ UNCHANGED <<clock, runs, nightly>>
  BY DEF Exit, BackupInv, started
<1> QED
  BY <1>1, <1>2, <1>3 DEF BackupInv, Exit

LEMMA SamePlaces == PlacesOK /\ UNCHANGED <<places, clock, nightly>> => PlacesOK'
BY DEF PlacesOK, DirOK, AtNight, Success, Backed, Pair, Recent, places

LEMMA BackupStart == BackupInit => BackupInv
<1> SUFFICES ASSUME BackupInit PROVE  BackupInv
  OBVIOUS
<1>1. PlacesOK
  BY DEF BackupInit, PlacesOK, DirOK, Success
<1>2. ASSUME NEW p \in Proc PROVE  RunOK(proc[p]) /\ proc[p].at = "idle"
  BY IdleRunner DEF BackupInit, RunOK
<1> QED
  BY <1>1, <1>2, Lengths DEF BackupInit, BackupInv

\* The lock, and the dump's temporary directory.
LEMMA RunStarts == ASSUME BackupInv, NEW p \in Proc, Start(p) PROVE BackupInv'
<1> DEFINE q == [Idle EXCEPT !.at = "dump", !.run = runs + 1, !.start = clock]
<1>1. /\ lock' = p /\ runs' = runs + 1 /\ runs < MaxRuns /\ proc' = [proc EXCEPT ![p] = q]
      /\ UNCHANGED <<clock, places>> /\ lock = Nil
      /\ nightly' = (nightly /\ clock % DayLength = 0)
  BY DEF Start, MayStart, LockFree
<1>2. clock \in Nat /\ clock <= MaxClock /\ runs + 1 \in 1..MaxRuns /\ nightly' \in BOOLEAN /\ (nightly' => nightly)
  BY <1>1, Lengths DEF BackupInv
<1>3. PlacesOK'
  <2>1. PlacesOK /\ UNCHANGED <<local, stray, remote, lastOK, clock>>
    BY <1>1 DEF BackupInv, places
  <2> QED
    BY <1>2, <2>1 DEF PlacesOK, DirOK, AtNight, Success, Backed, Pair, Recent
<1>4. /\ proc'[p].at = "dump" /\ proc'[p].run = runs + 1 /\ proc'[p].start = clock
      /\ \A k \in Kinds : proc'[p].tmp[k] = Nil
      /\ proc'[p] \in Runner
  <2>1. /\ q.at = "dump" /\ q.run = runs + 1 /\ q.start = clock
        /\ \A k \in Kinds : q.tmp[k] = Nil
    BY DEF Idle
  <2>2. q \in Runner
    <3>1. runs + 1 \in 1..MaxRuns /\ clock \in 0..MaxClock /\ Idle \in Runner
      BY <1>2, IdleRunner, Lengths
    <3> QED
      BY <3>1 DEF Runner, RunSteps
  <2>3. proc'[p] = q
    BY <1>1 DEF BackupInv
  <2> HIDE DEF q
  <2> QED
    BY <2>1, <2>2, <2>3
<1> HIDE DEF q
<1>5. RunOK(proc[p])'
  <2>1. nightly' => \E j \in Nat : clock = DayStart(j)
    BY <1>1, <1>2, OnTheHour, DayBounds
  <2>2. lastOK' # Nil => lastOK' <= clock
    BY <1>1 DEF BackupInv, PlacesOK, Success, places
  <2>3. Timed(proc[p])'
    BY <1>1, <1>2, <1>4, <2>1, <2>2, Lengths DEF Timed
  <2> QED
    BY <1>4, <2>3 DEF RunOK, Temporary, Dated, Published, Copied, Pruned
<1>6. ASSUME NEW s \in Proc PROVE  RunOK(proc[s])' /\ (proc'[s].at # "idle" => lock' = s)
  <2>1. CASE s = p
    BY <1>1, <1>5, <2>1
  <2>2. CASE s # p
    <3>1. proc'[s] = proc[s] /\ proc[s].at = "idle" /\ proc[s] \in Runner
      BY <1>1, <2>2, NilAssumption DEF BackupInv, RunOK
    <3> QED
      BY <3>1 DEF RunOK
  <2> QED
    BY <2>1, <2>2
<1> QED
  BY <1>1, <1>2, <1>3, <1>6 DEF BackupInv

\* The temporary files.
LEMMA RunWrites == ASSUME BackupInv, NEW p \in Proc, Dump(p) \/ Archive(p) PROVE BackupInv'
<1> DEFINE file == [made |-> clock, run |-> proc[p].run]
<1>1. PICK kind \in Kinds : \E step \in {"archive", "verify"} :
        proc' = [proc EXCEPT ![p].at = step, ![p].tmp[kind] = file]
  BY DEF Dump, Archive, Write, Kinds
<1>2. PICK step \in {"archive", "verify"} :
        proc' = [proc EXCEPT ![p].at = step, ![p].tmp[kind] = file]
  BY <1>1
<1>3. proc[p].at \in {"dump", "archive"} /\ UNCHANGED <<clock, lock, started, places>>
  BY DEF Dump, Archive, Write
<1>4. RunOK(proc[p]) /\ clock \in Nat /\ clock <= MaxClock
  BY Lengths DEF BackupInv
<1>5. proc[p] \in Runner /\ Timed(proc[p]) /\ Temporary(proc[p])
  BY <1>3, <1>4 DEF RunOK
<1>6. file \in File /\ file.made = clock /\ file.run = proc[p].run
  BY <1>4, <1>5, Lengths DEF File, Timed
<1> DEFINE q == [proc[p] EXCEPT !.at = step, !.tmp[kind] = file]
<1> HIDE DEF file
<1>7. proc' = [proc EXCEPT ![p] = q]
  BY <1>2
<1>8. /\ proc'[p] \in Runner /\ proc'[p].at = step
      /\ proc'[p].run = proc[p].run /\ proc'[p].start = proc[p].start
      /\ \A k \in Kinds : proc'[p].tmp[k] = IF k = kind THEN file ELSE proc[p].tmp[k]
  <2>1. /\ q \in Runner /\ q.at = step /\ q.run = proc[p].run /\ q.start = proc[p].start
        /\ \A k \in Kinds : q.tmp[k] = IF k = kind THEN file ELSE proc[p].tmp[k]
    BY <1>5, <1>6 DEF Runner, RunSteps
  <2>2. proc'[p] = q
    BY <1>7 DEF BackupInv
  <2> HIDE DEF q
  <2> QED
    BY <2>1, <2>2
<1> HIDE DEF q
<1>9. RunOK(proc[p])'
  <2>1. Timed(proc[p])'
    BY <1>3, <1>5, <1>8 DEF Timed, places, started
  <2>2. Temporary(proc[p])'
    BY <1>3, <1>4, <1>5, <1>6, <1>8, Lengths DEF Timed, Temporary
  <2> QED
    BY <1>8, <2>1, <2>2 DEF RunOK, Dated, Published, Copied, Pruned
<1>10. PlacesOK'
  BY <1>3, SamePlaces DEF BackupInv, started
<1> QED
  BY <1>3, <1>7, <1>9, <1>10, RunMoves DEF started

\* The date is read once, when the files are whole.
LEMMA RunVerifies == ASSUME BackupInv, NEW p \in Proc, Verify(p) PROVE BackupInv'
<1> DEFINE q == [proc[p] EXCEPT !.at = "publishDb", !.day = Day(clock)]
<1>1. /\ proc' = [proc EXCEPT ![p] = q] /\ proc[p].at = "verify"
      /\ \A k \in Kinds : proc[p].tmp[k] # Nil
      /\ UNCHANGED <<clock, lock, started, places>>
  BY DEF Verify, PublishDay
<1>2. RunOK(proc[p]) /\ clock \in Nat /\ clock <= MaxClock
  BY Lengths DEF BackupInv
<1>3. proc[p] \in Runner /\ Timed(proc[p]) /\ Temporary(proc[p])
  BY <1>1, <1>2 DEF RunOK
<1>4. Day(clock) \in Days /\ DayStart(Day(clock)) <= clock /\ clock < DayStart(Day(clock)) + DayLength
  BY <1>2, DayBounds, DayOrder, Lengths DEF Days
<1>5. /\ proc'[p] \in Runner /\ proc'[p].at = "publishDb" /\ proc'[p].day = Day(clock)
      /\ proc'[p].run = proc[p].run /\ proc'[p].start = proc[p].start
      /\ proc'[p].tmp = proc[p].tmp
  <2>1. /\ q \in Runner /\ q.at = "publishDb" /\ q.day = Day(clock)
        /\ q.run = proc[p].run /\ q.start = proc[p].start /\ q.tmp = proc[p].tmp
    BY <1>3, <1>4 DEF Runner, RunSteps
  <2>2. proc'[p] = q
    BY <1>1 DEF BackupInv
  <2> HIDE DEF q
  <2> QED
    BY <2>1, <2>2
<1> HIDE DEF q
<1>6. RunOK(proc[p])'
  <2>1. Timed(proc[p])'
    BY <1>1, <1>3, <1>5 DEF Timed, places, started
  <2>2. Temporary(proc[p])'
    BY <1>1, <1>3, <1>5 DEF Temporary, Kinds
  <2>3. Dated(proc[p])'
    <3>1. DayStart(Day(clock)) \in Nat
      BY <1>4, DaysOK, DayNumber
    <3> QED
      BY <1>2, <1>3, <1>4, <1>5, <3>1, Lengths DEF Timed, Dated
  <2> QED
    BY <1>5, <2>1, <2>2, <2>3 DEF RunOK, Published, Copied, Pruned
<1>7. PlacesOK'
  BY <1>1, SamePlaces DEF BackupInv, started
<1> QED
  BY <1>1, <1>6, <1>7, RunMoves DEF started

\* Publishing: the rename of a whole file, under the date of this run.
LEMMA RunPublishes == ASSUME BackupInv, NEW p \in Proc, PublishDb(p) \/ PublishPhotos(p) PROVE BackupInv'
<1> DEFINE kind == IF proc[p].at = "publishDb" THEN "db" ELSE "photos"
           step == IF proc[p].at = "publishDb" THEN "publishPhotos" ELSE "copy"
           n == <<kind, proc[p].day>>
           file == proc[p].tmp[kind]
           q == [proc[p] EXCEPT !.at = step, !.tmp[kind] = Nil]
<1>1. /\ proc[p].at \in {"publishDb", "publishPhotos"}
      /\ UNCHANGED <<clock, lock, started, stray, remote, lastOK>>
      /\ local' = [local EXCEPT ![n] = file]
      /\ proc' = [proc EXCEPT ![p] = q]
  BY DEF PublishDb, PublishPhotos, Publish
<1>2. /\ RunOK(proc[p]) /\ PlacesOK /\ clock \in Nat
  BY Lengths DEF BackupInv
<1>3. /\ proc[p] \in Runner /\ Timed(proc[p]) /\ Temporary(proc[p]) /\ Dated(proc[p])
      /\ Published(proc[p])
  BY <1>1, <1>2 DEF RunOK
<1>4. /\ kind \in Kinds /\ proc[p].day \in Days /\ n \in Name /\ n[2] = proc[p].day
      /\ DayStart(proc[p].day) <= proc[p].start + RunTicks /\ proc[p].start \in Nat
  BY <1>1, <1>3, Names, Lengths DEF Kinds, Dated, Timed
<1>5. /\ file # Nil /\ file.run = proc[p].run
      /\ proc[p].start <= file.made /\ file.made <= clock
  BY <1>1, <1>3, <1>4 DEF Temporary
<1>6. file \in File /\ file.made \in Nat
  <2>1. file \in File
    BY <1>3, <1>4, <1>5 DEF Runner
  <2> HIDE DEF file
  <2> QED
    BY <2>1, Lengths DEF File
<1>7. /\ proc'[p] \in Runner /\ proc'[p].at = step
      /\ proc'[p].run = proc[p].run /\ proc'[p].start = proc[p].start /\ proc'[p].day = proc[p].day
      /\ \A k \in Kinds : proc'[p].tmp[k] = IF k = kind THEN Nil ELSE proc[p].tmp[k]
  <2>1. step \in RunSteps
    BY DEF RunSteps
  <2> HIDE DEF kind, step
  <2>2. /\ q \in Runner /\ q.at = step
        /\ q.run = proc[p].run /\ q.start = proc[p].start /\ q.day = proc[p].day
        /\ \A k \in Kinds : q.tmp[k] = IF k = kind THEN Nil ELSE proc[p].tmp[k]
    BY <1>3, <1>4, <2>1 DEF Runner
  <2>3. proc'[p] = q
    BY <1>1 DEF BackupInv
  <2> HIDE DEF q
  <2> QED
    BY <2>2, <2>3
<1>8. local' \in [Name -> File \cup {Nil}] /\ \A m \in Name : local'[m] = IF m = n THEN file ELSE local[m]
  <2>1. local \in [Name -> File \cup {Nil}]
    BY <1>2 DEF PlacesOK, DirOK
  <2> HIDE DEF n, file
  <2> QED
    BY <1>1, <1>4, <1>6, <2>1
<1>9. PlacesOK'
  <2>1. DayStart(n[2]) <= file.made + RunTicks
    <3>1. DayStart(proc[p].day) \in Nat
      BY <1>4, DaysOK, DayNumber
    <3>2. DayStart(proc[p].day) <= file.made + RunTicks
      BY <1>4, <1>5, <1>6, <3>1, Lengths
    <3> QED
      BY <1>4, <3>2
  <2>2. nightly => AtNight(file.made)
    <3> SUFFICES ASSUME nightly PROVE  AtNight(file.made)
      OBVIOUS
    <3>1. PICK j \in Nat : proc[p].start = DayStart(j)
      BY <1>3 DEF Timed
    <3>2. DayStart(j) <= file.made /\ file.made <= DayStart(j) + RunTicks
      BY <1>2, <1>3, <1>4, <1>5, <1>6, <3>1, DayNumber, Lengths DEF Timed
    <3> QED
      BY <3>2 DEF AtNight
  <2>3. lastOK # Nil => lastOK \in Nat /\ file.made + (KeepDays - 1) * DayLength >= lastOK
    BY <1>2, <1>3, <1>4, <1>5, <1>6, Limits, Lengths DEF Timed, PlacesOK
  <2> HIDE DEF n, file
  <2>4. DirOK(local)'
    BY <1>1, <1>2, <1>5, <1>8, <2>1, <2>2 DEF PlacesOK, DirOK, AtNight, started
  <2>5. DirOK(remote)'
    BY <1>1, <1>2 DEF PlacesOK, DirOK, AtNight, started
  <2>6. Success'
    <3>1. Backed(local) => Backed(local')
      BY <1>5, <1>8, Names DEF Backed, Pair
    <3>2. lastOK # Nil => (Recent(local, lastOK) => Recent(local', lastOK))
      BY <1>8, <2>3 DEF Recent
    <3> QED
      BY <1>1, <1>2, <3>1, <3>2 DEF PlacesOK, Success, Backed, Pair, Recent, started
  <2> QED
    BY <1>1, <1>2, <2>4, <2>5, <2>6 DEF PlacesOK
<1>10. RunOK(proc[p])'
  <2>1. Timed(proc[p])'
    BY <1>1, <1>3, <1>7 DEF Timed, started
  <2>2. Temporary(proc[p])'
    BY <1>1, <1>3, <1>7 DEF Temporary, Kinds
  <2>3. Dated(proc[p])'
    BY <1>1, <1>3, <1>7 DEF Dated
  <2>4. Published(proc[p])'
    <3>1. /\ proc[p].at = "publishDb" => Own(proc[p], "db")'
          /\ proc[p].at = "publishPhotos" => Own(proc[p], "photos")'
      <4>1. local'[<<kind, proc'[p].day>>] = file /\ proc'[p].run = proc[p].run /\ proc'[p].start = proc[p].start
        BY <1>4, <1>7, <1>8
      <4>2. file # Nil /\ file.run = proc[p].run /\ file.made >= proc[p].start
        BY <1>4, <1>5, <1>6
      <4> HIDE DEF file
      <4> QED
        BY <4>1, <4>2 DEF Own
    <3>2. proc[p].at = "publishPhotos" => Own(proc[p], "db")'
      <4> SUFFICES ASSUME proc[p].at = "publishPhotos" PROVE  Own(proc[p], "db")'
        OBVIOUS
      <4>1. Own(proc[p], "db")
        BY <1>3 DEF Published
      <4>2. <<"db", proc[p].day>> \in Name /\ <<"db", proc[p].day>> # n
        BY <1>4, Names DEF Kinds
      <4> QED
        BY <1>7, <1>8, <4>1, <4>2 DEF Own
    <3> QED
      BY <1>1, <1>7, <3>1, <3>2 DEF Published
  <2> QED
    BY <1>1, <1>7, <2>1, <2>2, <2>3, <2>4 DEF RunOK, Copied, Pruned
<1> QED
  BY <1>1, <1>9, <1>10, RunMoves DEF started

\* rclone copies what the remote does not have.
LEMMA RunCopies == ASSUME BackupInv, NEW p \in Proc, CopyFile(p) PROVE BackupInv'
<1>1. PICK n \in Missing : remote' = [remote EXCEPT ![n] = local[n]]
  BY DEF CopyFile
<1>2. proc[p].at = "copy" /\ UNCHANGED <<clock, lock, proc, started, local, stray, lastOK>>
  BY DEF CopyFile
<1>3. n \in Name /\ local[n] # Nil /\ DirOK(local) /\ DirOK(remote) /\ PlacesOK
  BY DEF Missing, BackupInv, PlacesOK
<1>4. /\ local[n] \in File \cup {Nil} /\ remote' \in [Name -> File \cup {Nil}]
      /\ \A m \in Name : remote'[m] = IF m = n THEN local[n] ELSE remote[m]
  BY <1>1, <1>3 DEF DirOK
<1>5. DirOK(local)' /\ DirOK(remote)'
  BY <1>2, <1>3, <1>4 DEF DirOK, AtNight, started
<1>6. Success'
  <2>1. Backed(remote) => Backed(remote')
    BY <1>3, <1>4, Names DEF Backed, Pair
  <2>2. Recent(local, lastOK) /\ Recent(remote, lastOK) => Recent(remote', lastOK)
    BY <1>3, <1>4 DEF Recent
  <2> QED
    BY <1>2, <1>3, <2>1, <2>2 DEF PlacesOK, Success, Backed, Pair, Recent, started
<1>7. PlacesOK'
  BY <1>2, <1>3, <1>5, <1>6 DEF PlacesOK
<1>8. ASSUME NEW s \in Proc PROVE  RunOK(proc[s])'
  <2>1. RunOK(proc[s]) /\ proc'[s] = proc[s] /\ proc[s].at \in {"idle", "copy"}
    BY <1>2, NilAssumption DEF BackupInv
  <2> QED
    BY <1>2, <2>1 DEF RunOK, Timed, Temporary, Dated, Published, Own, Copied, Pruned, started
<1> QED
  BY <1>2, <1>7, <1>8 DEF BackupInv, started

LEMMA RunCopied == ASSUME BackupInv, NEW p \in Proc, CopyDone(p) PROVE BackupInv'
<1> DEFINE q == [proc[p] EXCEPT !.at = "pruneLocal"]
<1>1. /\ proc[p].at = "copy" /\ Missing = {} /\ UNCHANGED <<clock, lock, started, places>>
      /\ proc' = [proc EXCEPT ![p] = q]
  BY DEF CopyDone, Proceed
<1>2. RunOK(proc[p])
  BY DEF BackupInv
<1>3. proc'[p] = q /\ proc[p] \in Runner
  BY <1>1, <1>2 DEF BackupInv, RunOK
<1>4. /\ proc'[p] \in Runner /\ proc'[p].at = "pruneLocal"
      /\ proc'[p].run = proc[p].run /\ proc'[p].start = proc[p].start
      /\ proc'[p].day = proc[p].day /\ proc'[p].tmp = proc[p].tmp
  BY <1>3 DEF Runner, RunSteps
<1> HIDE DEF q
<1>5. RunOK(proc[p])'
  <2>1. Timed(proc[p])' /\ Temporary(proc[p])' /\ Dated(proc[p])'
    BY <1>1, <1>2, <1>4 DEF RunOK, Timed, Temporary, Dated, places, started
  <2>2. Published(proc[p])'
    BY <1>1, <1>2, <1>4 DEF RunOK, Published, Own, places
  <2>3. Pair(remote, proc[p].day)
    <3> SUFFICES ASSUME NEW k \in Kinds PROVE  remote[<<k, proc[p].day>>] # Nil
      BY DEF Pair
    <3>1. local[<<k, proc[p].day>>] # Nil /\ <<k, proc[p].day>> \in Name
      BY <1>1, <1>2, Names DEF RunOK, Published, Own, Dated, Kinds
    <3> QED
      BY <1>1, <3>1 DEF Missing
  <2>4. Copied(proc[p])' /\ Pruned(proc[p])'
    BY <1>1, <1>4, <2>3 DEF Copied, Pruned, Pair, places
  <2> QED
    BY <1>4, <2>1, <2>2, <2>4 DEF RunOK
<1>6. PlacesOK'
  BY <1>1, SamePlaces DEF BackupInv, started
<1> QED
  BY <1>1, <1>5, <1>6, RunMoves DEF started

\* What a prune takes away is not what this run relies on.
LEMMA PrunedPlaces ==
    ASSUME BackupInv, NEW p \in Proc, proc[p].at \in {"pruneLocal", "pruneRemote"},
           UNCHANGED <<clock, nightly, stray, lastOK>>,
           NEW S \in SUBSET ExpiredLocal(local), NEW R \in SUBSET ExpiredRemote(remote),
           local' = Without(local, S), remote' = Without(remote, R)
    PROVE  /\ PlacesOK'
           /\ \A k \in Kinds : local'[<<k, proc[p].day>>] = local[<<k, proc[p].day>>]
           /\ Pair(remote', proc[p].day)
<1> DEFINE d == proc[p].day
<1>1. PlacesOK /\ DirOK(local) /\ DirOK(remote) /\ RunOK(proc[p])
  BY DEF BackupInv, PlacesOK
<1>2. d \in Days /\ Pair(local, d) /\ Pair(remote, d)
  BY <1>1 DEF RunOK, Dated, Published, Own, Copied, Pair, Kinds
<1>3. \A k \in Kinds : <<k, d>> \notin S /\ <<k, d>> \notin R
  BY RunKept
<1>4. \A k \in Kinds : local'[<<k, d>>] = local[<<k, d>>]
  BY <1>2, <1>3, Names DEF Without
<1>5. DirOK(local') /\ DirOK(remote') /\ Pair(local', d) /\ Pair(remote', d)
  BY <1>1, <1>2, <1>3, Thinned
<1>6. \A t : (Recent(local, t) => Recent(local', t)) /\ (Recent(remote, t) => Recent(remote', t))
  BY <1>1, Thinned
<1>7. (DirOK(local) /\ DirOK(remote))'
  BY <1>5 DEF DirOK, AtNight
<1>8. Success'
  BY <1>1, <1>2, <1>5, <1>6 DEF PlacesOK, Success, Backed, Pair, Recent
<1> QED
  BY <1>1, <1>4, <1>5, <1>7, <1>8 DEF PlacesOK

LEMMA RunPrunes == ASSUME BackupInv, NEW p \in Proc, PruneLocal(p) \/ PruneRemote(p) PROVE BackupInv'
<1> DEFINE step == IF proc[p].at = "pruneLocal" THEN "pruneRemote" ELSE "ping"
           q == [proc[p] EXCEPT !.at = step]
<1>1. /\ proc[p].at \in {"pruneLocal", "pruneRemote"}
      /\ UNCHANGED <<clock, lock, started, stray, lastOK>> /\ proc' = [proc EXCEPT ![p] = q]
  BY DEF PruneLocal, PruneRemote, Proceed
<1>2. RunOK(proc[p]) /\ DirOK(local) /\ DirOK(remote) /\ clock \in Nat
  BY Lengths DEF BackupInv, PlacesOK
<1>3. proc'[p] = q /\ proc[p] \in Runner
  BY <1>1, <1>2 DEF BackupInv, RunOK
<1>4. /\ proc'[p] \in Runner /\ proc'[p].at = step
      /\ proc'[p].run = proc[p].run /\ proc'[p].start = proc[p].start
      /\ proc'[p].day = proc[p].day /\ proc'[p].tmp = proc[p].tmp
  BY <1>3 DEF Runner, RunSteps
<1> HIDE DEF q
<1>5. /\ proc[p].at = "pruneLocal" =>
            local' = Without(local, ExpiredLocal(local)) /\ remote' = remote
      /\ proc[p].at = "pruneRemote" =>
            remote' = Without(remote, ExpiredRemote(remote)) /\ local' = local
  BY <1>1 DEF PruneLocal, PruneRemote
<1>6. local = Without(local, {}) /\ remote = Without(remote, {})
  BY <1>2 DEF DirOK, Without
<1>7. /\ PlacesOK' /\ \A k \in Kinds : local'[<<k, proc[p].day>>] = local[<<k, proc[p].day>>]
      /\ Pair(remote', proc[p].day)
  <2>1. CASE proc[p].at = "pruneLocal"
    BY <1>1, <1>5, <1>6, <2>1, PrunedPlaces DEF started
  <2>2. CASE proc[p].at = "pruneRemote"
    BY <1>1, <1>5, <1>6, <2>2, PrunedPlaces DEF started
  <2> QED
    BY <1>1, <2>1, <2>2
<1>8. nightly => /\ proc[p].at = "pruneLocal" => Recent(local', proc[p].start)
                 /\ proc[p].at = "pruneRemote" => Recent(remote', proc[p].start)
  <2> SUFFICES ASSUME nightly
               PROVE  /\ proc[p].at = "pruneLocal" => Recent(local', proc[p].start)
                      /\ proc[p].at = "pruneRemote" => Recent(remote', proc[p].start)
    OBVIOUS
  <2>1. PICK m \in Nat : proc[p].start = DayStart(m)
    BY <1>1, <1>2 DEF RunOK, Timed
  <2>2. DayStart(m) <= clock
    BY <1>1, <1>2, <2>1 DEF RunOK, Timed
  <2>3. Recent(Without(local, ExpiredLocal(local)), DayStart(m))
    <3>1. \A n \in Name : local[n] # Nil /\ clock - local[n].made > Limit => n \in ExpiredLocal(local)
      BY DEF ExpiredLocal
    <3> QED
      BY <1>2, <2>2, <3>1, PruneLeaves
  <2>4. Recent(Without(remote, ExpiredRemote(remote)), DayStart(m))
    <3>1. \A n \in Name : remote[n] # Nil => remote[n].made \in Nat
      BY <1>2 DEF DirOK, File
    <3>2. \A n \in Name : remote[n] # Nil /\ clock - remote[n].made > Limit => n \in ExpiredRemote(remote)
      BY <1>2, <3>1, Limits DEF ExpiredRemote
    <3> QED
      BY <1>2, <2>2, <3>2, PruneLeaves
  <2> QED
    BY <1>5, <2>1, <2>3, <2>4
<1>9. RunOK(proc[p])'
  <2>1. Timed(proc[p])' /\ Temporary(proc[p])' /\ Dated(proc[p])'
    BY <1>1, <1>2, <1>4 DEF RunOK, Timed, Temporary, Dated, started
  <2>2. Published(proc[p])'
    BY <1>1, <1>2, <1>4, <1>7 DEF RunOK, Published, Own, Kinds
  <2>3. Copied(proc[p])'
    BY <1>4, <1>7 DEF Copied, Pair
  <2>4. Pruned(proc[p])'
    <3> SUFFICES ASSUME nightly
                 PROVE  /\ Recent(local', proc[p].start)
                        /\ proc[p].at = "pruneRemote" => Recent(remote', proc[p].start)
      BY <1>1, <1>4 DEF Pruned, Recent, started
    <3> QED
      BY <1>1, <1>2, <1>5, <1>8 DEF RunOK, Pruned
  <2> QED
    BY <1>4, <2>1, <2>2, <2>3, <2>4 DEF RunOK
<1> QED
  BY <1>1, <1>7, <1>9, RunMoves DEF started

\* The ways a run ends: a ping, an error, a prune that stops half way, a kill.
LEMMA RunOver ==
    ASSUME BackupInv, NEW p \in Proc, Ping(p) \/ Die(p) \/ PruneFails(p) \/ Killed(p)
    PROVE  BackupInv'
<1>1. proc[p].at # "idle" /\ Exit(p) /\ UNCHANGED <<clock, started>>
  BY DEF Ping, Die, PruneFails, Killed, Exit
<1>2. RunOK(proc[p]) /\ PlacesOK /\ DirOK(local) /\ DirOK(remote)
  BY DEF BackupInv, PlacesOK
<1>3. CASE Ping(p)
  <2>1. /\ UNCHANGED <<local, stray, remote>> /\ lastOK' = proc[p].start /\ proc[p].at = "ping"
    BY <1>3 DEF Ping
  <2>2. /\ proc[p].start \in 0..MaxClock /\ proc[p].start <= clock
        /\ Backed(local) /\ Backed(remote)
        /\ nightly => Recent(local, proc[p].start) /\ Recent(remote, proc[p].start)
    BY <1>2, <2>1 DEF RunOK, Timed, Dated, Published, Own, Copied, Pruned, Backed, Pair, Kinds
  <2>3. DirOK(local)' /\ DirOK(remote)' /\ Success'
    BY <1>1, <1>2, <2>1, <2>2 DEF DirOK, AtNight, Success, Backed, Pair, Recent, started
  <2>4. PlacesOK'
    BY <1>2, <2>1, <2>2, <2>3 DEF PlacesOK
  <2> QED
    BY <1>1, <2>4, RunEnds
<1>4. CASE Die(p)
  <2>1. PlacesOK'
    BY <1>1, <1>2, <1>4, SamePlaces DEF Die, started
  <2> QED
    BY <1>1, <2>1, RunEnds
<1>5. CASE Killed(p)
  <2>1. stray' \subseteq File /\ UNCHANGED <<local, remote, lastOK, clock, nightly>>
    <3>1. \A k \in Kinds : proc[p].tmp[k] \in File \cup {Nil}
      BY <1>2 DEF RunOK, Runner
    <3> QED
      BY <1>1, <1>2, <1>5, <3>1 DEF Killed, PlacesOK, started
  <2>2. PlacesOK'
    BY <1>2, <2>1 DEF PlacesOK, DirOK, AtNight, Success, Backed, Pair, Recent
  <2> QED
    BY <1>1, <2>2, RunEnds
<1>6. CASE PruneFails(p)
  <2>1. local = Without(local, {}) /\ remote = Without(remote, {})
    BY <1>2 DEF DirOK, Without
  <2>2. proc[p].at \in {"pruneLocal", "pruneRemote"} /\ UNCHANGED <<clock, nightly, stray, lastOK>>
    BY <1>1, <1>6 DEF PruneFails, started
  <2>3. PlacesOK'
    <3>1. CASE proc[p].at = "pruneLocal"
      <4>1. PICK n \in ExpiredLocal(local) : local' = Without(local, {n})
        BY <1>6, <3>1 DEF PruneFails
      <4>2. remote' = Without(remote, {})
        BY <1>6, <2>1, <3>1 DEF PruneFails
      <4>3. {n} \in SUBSET ExpiredLocal(local) /\ {} \in SUBSET ExpiredRemote(remote)
        BY <4>1
      <4> QED
        BY <2>2, <4>1, <4>2, <4>3, PrunedPlaces
    <3>2. CASE proc[p].at = "pruneRemote"
      <4>1. PICK n \in ExpiredRemote(remote) : remote' = Without(remote, {n})
        BY <1>6, <3>2 DEF PruneFails
      <4>2. local' = Without(local, {})
        BY <1>6, <2>1, <3>2 DEF PruneFails
      <4>3. {n} \in SUBSET ExpiredRemote(remote) /\ {} \in SUBSET ExpiredLocal(local)
        BY <4>1
      <4> QED
        BY <2>2, <4>1, <4>2, <4>3, PrunedPlaces
    <3> QED
      BY <2>2, <3>1, <3>2
  <2> QED
    BY <1>1, <2>3, RunEnds
<1> QED
  BY <1>3, <1>4, <1>5, <1>6

LEMMA ClockMoves == ASSUME BackupInv, ClockTicks PROVE BackupInv'
<1>1. /\ clock \in Nat /\ clock' = clock + 1 /\ clock' \in 0..MaxClock
      /\ UNCHANGED <<lock, proc, runs, nightly, local, stray, remote, lastOK>>
      /\ \A p \in Proc : proc[p].at # "idle" => clock - proc[p].start < RunTicks
  BY Lengths DEF ClockTicks, BackupInv, started, places
<1>2. PlacesOK'
  <2>1. DirOK(local)' /\ DirOK(remote)'
    BY <1>1, Lengths DEF BackupInv, PlacesOK, DirOK, AtNight, File
  <2>2. lastOK \in 0..MaxClock \cup {Nil} /\ Success
    BY DEF BackupInv, PlacesOK
  <2>3. Success'
    BY <1>1, <2>2, Lengths DEF Success, Backed, Pair, Recent
  <2> QED
    BY <1>1, <2>1, <2>3 DEF BackupInv, PlacesOK
<1>3. ASSUME NEW p \in Proc PROVE  RunOK(proc[p])'
  <2>1. RunOK(proc[p]) /\ proc'[p] = proc[p]
    BY <1>1 DEF BackupInv
  <2>2. CASE proc[p].at # "idle"
    <3>1. Timed(proc[p])'
      BY <1>1, <2>1, <2>2, Lengths DEF RunOK, Timed
    <3>2. Temporary(proc[p])'
      <4>1. \A k \in Kinds : proc[p].tmp[k] # Nil => proc[p].tmp[k].made \in Nat
        BY <2>1 DEF RunOK, Runner, File
      <4> QED
        BY <1>1, <2>1, <2>2, <4>1 DEF RunOK, Temporary
    <3> QED
      BY <1>1, <2>1, <2>2, <3>1, <3>2 DEF RunOK, Dated, Published, Own, Copied, Pair, Pruned, Recent
  <2> QED
    BY <1>1, <2>1, <2>2 DEF RunOK
<1> QED
  BY <1>1, <1>2, <1>3 DEF BackupInv

LEMMA BackupStep == BackupInv /\ [BackupNext]_backupVars => BackupInv'
<1> SUFFICES ASSUME BackupInv, [BackupNext]_backupVars PROVE  BackupInv'
  OBVIOUS
<1>1. CASE UNCHANGED backupVars
  <2>1. UNCHANGED <<clock, lock, proc, runs, local, stray, remote, lastOK, nightly>>
    BY <1>1 DEF backupVars
  <2>2. PlacesOK'
    BY <2>1, SamePlaces DEF BackupInv, places
  <2>3. ASSUME NEW p \in Proc PROVE  RunOK(proc[p])'
    <3>1. RunOK(proc[p])
      BY DEF BackupInv
    <3> QED
      BY <2>1, <3>1 DEF RunOK, Timed, Temporary, Dated, Published, Own, Copied, Pair, Pruned, Recent
  <2> QED
    BY <2>1, <2>2, <2>3 DEF BackupInv
<1>2. CASE BackupNext
  BY <1>2, ClockMoves, RunStarts, RunWrites, RunVerifies, RunPublishes, RunCopies, RunCopied,
     RunPrunes, RunOver DEF BackupNext, Step
<1> QED
  BY <1>1, <1>2

\* backup.sh, "nothing old is deleted ... unless every step before pruning worked" and
\* "none older than 7 days": through failures, kills and overlapping runs there is a
\* pair to restore from in both places once a run has succeeded, and on the nightly
\* schedule no file outlives BACKUP_KEEP_DAYS by more than a run.
THEOREM BackupsAreKept == BackupSpec => []BackupsKept
<1>1. BackupInv => BackupsKept
  <2> SUFFICES ASSUME BackupInv PROVE  BackupsKept
    OBVIOUS
  <2>1. BackupTypeOK
    <3>1. proc \in [Proc -> Runner]
      BY DEF BackupInv, RunOK
    <3> QED
      BY <3>1 DEF BackupInv, PlacesOK, DirOK, BackupTypeOK, Runner, Days
  <2>2. NeverWithoutBackup
    BY DEF BackupInv, PlacesOK, Success, Backed, NeverWithoutBackup, Days
  <2>3. DailyRetention
    <3> SUFFICES ASSUME nightly, lastOK # Nil, clock <= lastOK + DayLength + RunTicks,
                        NEW dir \in {local, remote}, NEW n \in Name, dir[n] # Nil
                 PROVE  clock - dir[n].made <= KeepDays * DayLength + RunTicks
      BY DEF DailyRetention
    <3>1. lastOK \in Nat /\ clock \in Nat /\ DirOK(dir) /\ Recent(dir, lastOK)
      BY Lengths DEF BackupInv, PlacesOK, Success
    <3>2. dir[n].made \in Nat /\ dir[n].made + (KeepDays - 1) * DayLength >= lastOK
      BY <3>1 DEF DirOK, File, Recent
    <3> QED
      BY <3>1, <3>2, Limits, Lengths
  <2> QED
    BY <2>1, <2>2, <2>3 DEF BackupsKept
<1> QED
  BY BackupStart, BackupStep, <1>1, PTL DEF BackupSpec

\* "Only a full success reaches here": whoever pings has published both files of this
\* very run under one date, and the remote has a pair of that date.
THEOREM PingTells == BackupSpec => PingHonest
<1> DEFINE Told ==
        \A p \in Proc : proc[p].at = "ping" /\ lastOK' = proc[p].start /\ proc'[p] = Idle =>
          /\ \A k \in Kinds : /\ local[<<k, proc[p].day>>] # Nil
                              /\ local[<<k, proc[p].day>>].run = proc[p].run
          /\ Pair(remote, proc[p].day)
<1>1. BackupInv /\ [BackupNext]_backupVars => [Told]_backupVars
  <2> SUFFICES ASSUME BackupInv, NEW p \in Proc, proc[p].at = "ping"
               PROVE  /\ \A k \in Kinds : /\ local[<<k, proc[p].day>>] # Nil
                                          /\ local[<<k, proc[p].day>>].run = proc[p].run
                      /\ Pair(remote, proc[p].day)
    OBVIOUS
  <2> QED
    BY DEF BackupInv, RunOK, Published, Own, Copied, Kinds
<1> QED
  BY BackupStart, BackupStep, <1>1, PTL DEF BackupSpec, PingHonest
===============================================================================
