-------------------------------- MODULE SignIn --------------------------------
(***************************************************************************)
(* Signing in, out and away through a browser: the handlers of             *)
(* internal/web/login.go and account.go, the CurrentUser middleware of     *)
(* auth.go, the session service and the purge of its table.                *)
(*                                                                         *)
(* One browser, with one cookie jar, runs its tabs at the same time.  A    *)
(* request takes its cookies from the jar when it is sent; the server      *)
(* works it off one database call at a time, interleaved with the other    *)
(* tab's; the answer changes the jar when it arrives, in any order.        *)
(* The transactions of the user service are single steps here: Accounts    *)
(* takes them apart.                                                       *)
(***************************************************************************)
EXTENDS Integers, FiniteSets

CONSTANTS
    Tab, Email, None,
    Link,        \* login tokens
    Session,     \* session tokens
    Nonce,       \* values of the confirmation nonce
    Budget, TTL, Retention,
    Ops,         \* the requests the browser makes
    Faults,      \* of "db", "lostreply" and "mail": what may go wrong
    MaxClock,    \* bound on the clock
    MaxId        \* bound on the number of accounts ever created

ASSUME FaultsAssumption == Faults \subseteq {"db", "lostreply", "mail"}
ASSUME TimeAssumption == {TTL, Retention, MaxClock, MaxId} \subseteq Nat
ASSUME NoneAssumption ==
    /\ None \notin Email \cup Link \cup Session \cup Nonce \cup Int
    /\ {None, "keep", "clear"} \cap (Session \cup Nonce) = {}

VARIABLES
    clock,
    users, nextId,             \* the id of each address's account; ids are never reused
    linkOf, live, inbox,       \* login tokens: address, not yet spent or retired, mailed
    rows, suser, expires, revoked,   \* the sessions table
    jar,                       \* the browser's cookies
    page,                      \* the confirmation page each tab shows
    req                        \* the request each tab waits for

userVars == <<users, nextId>>
linkVars == <<linkOf, live, inbox>>
sessVars == <<rows, suser, expires, revoked>>
tabVars  == <<jar, page>>
vars     == <<clock, userVars, linkVars, sessVars, tabVars, req>>

NoPage == [link |-> None, nonce |-> None]

NoRequest ==
    [op |-> "none", at |-> "idle", email |-> None, link |-> None, form |-> None,
     cookie |-> None, nonce |-> None,      \* the cookies it carries
     user |-> None, fresh |-> None,
     setSession |-> "keep", setNonce |-> "keep"]

Id == 1..MaxId

TypeOK ==
    /\ clock \in 0..MaxClock
    /\ users \in [Email -> Id \cup {None}]
    /\ nextId \in 1..(MaxId + 1)
    /\ linkOf \in [Link -> Email \cup {None}]
    /\ live \subseteq Link /\ inbox \subseteq Link
    /\ rows \subseteq Session
    /\ suser \in [Session -> Id \cup {None}]
    /\ expires \in [Session -> Nat]
    /\ revoked \in [Session -> Nat \cup {None}]
    /\ jar \in [session : Session \cup {None}, nonce : Nonce \cup {None}]
    /\ page \in [Tab -> [link : Link \cup {None}, nonce : Nonce \cup {None}]]
    /\ req \in [Tab ->
          [op : {"none", "request", "open", "complete", "logout", "delete"},
           at : {"idle", "lookup", "load", "handle", "mail", "issue", "revoke", "reply"},
           email : Email \cup {None}, link : Link \cup {None},
           form : Nonce \cup {None}, cookie : Session \cup {None},
           nonce : Nonce \cup {None}, user : Id \cup {None},
           fresh : Session \cup {None},
           setSession : Session \cup {"keep", "clear"},
           setNonce : Nonce \cup {"keep", "clear"}]]

Init ==
    /\ clock = 0
    /\ users = [e \in Email |-> None] /\ nextId = 1
    /\ linkOf = [l \in Link |-> None] /\ live = {} /\ inbox = {}
    /\ rows = {}
    /\ suser = [s \in Session |-> None]
    /\ expires = [s \in Session |-> 0]
    /\ revoked = [s \in Session |-> None]
    /\ jar = [session |-> None, nonce |-> None]
    /\ page = [t \in Tab |-> NoPage]
    /\ req = [t \in Tab |-> NoRequest]

Ids == {users[e] : e \in Email} \ {None}

Live(s) == s \in rows /\ revoked[s] = None /\ clock < expires[s]
-------------------------------------------------------------------------------
(* The browser sends a request.                                            *)

Send(t, op, e, l, form) ==
    /\ req[t].op = "none" /\ op \in Ops
    /\ req' = [req EXCEPT ![t] =
          [NoRequest EXCEPT !.op = op, !.at = "lookup", !.email = e, !.link = l,
                            !.form = form, !.cookie = jar.session, !.nonce = jar.nonce]]
    /\ UNCHANGED <<clock, userVars, linkVars, sessVars, tabVars>>

SendRequest(t, e) == Send(t, "request", e, None, None)

\* A mail scanner may do this as well.
SendOpen(t, l) == l \in inbox /\ Send(t, "open", None, l, None)

SendComplete(t) ==
    page[t] # NoPage /\ Send(t, "complete", None, page[t].link, page[t].nonce)

SendLogout(t) == Send(t, "logout", None, None, None)

SendDelete(t) == Send(t, "delete", None, None, None)

(* The server answers.                                                     *)

At(t, op, at) == req[t].op = op /\ req[t].at = at

\* The Set-Cookie headers of the answer.
Reply(t, session, nonce) ==
    req' = [req EXCEPT ![t].at = "reply", ![t].setSession = session,
                       ![t].setNonce = nonce]

Refuse(t, session, nonce) ==
    /\ Reply(t, session, nonce)
    /\ UNCHANGED <<clock, userVars, linkVars, sessVars, tabVars>>

Fault(f) == f \in Faults

(* CurrentUser: two reads in front of every handler.                       *)

Lookup(t) ==
    /\ req[t].at = "lookup"
    /\ req' = IF req[t].cookie # None /\ Live(req[t].cookie)
              THEN [req EXCEPT ![t].at = "load", ![t].user = suser[req[t].cookie]]
              ELSE [req EXCEPT ![t].at = "handle"]
    /\ UNCHANGED <<clock, userVars, linkVars, sessVars, tabVars>>

\* Of the handlers here only the deletion asks who is signed in.
GetByID(t) ==
    /\ req[t].at = "load"
    /\ req' = [req EXCEPT ![t].at = "handle",
          ![t].user = IF @ \in Ids /\ req[t].op = "delete" THEN @ ELSE None]
    /\ UNCHANGED <<clock, userVars, linkVars, sessVars, tabVars>>

CurrentUserFails(t) ==
    /\ Fault("db")
    /\ \/ req[t].at = "lookup" /\ req[t].cookie # None
       \/ req[t].at = "load"
    /\ Refuse(t, "keep", "keep")

(* handleLoginRequest                                                      *)

LinksOf(e) == {l \in Link : linkOf[l] = e}

RequestLogin(t) ==
    /\ At(t, "request", "handle")
    /\ \E l \in LinksOf(None) :
          /\ linkOf' = [linkOf EXCEPT ![l] = req[t].email]
          /\ live' = (live \ LinksOf(req[t].email)) \cup {l}
          /\ req' = [req EXCEPT ![t].at = "mail", ![t].link = l]
    /\ UNCHANGED <<clock, userVars, inbox, sessVars, tabVars>>

\* Budget links are needed, not all of them need be recent: that is in Accounts.
LoginBudgetExceeded(t) ==
    /\ At(t, "request", "handle")
    /\ Cardinality(LinksOf(req[t].email)) >= Budget
    /\ Refuse(t, "keep", "keep")

RequestFails(t) ==
    /\ At(t, "request", "handle")
    /\ Fault("db")
    /\ Refuse(t, "keep", "keep")

SendMail(t) ==
    /\ At(t, "request", "mail")
    /\ inbox' = inbox \cup {req[t].link}
    /\ Reply(t, "keep", "keep")
    /\ UNCHANGED <<clock, userVars, linkOf, live, sessVars, tabVars>>

MailFails(t) ==
    /\ At(t, "request", "mail")
    /\ Fault("mail")
    /\ Refuse(t, "keep", "keep")

(* handleLoginConfirm                                                      *)

\* rand.Text never repeats a value: one that nothing holds any more is as good
\* as new.
FreshNonce ==
    Nonce \ ({jar.nonce} \cup {page[t].nonce : t \in Tab}
             \cup UNION {{req[t].form, req[t].nonce, req[t].setNonce} : t \in Tab})

handleLoginConfirm(t) ==
    /\ At(t, "open", "handle")
    /\ \E n \in FreshNonce : Refuse(t, "keep", n)

(* handleLoginComplete                                                     *)

nonceMatches(t) == req[t].nonce # None /\ req[t].nonce = req[t].form

NonceMismatch(t) ==
    /\ At(t, "complete", "handle")
    /\ ~nonceMatches(t)
    /\ Refuse(t, "keep", "keep")

\* Spends the link and finds or creates the account.
SpendLink(t) ==
    LET e == linkOf[req[t].link] IN
    /\ At(t, "complete", "handle")
    /\ nonceMatches(t)
    /\ req[t].link \in live
    /\ live' = live \ {req[t].link}
    /\ \/ users[e] # None /\ UNCHANGED userVars
       \/ /\ users[e] = None /\ nextId <= MaxId
          /\ users' = [users EXCEPT ![e] = nextId]
          /\ nextId' = nextId + 1
    /\ UNCHANGED <<clock, linkOf, inbox, sessVars, tabVars>>

CompleteLogin(t) ==
    /\ SpendLink(t)
    /\ req' = [req EXCEPT ![t].at = "issue", ![t].user = users'[linkOf[req[t].link]]]

\* The commit went through, but its acknowledgement was lost.
CompleteLostReply(t) ==
    /\ Fault("lostreply")
    /\ SpendLink(t)
    /\ Reply(t, "keep", "clear")

CompleteFails(t) ==
    /\ At(t, "complete", "handle")
    /\ nonceMatches(t)
    /\ req[t].link \notin live \/ Fault("db")
    /\ Refuse(t, "keep", "clear")

FreshSession ==
    Session \ (rows \cup {jar.session}
               \cup UNION {{req[t].cookie, req[t].fresh, req[t].setSession} : t \in Tab})

\* Defect: without the foreign key.
CreateSessionUnchecked(t, s) ==
    /\ At(t, "complete", "issue")
    /\ rows' = rows \cup {s}
    /\ suser' = [suser EXCEPT ![s] = req[t].user]
    /\ expires' = [expires EXCEPT ![s] = clock + TTL]
    /\ revoked' = [revoked EXCEPT ![s] = None]
    /\ UNCHANGED <<clock, userVars, linkVars, tabVars>>

\* The foreign key refuses a session for an account that is gone.
CreateSession(t, s) ==
    /\ At(t, "complete", "issue")
    /\ req[t].user \in Ids
    /\ rows' = rows \cup {s}
    /\ suser' = [suser EXCEPT ![s] = req[t].user]
    /\ expires' = [expires EXCEPT ![s] = clock + TTL]
    /\ revoked' = [revoked EXCEPT ![s] = None]
    /\ UNCHANGED <<clock, userVars, linkVars, tabVars>>

Issue(t) ==
    \E s \in FreshSession :
        /\ CreateSession(t, s)
        /\ req' = [req EXCEPT ![t].at = "revoke", ![t].fresh = s]

IssueLostReply(t) ==
    /\ Fault("lostreply")
    /\ \E s \in FreshSession : CreateSession(t, s)
    /\ Reply(t, "keep", "clear")

Revoke(t) ==
    /\ revoked' = [s \in Session |->
          IF s = req[t].cookie /\ s \in rows /\ revoked[s] = None
          THEN clock ELSE revoked[s]]
    /\ UNCHANGED <<clock, userVars, linkVars, rows, suser, expires, tabVars>>

\* Defect: the old session was revoked before the new one was issued.
IssueFailsRevoked(t) ==
    /\ At(t, "complete", "issue")
    /\ req[t].user \notin Ids \/ Fault("db")
    /\ Revoke(t)
    /\ Reply(t, "keep", "clear")

IssueFails(t) ==
    /\ At(t, "complete", "issue")
    /\ req[t].user \notin Ids \/ Fault("db")
    /\ Refuse(t, "keep", "clear")

RevokeOld(t) ==
    /\ At(t, "complete", "revoke")
    /\ Revoke(t)
    /\ Reply(t, req[t].fresh, "clear")

\* Logged, and skipped.
RevokeOldFails(t) ==
    /\ At(t, "complete", "revoke")
    /\ req[t].cookie # None /\ Fault("db")
    /\ Refuse(t, req[t].fresh, "clear")

(* handleLogout                                                            *)

handleLogout(t) ==
    /\ At(t, "logout", "handle")
    /\ Revoke(t)
    /\ Reply(t, "clear", "keep")

LogoutFails(t) ==
    /\ At(t, "logout", "handle")
    /\ req[t].cookie # None /\ Fault("db")
    /\ Refuse(t, "clear", "keep")

(* handleAccountDelete                                                     *)

NotSignedIn(t) ==
    /\ At(t, "delete", "handle")
    /\ req[t].user = None
    /\ Refuse(t, "keep", "keep")

\* The account, its links and, by the cascade, its sessions.
DeleteUser(t) ==
    /\ At(t, "delete", "handle")
    /\ \E e \in Email :
          /\ req[t].user # None /\ users[e] = req[t].user
          /\ users' = [users EXCEPT ![e] = None]
          /\ live' = live \ LinksOf(e)
    /\ rows' = {s \in rows : suser[s] # req[t].user}
    /\ UNCHANGED <<clock, nextId, linkOf, inbox, suser, expires, revoked, tabVars>>

DeleteAccount(t) == DeleteUser(t) /\ Reply(t, "clear", "keep")

\* The deletion stands, and its owner is told that it failed.
DeleteLostReply(t) ==
    Fault("lostreply") /\ DeleteUser(t) /\ Reply(t, "keep", "keep")

AlreadyGone(t) ==
    /\ At(t, "delete", "handle")
    /\ req[t].user # None /\ req[t].user \notin Ids
    /\ Refuse(t, "clear", "keep")

DeleteFails(t) ==
    /\ At(t, "delete", "handle")
    /\ req[t].user # None /\ Fault("db")
    /\ Refuse(t, "keep", "keep")
-------------------------------------------------------------------------------
(* The answer arrives.                                                     *)

Stored(old, set) == CASE set = "keep" -> old [] set = "clear" -> None [] OTHER -> set

Receive(t) ==
    /\ req[t].at = "reply"
    /\ jar' = [session |-> Stored(jar.session, req[t].setSession),
               nonce |-> Stored(jar.nonce, req[t].setNonce)]
    /\ page' = [page EXCEPT ![t] =
          IF req[t].setNonce \in Nonce
          THEN [link |-> req[t].link, nonce |-> req[t].setNonce] ELSE NoPage]
    /\ req' = [req EXCEPT ![t] = NoRequest]
    /\ UNCHANGED <<clock, userVars, linkVars, sessVars>>

(* Time.                                                                   *)

PurgeSessions ==
    /\ rows' = {s \in rows :
          (IF revoked[s] # None /\ revoked[s] < expires[s]
           THEN revoked[s] ELSE expires[s]) >= clock - Retention}
    /\ rows' # rows
    /\ UNCHANGED <<clock, userVars, linkVars, suser, expires, revoked, tabVars, req>>

\* A login token expires.
ExpireLink(l) ==
    /\ l \in live
    /\ live' = live \ {l}
    /\ UNCHANGED <<clock, userVars, linkOf, inbox, sessVars, tabVars, req>>

\* The nonce cookie reaches its Max-Age.
ExpireNonce ==
    /\ jar.nonce # None
    /\ jar' = [jar EXCEPT !.nonce = None]
    /\ UNCHANGED <<clock, userVars, linkVars, sessVars, page, req>>

Tick ==
    /\ clock < MaxClock
    /\ clock' = clock + 1
    /\ UNCHANGED <<userVars, linkVars, sessVars, tabVars, req>>

Browse(t) ==
    \/ \E e \in Email : SendRequest(t, e)
    \/ \E l \in Link : SendOpen(t, l)
    \/ SendComplete(t) \/ SendLogout(t) \/ SendDelete(t) \/ Receive(t)

Serve(t) ==
    \/ Lookup(t) \/ GetByID(t) \/ CurrentUserFails(t)
    \/ RequestLogin(t) \/ LoginBudgetExceeded(t) \/ RequestFails(t)
    \/ SendMail(t) \/ MailFails(t)
    \/ handleLoginConfirm(t) \/ NonceMismatch(t)
    \/ CompleteLogin(t) \/ CompleteLostReply(t) \/ CompleteFails(t)
    \/ Issue(t) \/ IssueLostReply(t) \/ IssueFails(t)
    \/ RevokeOld(t) \/ RevokeOldFails(t)
    \/ handleLogout(t) \/ LogoutFails(t)
    \/ NotSignedIn(t) \/ DeleteAccount(t) \/ DeleteLostReply(t) \/ AlreadyGone(t) \/ DeleteFails(t)

Next ==
    \/ \E t \in Tab : Browse(t) \/ Serve(t)
    \/ PurgeSessions \/ ExpireNonce \/ Tick
    \/ \E l \in Link : ExpireLink(l)

Spec == Init /\ [][Next]_vars
-------------------------------------------------------------------------------
(* Properties.                                                             *)

\* handleLoginComplete, "a failed issue must leave the old session working":
\* however the tabs interleave and whatever fails, the browser is never left
\* with a session that was revoked or purged under it.  Its session works until
\* it expires or its account is deleted, unless a request that carries it has
\* yet to be answered.
NeverStranded ==
    LET s == jar.session IN
    s # None =>
        \/ s \in rows /\ revoked[s] = None
        \/ clock >= expires[s]
        \/ suser[s] \notin Ids
        \/ \E t \in Tab : req[t].cookie = s

\* handleAccountDelete: every session belongs to an account that exists, so no
\* sign-in that races the deletion leaves a session behind.
NoGhostSession == \A s \in rows : suser[s] \in Ids

\* The sessions table is in order through every race of sign-in, sign-out, purge and
\* deletion.
SessionsOwned == TypeOK /\ NoGhostSession
===============================================================================
