----------------------------- MODULE SignInProofs -----------------------------
(***************************************************************************)
(* Sign-in through one browser with any number of tabs, for all constants: *)
(* the sessions table is in order and the browser is never stranded.  The  *)
(* argument: a session that was just issued is known to nobody but the     *)
(* request that issued it, so it works when the answer arrives; and only a *)
(* request that carries the session of the browser revokes it, which then  *)
(* owes the browser an answer that replaces it.                            *)
(***************************************************************************)
EXTENDS SignIn, TLAPS

\* What the fields of a request range over.
OpName == {"none", "request", "open", "complete", "logout", "delete"}
AtName == {"idle", "lookup", "load", "handle", "mail", "issue", "revoke", "reply"}
Opt(S) == S \cup {None}
Set(S) == S \cup {"keep", "clear"}

Requests ==
    [op : OpName, at : AtName, email : Opt(Email), link : Opt(Link), form : Opt(Nonce),
     cookie : Opt(Session), nonce : Opt(Nonce), user : Opt(Id), fresh : Opt(Session),
     setSession : Set(Session), setNonce : Set(Nonce)]

\* The tables: their types, ids given out in order and once, links that can be
\* spent with an address, and no session of an account that is gone.
Accountable ==
    /\ clock \in 0..MaxClock
    /\ users \in [Email -> Id \cup {None}]
    /\ nextId \in 1..(MaxId + 1)
    /\ \A e \in Email : users[e] # None => users[e] < nextId
    /\ \A e, f \in Email : users[e] = users[f] /\ users[e] # None => e = f

LinksOK ==
    /\ linkOf \in [Link -> Email \cup {None}]
    /\ live \subseteq Link /\ inbox \subseteq Link
    /\ \A l \in live : linkOf[l] \in Email

SessionsOK ==
    /\ rows \subseteq Session
    /\ suser \in [Session -> Id \cup {None}]
    /\ expires \in [Session -> Nat]
    /\ revoked \in [Session -> Nat \cup {None}]
    /\ \A s \in Session : suser[s] # None => suser[s] < nextId
    /\ NoGhostSession

\* The browser and its requests: a request for a link names an address, and a new
\* session is set with the answer of the request that issued it.
Asked(t) ==
    /\ req[t].op = "request" => req[t].email \in Email
    /\ At(t, "request", "mail") => req[t].link \in Link

Issued(t) ==
    /\ req[t].op = "none" => req[t].at = "idle"
    /\ req[t].fresh # None => req[t].at \in {"revoke", "reply"}
    /\ req[t].at = "revoke" => req[t].fresh # None
    /\ req[t].at = "reply" /\ req[t].fresh # None => req[t].setSession = req[t].fresh
    /\ req[t].setSession \in Session => req[t].setSession = req[t].fresh

TabsOK ==
    /\ jar \in [session : Session \cup {None}, nonce : Nonce \cup {None}]
    /\ page \in [Tab -> [link : Link \cup {None}, nonce : Nonce \cup {None}]]
    /\ req \in [Tab -> Requests]
    /\ \A t \in Tab : Asked(t) /\ Issued(t)

\* A session works, or ended as it should.
Good(s) ==
    \/ s \in rows /\ revoked[s] = None
    \/ clock >= expires[s]
    \/ suser[s] \notin Ids

\* Nobody else knows a new session, and it works.
Unknown ==
    \A t \in Tab : req[t].fresh # None =>
        /\ req[t].fresh # jar.session
        /\ \A u \in Tab :
              req[u].cookie # req[t].fresh /\ (u # t => req[u].fresh # req[t].fresh)
        /\ Good(req[t].fresh)

\* The browser's session works, or is about to be replaced.
Replaced ==
    jar.session # None =>
        \/ Good(jar.session)
        \/ \E t \in Tab :
              /\ req[t].cookie = jar.session
              /\ req[t].at = "reply" /\ req[t].setSession # "keep"

SignInInv == Accountable /\ LinksOK /\ SessionsOK /\ TabsOK /\ Unknown /\ Replaced

LEMMA TypesAgree == Accountable /\ LinksOK /\ SessionsOK /\ TabsOK => SessionsOwned
  BY DEF Accountable, LinksOK, SessionsOK, TabsOK, Requests, OpName, AtName, Opt, Set,
         SessionsOwned, TypeOK
-------------------------------------------------------------------------------
(* Requests change in one tab at a time.                                   *)

Moves(t) ==
    /\ req' \in [Tab -> Requests]
    /\ \A u \in Tab \ {t} : req'[u] = req[u]

LEMMA OneTab ==
    ASSUME TabsOK, NEW t \in Tab, NEW r \in Requests, req' = [req EXCEPT ![t] = r]
    PROVE  Moves(t) /\ req'[t] = r
  BY DEF TabsOK, Moves

\* What an answer leaves of its request.
LEMMA Replies ==
    ASSUME TabsOK, NEW t \in Tab, NEW x \in Session \cup {"keep", "clear"},
           NEW y \in Nonce \cup {"keep", "clear"}, Reply(t, x, y)
    PROVE  /\ Moves(t)
           /\ req'[t].op = req[t].op /\ req'[t].email = req[t].email
           /\ req'[t].cookie = req[t].cookie /\ req'[t].fresh = req[t].fresh
           /\ req'[t].at = "reply" /\ req'[t].setSession = x
<1> DEFINE r == [req[t] EXCEPT !.at = "reply", !.setSession = x, !.setNonce = y]
<1>1. req[t] \in Requests
  BY DEF TabsOK
<1>2. r \in Requests
  <2>1. "reply" \in AtName /\ x \in Set(Session) /\ y \in Set(Nonce)
    BY DEF AtName, Opt, Set
  <2> QED
    BY <1>1, <2>1 DEF Requests
<1>3. /\ r.op = req[t].op /\ r.email = req[t].email
      /\ r.cookie = req[t].cookie /\ r.fresh = req[t].fresh
      /\ r.at = "reply" /\ r.setSession = x
  BY <1>1 DEF Requests
<1>4. req' = [req EXCEPT ![t] = r]
  BY DEF Reply, TabsOK
<1> HIDE DEF r
<1> QED
  BY <1>2, <1>3, <1>4, OneTab

\* A request goes on to the next database call.
Onward(t, at) ==
    /\ Moves(t)
    /\ req'[t].op = req[t].op /\ req'[t].email = req[t].email
    /\ req'[t].cookie = req[t].cookie
    /\ req'[t].at = at /\ req'[t].setSession = req[t].setSession

LEMMA Looks ==
    ASSUME TabsOK, SessionsOK, NEW t \in Tab, Lookup(t) \/ GetByID(t)
    PROVE  /\ Onward(t, "load") \/ Onward(t, "handle")
           /\ req'[t].fresh = req[t].fresh
<1>1. req[t] \in Requests
  BY DEF TabsOK
<1>2. ASSUME NEW id \in Id \cup {None}, NEW at \in {"load", "handle"},
             req' = [req EXCEPT ![t].at = at, ![t].user = id]
      PROVE  Onward(t, at) /\ req'[t].fresh = req[t].fresh
  <2> DEFINE r == [req[t] EXCEPT !.at = at, !.user = id]
  <2>1. r \in Requests
    <3>1. at \in AtName /\ id \in Opt(Id)
      BY DEF AtName, Opt, Set
    <3> QED
      BY <1>1, <3>1 DEF Requests
  <2>2. /\ r.op = req[t].op /\ r.email = req[t].email /\ r.cookie = req[t].cookie
        /\ r.at = at /\ r.setSession = req[t].setSession /\ r.fresh = req[t].fresh
    BY <1>1 DEF Requests
  <2>3. req' = [req EXCEPT ![t] = r]
    BY <1>2 DEF TabsOK
  <2> HIDE DEF r
  <2> QED
    BY <2>1, <2>2, <2>3, OneTab DEF Onward
<1>3. ASSUME req' = [req EXCEPT ![t].at = "handle"]
      PROVE  Onward(t, "handle") /\ req'[t].fresh = req[t].fresh
  <2> DEFINE r == [req[t] EXCEPT !.at = "handle"]
  <2>1. r \in Requests
    <3>1. "handle" \in AtName
      BY DEF AtName, Opt, Set
    <3> QED
      BY <1>1, <3>1 DEF Requests
  <2>2. /\ r.op = req[t].op /\ r.email = req[t].email /\ r.cookie = req[t].cookie
        /\ r.at = "handle" /\ r.setSession = req[t].setSession /\ r.fresh = req[t].fresh
    BY <1>1 DEF Requests
  <2>3. req' = [req EXCEPT ![t] = r]
    BY <1>3 DEF TabsOK
  <2> HIDE DEF r
  <2> QED
    BY <2>1, <2>2, <2>3, OneTab DEF Onward
<1>4. CASE Lookup(t)
  <2>1. CASE req[t].cookie # None /\ Live(req[t].cookie)
    <3>1. suser[req[t].cookie] \in Id \cup {None}
      BY <1>1, <2>1 DEF Requests, Opt, SessionsOK
    <3>2. req' = [req EXCEPT ![t].at = "load", ![t].user = suser[req[t].cookie]]
      BY <1>4, <2>1 DEF Lookup
    <3> QED
      BY <1>2, <3>1, <3>2
  <2>2. CASE ~(req[t].cookie # None /\ Live(req[t].cookie))
    BY <1>3, <1>4, <2>2 DEF Lookup
  <2> QED
    BY <2>1, <2>2
<1>5. CASE GetByID(t)
  <2> DEFINE id == IF req[t].user \in Ids /\ req[t].op = "delete" THEN req[t].user ELSE None
  <2>1. id \in Id \cup {None}
    BY <1>1 DEF Requests, Opt
  <2>2. req' = [req EXCEPT ![t].at = "handle", ![t].user = id]
    BY <1>5, <1>1 DEF GetByID, TabsOK, Requests
  <2> HIDE DEF id
  <2> QED
    BY <1>2, <2>1, <2>2
<1> QED
  BY <1>4, <1>5

LEMMA Mails ==
    ASSUME TabsOK, NEW t \in Tab, NEW l \in Link,
           req' = [req EXCEPT ![t].at = "mail", ![t].link = l]
    PROVE  Onward(t, "mail") /\ req'[t].fresh = req[t].fresh /\ req'[t].link = l
<1> DEFINE r == [req[t] EXCEPT !.at = "mail", !.link = l]
<1>1. req[t] \in Requests
  BY DEF TabsOK
<1>2. r \in Requests
  <2>1. "mail" \in AtName /\ l \in Opt(Link)
    BY DEF AtName, Opt, Set
  <2> QED
    BY <1>1, <2>1 DEF Requests
<1>3. /\ r.op = req[t].op /\ r.email = req[t].email /\ r.cookie = req[t].cookie
      /\ r.at = "mail" /\ r.setSession = req[t].setSession /\ r.fresh = req[t].fresh
      /\ r.link = l
  BY <1>1 DEF Requests
<1>4. req' = [req EXCEPT ![t] = r]
  BY DEF TabsOK
<1> HIDE DEF r
<1> QED
  BY <1>2, <1>3, <1>4, OneTab DEF Onward

LEMMA Spends ==
    ASSUME TabsOK, NEW t \in Tab, NEW id \in Id \cup {None},
           req' = [req EXCEPT ![t].at = "issue", ![t].user = id]
    PROVE  Onward(t, "issue") /\ req'[t].fresh = req[t].fresh
<1> DEFINE r == [req[t] EXCEPT !.at = "issue", !.user = id]
<1>1. req[t] \in Requests
  BY DEF TabsOK
<1>2. r \in Requests
  <2>1. "issue" \in AtName /\ id \in Opt(Id)
    BY DEF AtName, Opt, Set
  <2> QED
    BY <1>1, <2>1 DEF Requests
<1>3. /\ r.op = req[t].op /\ r.email = req[t].email /\ r.cookie = req[t].cookie
      /\ r.at = "issue" /\ r.setSession = req[t].setSession /\ r.fresh = req[t].fresh
  BY <1>1 DEF Requests
<1>4. req' = [req EXCEPT ![t] = r]
  BY DEF TabsOK
<1> HIDE DEF r
<1> QED
  BY <1>2, <1>3, <1>4, OneTab DEF Onward

LEMMA Issues ==
    ASSUME TabsOK, NEW t \in Tab, NEW s \in Session,
           req' = [req EXCEPT ![t].at = "revoke", ![t].fresh = s]
    PROVE  Onward(t, "revoke") /\ req'[t].fresh = s
<1> DEFINE r == [req[t] EXCEPT !.at = "revoke", !.fresh = s]
<1>1. req[t] \in Requests
  BY DEF TabsOK
<1>2. r \in Requests
  <2>1. "revoke" \in AtName /\ s \in Opt(Session)
    BY DEF AtName, Opt, Set
  <2> QED
    BY <1>1, <2>1 DEF Requests
<1>3. /\ r.op = req[t].op /\ r.email = req[t].email /\ r.cookie = req[t].cookie
      /\ r.at = "revoke" /\ r.setSession = req[t].setSession /\ r.fresh = s
  BY <1>1 DEF Requests
<1>4. req' = [req EXCEPT ![t] = r]
  BY DEF TabsOK
<1> HIDE DEF r
<1> QED
  BY <1>2, <1>3, <1>4, OneTab DEF Onward

\* The browser sends a request with the cookies of the jar.
LEMMA Sends ==
    ASSUME TabsOK, NEW t \in Tab,
           NEW op \in {"request", "open", "complete", "logout", "delete"},
           NEW e \in Email \cup {None}, NEW l \in Link \cup {None},
           NEW form \in Nonce \cup {None}, Send(t, op, e, l, form)
    PROVE  /\ Moves(t) /\ req[t].op = "none"
           /\ req'[t].op = op /\ req'[t].at = "lookup" /\ req'[t].email = e
           /\ req'[t].cookie = jar.session /\ req'[t].fresh = None
           /\ req'[t].setSession = "keep"
           /\ UNCHANGED <<clock, userVars, linkVars, sessVars, tabVars>>
<1> DEFINE r == [NoRequest EXCEPT !.op = op, !.at = "lookup", !.email = e, !.link = l,
                            !.form = form, !.cookie = jar.session, !.nonce = jar.nonce]
<1>1. NoRequest \in Requests /\ NoRequest.fresh = None /\ NoRequest.setSession = "keep"
  <2>1. /\ "none" \in OpName /\ "idle" \in AtName /\ None \in Opt(Email) /\ None \in Opt(Link)
        /\ None \in Opt(Nonce) /\ None \in Opt(Session) /\ None \in Opt(Id)
        /\ "keep" \in Set(Session) /\ "keep" \in Set(Nonce)
    BY DEF OpName, AtName, Opt, Set
  <2> QED
    BY <2>1 DEF NoRequest, Requests
<1>2. jar.session \in Session \cup {None} /\ jar.nonce \in Nonce \cup {None}
  BY DEF TabsOK
<1>3. req' = [req EXCEPT ![t] = r]
  BY DEF Send
<1>4. r \in Requests
  <2>1. /\ op \in OpName /\ "lookup" \in AtName /\ e \in Opt(Email) /\ l \in Opt(Link)
        /\ form \in Opt(Nonce) /\ jar.session \in Opt(Session) /\ jar.nonce \in Opt(Nonce)
    BY <1>2 DEF OpName, AtName, Opt
  <2> QED
    BY <1>1, <2>1 DEF Requests
<1>5. /\ r.op = op /\ r.at = "lookup" /\ r.email = e /\ r.cookie = jar.session
      /\ r.fresh = None /\ r.setSession = "keep"
  BY <1>1 DEF Requests
<1> HIDE DEF r
<1> QED
  BY <1>3, <1>4, <1>5, OneTab DEF Send
-------------------------------------------------------------------------------
(* The tables.                                                             *)

\* Id and expiry arithmetic the steps need.
LEMMA Numbers == MaxId \in Nat /\ MaxClock \in Nat /\ TTL \in Nat /\ Retention \in Nat
  BY TimeAssumption

\* ConsumeLogin: a link is spent, and the account of its address found or created
\* with a new id.
LEMMA SpendStep ==
    ASSUME Accountable, LinksOK, SessionsOK, TabsOK, NEW t \in Tab, SpendLink(t)
    PROVE  /\ Accountable' /\ LinksOK' /\ SessionsOK'
           /\ users'[linkOf[req[t].link]] \in Id \cup {None}
           /\ \A s \in Session : suser[s] \notin Ids => suser[s] \notin Ids'
<1> DEFINE e == linkOf[req[t].link]
<1>1. e \in Email /\ req[t].link \in Link
  BY DEF SpendLink, LinksOK
<1>2. LinksOK'
  BY DEF SpendLink, LinksOK
<1>3. CASE users[e] # None /\ UNCHANGED userVars
  BY <1>1, <1>2, <1>3 DEF SpendLink, userVars, sessVars, Accountable, SessionsOK, NoGhostSession, Ids
<1>4. CASE /\ users[e] = None /\ nextId <= MaxId
           /\ users' = [users EXCEPT ![e] = nextId] /\ nextId' = nextId + 1
  <2>1. UNCHANGED <<clock, rows, suser, expires, revoked>>
    BY DEF SpendLink, sessVars
  <2>2. nextId \in Id /\ nextId # None
    BY <1>4, Numbers, NoneAssumption DEF Accountable, Id
  <2>3. /\ users'[e] = nextId /\ users' \in [Email -> Id \cup {None}]
        /\ \A f \in Email \ {e} : users'[f] = users[f]
    BY <1>1, <1>4, <2>2 DEF Accountable
  <2>4. \A f \in Email : users[f] # None => users[f] \in Nat /\ users[f] < nextId
    BY DEF Accountable, Id
  <2>5. Accountable'
    BY <1>4, <2>1, <2>2, <2>3, <2>4, Numbers DEF Accountable, Id
  <2>6. Ids \subseteq Ids' /\ Ids' \subseteq Ids \cup {nextId}
    BY <1>1, <1>4, <2>3 DEF Ids
  <2>7. \A s \in Session : suser[s] # nextId
    BY <2>2 DEF SessionsOK, Accountable, Id
  <2>8. SessionsOK'
    BY <1>4, <2>1, <2>2, <2>6 DEF SessionsOK, NoGhostSession, Accountable, Id
  <2> QED
    BY <1>1, <1>2, <2>3, <2>5, <2>6, <2>7, <2>8
<1> QED
  BY <1>3, <1>4 DEF SpendLink

\* The foreign key: a session is issued to an account that exists.
LEMMA CreateStep ==
    ASSUME Accountable, LinksOK, SessionsOK, TabsOK, NEW t \in Tab, NEW s \in Session,
           CreateSession(t, s)
    PROVE  /\ Accountable' /\ LinksOK' /\ SessionsOK' /\ Ids' = Ids /\ UNCHANGED clock
           /\ s \in rows' /\ revoked'[s] = None
           /\ \A x \in Session \ {s} :
                 /\ x \in rows' <=> x \in rows
                 /\ revoked'[x] = revoked[x] /\ expires'[x] = expires[x] /\ suser'[x] = suser[x]
<1>1. UNCHANGED <<clock, users, nextId, linkOf, live, inbox>>
  BY DEF CreateSession, userVars, linkVars
<1>2. Ids' = Ids
  BY <1>1 DEF Ids
<1>3. PICK e \in Email : users[e] = req[t].user /\ users[e] # None
  BY DEF CreateSession, Ids
<1>4. req[t].user \in Id /\ req[t].user < nextId
  BY <1>3 DEF Accountable
<1>5. clock + TTL \in Nat
  BY Numbers DEF Accountable
<1>6. SessionsOK'
  BY <1>1, <1>2, <1>4, <1>5 DEF CreateSession, SessionsOK, NoGhostSession
<1> QED
  BY <1>1, <1>2, <1>6 DEF CreateSession, Accountable, LinksOK, SessionsOK

\* Revoking leaves every other session alone.
LEMMA RevokeStep ==
    ASSUME Accountable, LinksOK, SessionsOK, NEW t \in Tab, Revoke(t)
    PROVE  /\ Accountable' /\ LinksOK' /\ SessionsOK' /\ Ids' = Ids
           /\ UNCHANGED <<clock, rows, suser, expires>>
           /\ \A s \in Session : s # req[t].cookie => revoked'[s] = revoked[s]
<1>1. UNCHANGED <<clock, users, nextId, linkOf, live, inbox, rows, suser, expires>>
  BY DEF Revoke, userVars, linkVars
<1>2. clock \in Nat
  BY Numbers DEF Accountable
<1>3. revoked' \in [Session -> Nat \cup {None}]
  BY <1>2 DEF Revoke, SessionsOK
<1> QED
  BY <1>1, <1>3 DEF Revoke, Accountable, LinksOK, SessionsOK, NoGhostSession, Ids

\* DeleteUser: the account, its links and its sessions.
LEMMA DeleteStep ==
    ASSUME Accountable, LinksOK, SessionsOK, NEW t \in Tab, DeleteUser(t)
    PROVE  /\ Accountable' /\ LinksOK' /\ SessionsOK'
           /\ UNCHANGED <<clock, suser, expires, revoked>>
           /\ \A s \in Session : suser[s] \notin Ids => suser[s] \notin Ids'
           /\ \A s \in rows \ rows' : suser[s] \notin Ids'
<1>1. UNCHANGED <<clock, nextId, linkOf, inbox, suser, expires, revoked>>
  BY DEF DeleteUser
<1>2. PICK e \in Email : /\ req[t].user # None /\ users[e] = req[t].user
                         /\ users' = [users EXCEPT ![e] = None]
                         /\ live' = live \ LinksOf(e)
  BY DEF DeleteUser
<1>3. /\ users' \in [Email -> Id \cup {None}] /\ users'[e] = None
      /\ \A f \in Email \ {e} : users'[f] = users[f] /\ users[f] # req[t].user
  BY <1>2 DEF Accountable
<1>4. Ids' = Ids \ {req[t].user}
  BY <1>2, <1>3 DEF Ids
<1>5. Accountable'
  BY <1>1, <1>3 DEF Accountable
<1>6. LinksOK'
  BY <1>1, <1>2 DEF LinksOK
<1>7. rows' = {s \in rows : suser[s] # req[t].user}
  BY DEF DeleteUser
<1>8. SessionsOK'
  BY <1>1, <1>4, <1>7 DEF SessionsOK, NoGhostSession
<1> QED
  BY <1>1, <1>4, <1>5, <1>6, <1>7, <1>8

Tables == Accountable /\ LinksOK /\ SessionsOK

\* A link is written for an address, or mailed, or expires.
LEMMA LinkStep ==
    ASSUME Tables, TabsOK, NEW t \in Tab, NEW l \in Link,
           RequestLogin(t) \/ SendMail(t) \/ ExpireLink(l)
    PROVE  Tables' /\ UNCHANGED <<clock, userVars, sessVars>>
<1>1. UNCHANGED <<clock, userVars, sessVars>>
  BY DEF RequestLogin, SendMail, ExpireLink
<1>2. Accountable' /\ SessionsOK'
  BY <1>1 DEF Tables, Accountable, SessionsOK, NoGhostSession, Ids, userVars, sessVars
<1>3. LinksOK'
  <2>1. CASE RequestLogin(t)
    <3>1. req[t].email \in Email
      BY <2>1 DEF RequestLogin, At, TabsOK, Asked
    <3> QED
      BY <2>1, <3>1 DEF RequestLogin, LinksOf, Tables, LinksOK
  <2>2. CASE SendMail(t)
    <3>1. req[t].link \in Link
      BY <2>2 DEF SendMail, TabsOK, Asked
    <3> QED
      BY <2>2, <3>1 DEF SendMail, Tables, LinksOK
  <2>3. CASE ExpireLink(l)
    BY <2>3 DEF ExpireLink, Tables, LinksOK
  <2> QED
    BY <2>1, <2>2, <2>3
<1> QED
  BY <1>1, <1>2, <1>3 DEF Tables

LEMMA SameTables ==
    ASSUME Tables, UNCHANGED <<clock, userVars, linkVars, sessVars>>
    PROVE  Tables' /\ \A s \in Session : Good(s)' <=> Good(s)
  BY DEF Tables, Accountable, LinksOK, SessionsOK, NoGhostSession, Ids, Good,
         userVars, linkVars, sessVars

LEMMA SameSessions ==
    ASSUME UNCHANGED <<clock, userVars, sessVars>>
    PROVE  \A s \in Session : Good(s)' <=> Good(s)
  BY DEF Ids, Good, userVars, sessVars
-------------------------------------------------------------------------------
(* The browser.                                                            *)

\* The sessions the argument is about: the browser's, and those just issued.
Tracked(s) == s = jar.session \/ \E t \in Tab : req[t].fresh = s

\* A step of tab t leaves them good, unless its answer replaces the session.
Kept(t) ==
    \A s \in Session : Tracked(s) /\ Good(s) =>
        \/ Good(s)'
        \/ /\ s = jar.session /\ s = req[t].cookie
           /\ req'[t].at = "reply" /\ req'[t].setSession # "keep"

LEMMA NewSession ==
    ASSUME NEW s \in FreshSession
    PROVE  s \in Session /\ s # jar.session
           /\ \A t \in Tab : s # req[t].cookie /\ s # req[t].fresh
  BY DEF FreshSession

\* A step of one tab with the jar as it is.
LEMMA BrowserStep ==
    ASSUME SignInInv, NEW t \in Tab, Moves(t), req'[t].cookie = req[t].cookie,
           jar'.session = jar.session, req[t].at # "reply", Kept(t),
           \/ req'[t].fresh = req[t].fresh
           \/ /\ req'[t].fresh \in FreshSession
              /\ \A s \in Session : s = req'[t].fresh => Good(s)'
    PROVE  Unknown' /\ Replaced'
<1>1. \A u \in Tab : req'[u].cookie = req[u].cookie
  BY DEF Moves
<1>2. \A u \in Tab : req[u].fresh \in Session \cup {None} /\ req'[u].fresh \in Session \cup {None}
  BY DEF SignInInv, TabsOK, Moves, Requests, Opt
<1>3. jar.session \in Session \cup {None}
  BY DEF SignInInv, TabsOK
<1>4. ASSUME NEW u \in Tab, req'[u].fresh # None
      PROVE  /\ req'[u].fresh # jar.session
             /\ \A w \in Tab : /\ req[w].cookie # req'[u].fresh
                               /\ w # u => req'[w].fresh # req'[u].fresh
             /\ \A s \in Session : s = req'[u].fresh => Good(s)'
  <2>1. CASE req'[u].fresh = req[u].fresh
    <3>1. /\ req[u].fresh # jar.session
          /\ \A w \in Tab : /\ req[w].cookie # req[u].fresh
                            /\ w # u => req[w].fresh # req[u].fresh
          /\ Good(req[u].fresh)
      BY <1>4, <2>1 DEF SignInInv, Unknown
    <3>2. \A s \in Session : s = req[u].fresh => Good(s)'
      BY <2>1, <3>1 DEF Kept, Tracked
    <3>3. \A w \in Tab \ {u} : req'[w].fresh # req[u].fresh
      BY <3>1, NewSession DEF Moves
    <3> QED
      BY <2>1, <3>1, <3>2, <3>3
  <2>2. CASE req'[u].fresh # req[u].fresh
    <3>1. u = t /\ req'[t].fresh \in FreshSession
      BY <2>2 DEF Moves
    <3> QED
      BY <3>1, NewSession DEF Moves
  <2> QED
    BY <2>1, <2>2
<1>5. Unknown'
  BY <1>1, <1>2, <1>4 DEF Unknown
<1>6. Replaced'
  <2> SUFFICES ASSUME jar'.session # None, NEW s \in Session, s = jar.session, s = jar'.session
               PROVE  \/ Good(s)'
                      \/ \E u \in Tab : /\ req'[u].cookie = s
                                        /\ req'[u].at = "reply" /\ req'[u].setSession # "keep"
    BY <1>3 DEF Replaced
  <2>1. CASE Good(s)
    BY <1>1, <2>1 DEF Kept, Tracked
  <2>2. CASE ~Good(s)
    <3>1. PICK u \in Tab : /\ req[u].cookie = s
                           /\ req[u].at = "reply" /\ req[u].setSession # "keep"
      BY <2>2 DEF SignInInv, Replaced
    <3> QED
      BY <3>1 DEF Moves
  <2> QED
    BY <2>1, <2>2
<1> QED
  BY <1>5, <1>6

\* The server answers, whatever it did to the tables.
LEMMA AnswerStep ==
    ASSUME SignInInv, Tables', NEW t \in Tab, NEW x \in Set(Session), NEW y \in Set(Nonce),
           Reply(t, x, y), UNCHANGED tabVars, Kept(t),
           req[t].at \in {"lookup", "load", "handle", "mail", "issue", "revoke"},
           IF req[t].at = "revoke" THEN x = req[t].fresh ELSE x \in {"keep", "clear"}
    PROVE  SignInInv'
<1> USE DEF SignInInv
<1>1. /\ Moves(t)
      /\ req'[t].op = req[t].op /\ req'[t].email = req[t].email
      /\ req'[t].cookie = req[t].cookie /\ req'[t].fresh = req[t].fresh
      /\ req'[t].at = "reply" /\ req'[t].setSession = x
  BY Replies DEF Set
<1>2. Asked(t)' /\ Issued(t)'
  BY <1>1, NoneAssumption DEF TabsOK, Asked, Issued, At
<1>3. TabsOK'
  BY <1>1, <1>2 DEF TabsOK, Moves, tabVars, Asked, Issued, At
<1>4. Unknown' /\ Replaced'
  BY <1>1, BrowserStep DEF tabVars
<1> QED
  BY <1>3, <1>4 DEF Tables

\* An answer that changes nothing.
LEMMA RefuseStep ==
    ASSUME SignInInv, NEW t \in Tab, NEW x \in Set(Session), NEW y \in Set(Nonce),
           Refuse(t, x, y),
           req[t].at \in {"lookup", "load", "handle", "mail", "issue", "revoke"},
           IF req[t].at = "revoke" THEN x = req[t].fresh ELSE x \in {"keep", "clear"}
    PROVE  SignInInv'
<1>1. Tables' /\ Kept(t) /\ Reply(t, x, y) /\ UNCHANGED tabVars
  BY SameTables DEF Refuse, SignInInv, Tables, Kept
<1> QED
  BY <1>1, AnswerStep

\* The server goes on.
LEMMA OnwardStep ==
    ASSUME SignInInv, Tables', NEW t \in Tab, NEW at \in {"load", "handle", "mail", "issue", "revoke"},
           Onward(t, at), UNCHANGED tabVars, Kept(t),
           req[t].at \in {"lookup", "load", "handle", "issue"},
           at = "mail" => req'[t].link \in Link,
           \/ at # "revoke" /\ req'[t].fresh = req[t].fresh
           \/ /\ at = "revoke" /\ req'[t].fresh \in FreshSession
              /\ \A s \in Session : s = req'[t].fresh => Good(s)'
    PROVE  SignInInv'
<1> USE DEF SignInInv
<1>1. req[t].fresh = None /\ req[t].setSession \notin Session
  BY NoneAssumption DEF TabsOK, Issued
<1>2. Asked(t)' /\ Issued(t)'
  <2>1. req'[t].fresh \in FreshSession => req'[t].fresh # None
    BY NewSession, NoneAssumption
  <2> QED
    BY <1>1, <2>1, NoneAssumption DEF Onward, TabsOK, Asked, Issued, At
<1>3. TabsOK'
  BY <1>2 DEF Onward, TabsOK, Moves, tabVars, Asked, Issued, At
<1>4. Unknown' /\ Replaced'
  BY BrowserStep DEF Onward, tabVars
<1> QED
  BY <1>3, <1>4 DEF Tables

LEMMA Values ==
    /\ {"keep", "clear"} \subseteq Set(Session)
    /\ {"keep", "clear"} \subseteq Set(Nonce) /\ Nonce \subseteq Set(Nonce)
  BY DEF Set

\* CurrentUser and the refusals of the handlers.
LEMMA RefusalStep ==
    ASSUME SignInInv, NEW t \in Tab,
           \/ CurrentUserFails(t) \/ LoginBudgetExceeded(t) \/ RequestFails(t)
           \/ MailFails(t) \/ handleLoginConfirm(t) \/ NonceMismatch(t)
           \/ CompleteFails(t) \/ IssueFails(t) \/ LogoutFails(t)
           \/ NotSignedIn(t) \/ AlreadyGone(t) \/ DeleteFails(t)
    PROVE  SignInInv'
<1>1. CASE CurrentUserFails(t) \/ LoginBudgetExceeded(t) \/ RequestFails(t) \/ MailFails(t)
  BY <1>1, RefuseStep, Values
  DEF CurrentUserFails, LoginBudgetExceeded, RequestFails, MailFails, At
<1>2. CASE handleLoginConfirm(t)
  <2>1. PICK n \in Nonce : Refuse(t, "keep", n)
    BY <1>2 DEF handleLoginConfirm, FreshNonce
  <2> QED
    BY <1>2, <2>1, RefuseStep, Values DEF handleLoginConfirm, At
<1>3. CASE NonceMismatch(t) \/ CompleteFails(t) \/ IssueFails(t)
  BY <1>3, RefuseStep, Values DEF NonceMismatch, CompleteFails, IssueFails, At
<1>4. CASE LogoutFails(t) \/ NotSignedIn(t) \/ AlreadyGone(t) \/ DeleteFails(t)
  BY <1>4, RefuseStep, Values DEF LogoutFails, NotSignedIn, AlreadyGone, DeleteFails, At
<1> QED
  BY <1>1, <1>2, <1>3, <1>4

\* A new session is nobody's yet.
LEMMA CreateKeeps ==
    ASSUME SignInInv, NEW t \in Tab, NEW s \in FreshSession, CreateSession(t, s)
    PROVE  Tables' /\ Kept(t) /\ (\A x \in Session : x = s => Good(x)') /\ UNCHANGED tabVars
<1> USE DEF SignInInv
<1>1. s \in Session /\ ~Tracked(s)
  BY NewSession DEF Tracked
<1>2. /\ Tables' /\ Ids' = Ids /\ UNCHANGED clock
      /\ s \in rows' /\ revoked'[s] = None
      /\ \A x \in Session \ {s} :
            /\ x \in rows' <=> x \in rows
            /\ revoked'[x] = revoked[x] /\ expires'[x] = expires[x] /\ suser'[x] = suser[x]
  BY <1>1, CreateStep DEF Tables
<1>3. Kept(t)
  BY <1>1, <1>2 DEF Kept, Good
<1> QED
  BY <1>2, <1>3 DEF Good, CreateSession, tabVars

\* Signing in: the link is spent, and a session issued.
LEMMA CompleteStep ==
    ASSUME SignInInv, NEW t \in Tab,
           CompleteLogin(t) \/ CompleteLostReply(t) \/ Issue(t) \/ IssueLostReply(t)
    PROVE  SignInInv'
<1>1. ASSUME SpendLink(t)
      PROVE  /\ Tables' /\ Kept(t) /\ UNCHANGED tabVars /\ req[t].at = "handle"
             /\ users'[linkOf[req[t].link]] \in Id \cup {None}
  <2>1. /\ Tables' /\ users'[linkOf[req[t].link]] \in Id \cup {None}
        /\ \A s \in Session : suser[s] \notin Ids => suser[s] \notin Ids'
    BY <1>1, SpendStep DEF SignInInv, Tables
  <2>2. UNCHANGED <<clock, rows, suser, expires, revoked, tabVars>>
    BY <1>1 DEF SpendLink, sessVars
  <2> QED
    BY <1>1, <2>1, <2>2 DEF Kept, Good, SpendLink, At
<1>2. CASE CompleteLogin(t)
  <2>1. /\ Tables' /\ Kept(t) /\ UNCHANGED tabVars /\ req[t].at = "handle"
        /\ users'[linkOf[req[t].link]] \in Id \cup {None}
    BY <1>1, <1>2 DEF CompleteLogin
  <2>2. Onward(t, "issue") /\ req'[t].fresh = req[t].fresh
    BY <1>2, <2>1, Spends DEF CompleteLogin, SignInInv
  <2> QED
    BY <2>1, <2>2, OnwardStep
<1>3. CASE CompleteLostReply(t)
  BY <1>1, <1>3, AnswerStep, Values DEF CompleteLostReply
<1>4. CASE Issue(t)
  <2>1. PICK s \in FreshSession :
            CreateSession(t, s) /\ req' = [req EXCEPT ![t].at = "revoke", ![t].fresh = s]
    BY <1>4 DEF Issue
  <2>2. Onward(t, "revoke") /\ req'[t].fresh = s
    BY <2>1, NewSession, Issues DEF SignInInv
  <2>3. req[t].at = "issue"
    BY <2>1 DEF CreateSession, At
  <2> QED
    BY <2>1, <2>2, <2>3, CreateKeeps, OnwardStep
<1>5. CASE IssueLostReply(t)
  <2>1. PICK s \in FreshSession : CreateSession(t, s)
    BY <1>5 DEF IssueLostReply
  <2>2. req[t].at = "issue"
    BY <2>1 DEF CreateSession, At
  <2> QED
    BY <1>5, <2>1, <2>2, CreateKeeps, AnswerStep, Values DEF IssueLostReply
<1> QED
  BY <1>2, <1>3, <1>4, <1>5

\* Whoever revokes the browser's session replaces it.
LEMMA RevokeKeeps ==
    ASSUME SignInInv, NEW t \in Tab, Revoke(t), req'[t].at = "reply",
           req'[t].setSession # "keep"
    PROVE  Tables' /\ Kept(t) /\ UNCHANGED tabVars
<1> USE DEF SignInInv
<1>1. /\ Tables' /\ Ids' = Ids /\ UNCHANGED <<clock, rows, suser, expires>>
      /\ \A s \in Session : s # req[t].cookie => revoked'[s] = revoked[s]
  BY RevokeStep DEF Tables
<1>2. ASSUME NEW s \in Session, Tracked(s), s = req[t].cookie PROVE  s = jar.session
  BY <1>2, NoneAssumption DEF Tracked, Unknown
<1> QED
  BY <1>1, <1>2 DEF Kept, Good, Revoke

LEMMA ReplaceStep ==
    ASSUME SignInInv, NEW t \in Tab,
           RevokeOld(t) \/ RevokeOldFails(t) \/ handleLogout(t)
           \/ DeleteAccount(t) \/ DeleteLostReply(t)
    PROVE  SignInInv'
<1>0. ASSUME req[t].at = "revoke"
      PROVE  req[t].fresh \in Set(Session) /\ req[t].fresh # "keep"
  <2>1. req[t].fresh \in Session
    BY <1>0 DEF SignInInv, TabsOK, Issued, Requests, Opt
  <2> QED
    BY <2>1, NoneAssumption DEF Set
<1>1. CASE RevokeOld(t)
  <2>1. req[t].at = "revoke" /\ Revoke(t) /\ Reply(t, req[t].fresh, "clear")
    BY <1>1 DEF RevokeOld, At
  <2>2. req'[t].at = "reply" /\ req'[t].setSession = req[t].fresh
    BY <1>0, <2>1, Replies, Values DEF SignInInv, Set
  <2> QED
    BY <1>0, <2>1, <2>2, RevokeKeeps, AnswerStep, Values
<1>2. CASE RevokeOldFails(t)
  BY <1>0, <1>2, RefuseStep, Values DEF RevokeOldFails, At
<1>3. CASE handleLogout(t)
  <2>1. req[t].at = "handle" /\ Revoke(t) /\ Reply(t, "clear", "keep")
    BY <1>3 DEF handleLogout, At
  <2>2. req'[t].at = "reply" /\ req'[t].setSession = "clear"
    BY <2>1, Replies, Values DEF SignInInv, Set
  <2> QED
    BY <2>1, <2>2, RevokeKeeps, AnswerStep, Values
<1>4. ASSUME DeleteUser(t)
      PROVE  Tables' /\ Kept(t) /\ UNCHANGED tabVars /\ req[t].at = "handle"
  <2>1. /\ Tables' /\ UNCHANGED <<clock, suser, expires, revoked>>
        /\ \A s \in Session : suser[s] \notin Ids => suser[s] \notin Ids'
        /\ \A s \in rows \ rows' : suser[s] \notin Ids'
    BY <1>4, DeleteStep DEF SignInInv, Tables
  <2>2. Kept(t)
    BY <2>1 DEF Kept, Good
  <2> QED
    BY <1>4, <2>1, <2>2 DEF DeleteUser, At
<1>5. CASE DeleteAccount(t)
  BY <1>4, <1>5, AnswerStep, Values DEF DeleteAccount
<1>6. CASE DeleteLostReply(t)
  BY <1>4, <1>6, AnswerStep, Values DEF DeleteLostReply
<1> QED
  BY <1>1, <1>2, <1>3, <1>5, <1>6

\* Every step of the server.
LEMMA ServeStep ==
    ASSUME SignInInv, NEW t \in Tab, Serve(t)
    PROVE  SignInInv'
<1>1. CASE Lookup(t) \/ GetByID(t)
  <2>1. Tables' /\ Kept(t) /\ UNCHANGED tabVars
    BY <1>1, SameTables DEF Lookup, GetByID, SignInInv, Tables, Kept
  <2>2. req[t].at \in {"lookup", "load"}
    BY <1>1 DEF Lookup, GetByID
  <2>3. /\ Onward(t, "load") \/ Onward(t, "handle")
        /\ req'[t].fresh = req[t].fresh
    BY <1>1, Looks DEF SignInInv
  <2> QED
    BY <2>1, <2>2, <2>3, OnwardStep
<1>2. CASE RequestLogin(t)
  <2>1. PICK l \in Link : req' = [req EXCEPT ![t].at = "mail", ![t].link = l]
    BY <1>2 DEF RequestLogin, LinksOf
  <2>2. Tables' /\ Kept(t)
    BY <1>2, <2>1, LinkStep, SameSessions DEF SignInInv, Tables, Kept
  <2>3. UNCHANGED tabVars /\ req[t].at = "handle"
    BY <1>2 DEF RequestLogin, At
  <2> QED
    BY <2>1, <2>2, <2>3, Mails, OnwardStep DEF SignInInv
<1>3. CASE SendMail(t)
  <2>1. req[t].link \in Link
    BY <1>3 DEF SendMail, SignInInv, TabsOK, Asked
  <2>2. Tables' /\ Kept(t)
    BY <1>3, <2>1, LinkStep, SameSessions DEF SignInInv, Tables, Kept
  <2> QED
    BY <1>3, <2>2, AnswerStep, Values DEF SendMail, At
<1> QED
  BY <1>1, <1>2, <1>3, RefusalStep, CompleteStep, ReplaceStep DEF Serve
-------------------------------------------------------------------------------
\* A request takes the jar's cookies, which no answer on its way sets.
LEMMA SendStep ==
    ASSUME SignInInv, NEW t \in Tab,
           \/ \E e \in Email : SendRequest(t, e)
           \/ \E l \in Link : SendOpen(t, l)
           \/ SendComplete(t) \/ SendLogout(t) \/ SendDelete(t)
    PROVE  SignInInv'
<1> USE DEF SignInInv
<1>1. PICK op \in {"request", "open", "complete", "logout", "delete"},
           e \in Email \cup {None}, l \in Link \cup {None}, form \in Nonce \cup {None} :
         Send(t, op, e, l, form) /\ (op = "request" => e \in Email)
  BY DEF SendRequest, SendOpen, SendComplete, SendLogout, SendDelete, TabsOK
<1>2. /\ Moves(t) /\ req[t].op = "none"
      /\ req'[t].op = op /\ req'[t].at = "lookup" /\ req'[t].email = e
      /\ req'[t].cookie = jar.session /\ req'[t].fresh = None
      /\ req'[t].setSession = "keep"
      /\ UNCHANGED <<clock, userVars, linkVars, sessVars, tabVars>>
  BY <1>1, Sends
<1>3. Tables' /\ \A s \in Session : Good(s)' <=> Good(s)
  BY <1>2, SameTables DEF Tables
<1>4. Asked(t)' /\ Issued(t)'
  BY <1>1, <1>2, NoneAssumption DEF Asked, Issued, At
<1>5. TabsOK'
  BY <1>2, <1>4 DEF TabsOK, Moves, tabVars, Asked, Issued, At
<1>6. \A u \in Tab : req[u].fresh \in Session \cup {None}
  BY DEF TabsOK, Requests, Opt
<1>7. Unknown'
  BY <1>2, <1>3, <1>6 DEF Unknown, Moves, tabVars
<1>8. Replaced'
  <2>1. req[t].at = "idle" /\ jar.session \in Session \cup {None}
    BY <1>2 DEF TabsOK, Issued
  <2> QED
    BY <1>2, <1>3, <2>1 DEF Replaced, Moves, tabVars
<1> QED
  BY <1>3, <1>5, <1>7, <1>8 DEF Tables

\* The answer sets a session nobody else knew, or none, or leaves the jar's to the
\* request that owes its replacement.
LEMMA ReceiveStep ==
    ASSUME SignInInv, NEW t \in Tab, Receive(t)
    PROVE  SignInInv'
<1> USE DEF SignInInv
<1>1. Tables' /\ \A s \in Session : Good(s)' <=> Good(s)
  BY SameTables DEF Receive, Tables
<1>2. NoRequest \in Requests /\ NoRequest.fresh = None /\ NoRequest.cookie = None
      /\ NoRequest.at = "idle" /\ NoRequest.op = "none" /\ NoRequest.setSession = "keep"
  <2>1. /\ "none" \in OpName /\ "idle" \in AtName /\ None \in Opt(Email) /\ None \in Opt(Link)
        /\ None \in Opt(Nonce) /\ None \in Opt(Session) /\ None \in Opt(Id)
        /\ "keep" \in Set(Session) /\ "keep" \in Set(Nonce)
    BY DEF OpName, AtName, Opt, Set
  <2> QED
    BY <2>1 DEF NoRequest, Requests
<1>3. Moves(t) /\ req'[t] = NoRequest
  BY <1>2, OneTab DEF Receive
<1>4. req[t] \in Requests
  BY DEF TabsOK
<1>5. TabsOK'
  <2>1. jar' \in [session : Session \cup {None}, nonce : Nonce \cup {None}]
    BY <1>4 DEF Receive, Stored, TabsOK, Requests, Set
  <2>2. page' \in [Tab -> [link : Link \cup {None}, nonce : Nonce \cup {None}]]
    BY <1>4 DEF Receive, TabsOK, NoPage, Requests, Opt
  <2>3. Asked(t)' /\ Issued(t)'
    BY <1>2, <1>3, NoneAssumption DEF Asked, Issued, At
  <2> QED
    BY <1>3, <2>1, <2>2, <2>3 DEF TabsOK, Moves, Asked, Issued, At
<1>6. \A u \in Tab : req[u].fresh \in Session \cup {None} /\ req[u].cookie \in Session \cup {None}
  BY DEF TabsOK, Requests, Opt
<1>7. \/ req[t].setSession = "keep" /\ jar'.session = jar.session
      \/ req[t].setSession = "clear" /\ jar'.session = None
      \/ /\ req[t].fresh # None /\ jar'.session = req[t].fresh
         /\ req[t].setSession # "keep"
  BY <1>4, NoneAssumption DEF Receive, Stored, TabsOK, Issued, Requests, Set
<1>8. Unknown'
  <2> SUFFICES ASSUME NEW u \in Tab, req'[u].fresh # None
               PROVE  /\ req'[u].fresh # jar'.session
                      /\ \A w \in Tab : /\ req'[w].cookie # req'[u].fresh
                                        /\ w # u => req'[w].fresh # req'[u].fresh
                      /\ \A s \in Session : s = req'[u].fresh => Good(s)'
    BY <1>5 DEF Unknown, TabsOK, Requests, Opt
  <2>1. u # t /\ req'[u] = req[u]
    BY <1>2, <1>3 DEF Moves
  <2>2. /\ req[u].fresh # jar.session /\ Good(req[u].fresh)
        /\ \A w \in Tab : /\ req[w].cookie # req[u].fresh
                          /\ w # u => req[w].fresh # req[u].fresh
    BY <2>1 DEF Unknown
  <2> QED
    BY <1>1, <1>2, <1>3, <1>7, <2>1, <2>2 DEF Moves
<1>9. Replaced'
  <2> SUFFICES ASSUME jar'.session # None, NEW s \in Session, s = jar'.session
               PROVE  \/ Good(s)'
                      \/ \E u \in Tab : /\ req'[u].cookie = s
                                        /\ req'[u].at = "reply" /\ req'[u].setSession # "keep"
    BY <1>5 DEF Replaced, TabsOK
  <2>1. CASE req[t].setSession = "keep" /\ jar'.session = jar.session
    BY <1>1, <1>3, <2>1 DEF Replaced, Moves
  <2>2. CASE req[t].fresh # None /\ jar'.session = req[t].fresh
    BY <1>1, <2>2 DEF Unknown
  <2> QED
    BY <1>7, <2>1, <2>2
<1> QED
  BY <1>1, <1>5, <1>8, <1>9 DEF Tables

\* Time and the purge end sessions only as they should.
LEMMA TimeStep ==
    ASSUME SignInInv, Tables', UNCHANGED req, TabsOK', jar'.session = jar.session,
           \A s \in Session : Good(s) => Good(s)'
    PROVE  SignInInv'
<1>1. \A t \in Tab : req[t].fresh \in Session \cup {None}
  BY DEF SignInInv, TabsOK, Requests, Opt
<1>2. jar.session \in Session \cup {None}
  BY DEF SignInInv, TabsOK
<1>3. Unknown'
  BY <1>1 DEF SignInInv, Unknown
<1>4. Replaced'
  BY <1>2 DEF SignInInv, Replaced
<1> QED
  BY <1>3, <1>4 DEF SignInInv, Tables

LEMMA ClockStep ==
    ASSUME SignInInv,
           PurgeSessions \/ ExpireNonce \/ Tick \/ \E l \in Link : ExpireLink(l)
    PROVE  SignInInv'
<1> USE DEF SignInInv
<1>1. CASE PurgeSessions
  <2>1. UNCHANGED <<clock, users, nextId, linkOf, live, inbox, suser, expires, revoked, jar, page, req>>
    BY <1>1 DEF PurgeSessions, userVars, linkVars, tabVars
  <2>2. rows' \subseteq rows
    BY <1>1 DEF PurgeSessions
  <2>3. Tables' /\ TabsOK'
    BY <2>1, <2>2 DEF Tables, Accountable, LinksOK, SessionsOK, NoGhostSession, Ids, TabsOK,
                      Asked, Issued, At
  <2>4. ASSUME NEW s \in Session, s \in rows, s \notin rows', revoked[s] = None
        PROVE  clock >= expires[s]
    <3>1. ~(expires[s] >= clock - Retention)
      BY <1>1, <2>4 DEF PurgeSessions
    <3>2. clock \in Nat /\ expires[s] \in Nat /\ Retention \in Nat
      BY Numbers DEF Accountable, SessionsOK
    <3> QED
      BY <3>1, <3>2
  <2>5. \A s \in Session : Good(s) => Good(s)'
    BY <2>1, <2>4 DEF Good, Ids
  <2> QED
    BY <2>1, <2>3, <2>5, TimeStep
<1>2. CASE ExpireNonce
  <2>1. Tables' /\ \A s \in Session : Good(s)' <=> Good(s)
    BY <1>2, SameTables DEF ExpireNonce, Tables
  <2>2. jar' \in [session : Session \cup {None}, nonce : Nonce \cup {None}]
        /\ jar'.session = jar.session
    BY <1>2 DEF ExpireNonce, TabsOK
  <2>3. UNCHANGED <<page, req>>
    BY <1>2 DEF ExpireNonce
  <2>4. TabsOK'
    BY <2>2, <2>3 DEF TabsOK, Asked, Issued, At
  <2> QED
    BY <2>1, <2>2, <2>3, <2>4, TimeStep
<1>3. CASE Tick
  <2>1. UNCHANGED <<users, nextId, linkOf, live, inbox, rows, suser, expires, revoked, jar, page, req>>
    BY <1>3 DEF Tick, userVars, linkVars, sessVars, tabVars
  <2>2. clock' = clock + 1 /\ clock < MaxClock /\ clock \in 0..MaxClock
    BY <1>3 DEF Tick, Accountable
  <2>3. Tables' /\ TabsOK'
    BY <2>1, <2>2, Numbers DEF Tables, Accountable, LinksOK, SessionsOK, NoGhostSession, Ids,
                      TabsOK, Asked, Issued, At
  <2>4. \A s \in Session : Good(s) => Good(s)'
    BY <2>1, <2>2, Numbers DEF Good, Ids, SessionsOK
  <2> QED
    BY <2>1, <2>3, <2>4, TimeStep
<1>4. ASSUME NEW l \in Link, ExpireLink(l) PROVE  SignInInv'
  <2>1. UNCHANGED <<clock, userVars, sessVars, jar, page, req>>
    BY <1>4 DEF ExpireLink, tabVars
  <2>2. Accountable' /\ SessionsOK' /\ LinksOK' /\ TabsOK'
    BY <1>4, <2>1 DEF ExpireLink, Accountable, SessionsOK, LinksOK, NoGhostSession, Ids, userVars,
                      sessVars, TabsOK, Asked, Issued, At
  <2> QED
    BY <2>1, <2>2, SameSessions, TimeStep DEF Tables
<1> QED
  BY <1>1, <1>2, <1>3, <1>4
-------------------------------------------------------------------------------
\* Nobody is signed in at the start.
LEMMA InitSignIn == Init => SignInInv
<1> SUFFICES ASSUME Init PROVE  SignInInv
  OBVIOUS
<1>1. Accountable /\ LinksOK /\ SessionsOK
  BY Numbers, NoneAssumption DEF Init, Accountable, LinksOK, SessionsOK, NoGhostSession
<1>2. NoRequest \in Requests
  <2>1. /\ "none" \in OpName /\ "idle" \in AtName /\ None \in Opt(Email) /\ None \in Opt(Link)
        /\ None \in Opt(Nonce) /\ None \in Opt(Session) /\ None \in Opt(Id)
        /\ "keep" \in Set(Session) /\ "keep" \in Set(Nonce)
    BY DEF OpName, AtName, Opt, Set
  <2> QED
    BY <2>1 DEF NoRequest, Requests
<1>3. \A t \in Tab : Asked(t) /\ Issued(t) /\ req[t].fresh = None
  BY NoneAssumption DEF Init, NoRequest, Asked, Issued, At
<1>4. TabsOK
  BY <1>2, <1>3 DEF Init, TabsOK, NoPage
<1> QED
  BY <1>1, <1>3, <1>4 DEF Init, SignInInv, Unknown, Replaced

LEMMA SignInInvariant == Spec => []SignInInv
<1>1. SignInInv /\ [Next]_vars => SignInInv'
  <2> SUFFICES ASSUME SignInInv, [Next]_vars PROVE  SignInInv'
    OBVIOUS
  <2>1. CASE UNCHANGED vars
    <3>1. UNCHANGED <<clock, userVars, linkVars, sessVars, jar, page, req>>
      BY <2>1 DEF vars, tabVars
    <3>2. TabsOK'
      BY <3>1 DEF SignInInv, TabsOK, Asked, Issued, At
    <3> QED
      BY <3>1, <3>2, SameTables, TimeStep DEF SignInInv, Tables
  <2>2. ASSUME NEW t \in Tab, Browse(t) PROVE  SignInInv'
    BY <2>2, SendStep, ReceiveStep DEF Browse
  <2> QED
    BY <2>1, <2>2, ServeStep, ClockStep DEF Next
<1> QED
  BY InitSignIn, <1>1, PTL DEF Spec

\* The sessions table is in order through every race of sign-in, sign-out, purge
\* and deletion: no session of an account that is gone.
THEOREM TableInOrder == Spec => []SessionsOwned
<1>1. SignInInv => SessionsOwned
  BY TypesAgree DEF SignInInv
<1> QED
  BY SignInInvariant, <1>1, PTL

\* handleLoginComplete, "a failed issue must leave the old session working": the
\* browser is never left with a session that was revoked or purged under it.
THEOREM Unstranded == Spec => []NeverStranded
<1>1. SignInInv => NeverStranded
  BY DEF SignInInv, Replaced, Good, NeverStranded
<1> QED
  BY SignInInvariant, <1>1, PTL
===============================================================================
