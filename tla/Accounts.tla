------------------------------- MODULE Accounts -------------------------------
(***************************************************************************)
(* Accounts, sign-in links and handles: internal/user on PostgreSQL.       *)
(*                                                                         *)
(* A worker is one HTTP request (or the purge loop) running one operation  *)
(* of user.Service.  An operation is a READ COMMITTED transaction and each *)
(* of its statements is a step: a statement sees what was committed when   *)
(* it began, waits for the locks of other transactions, and its writes     *)
(* become visible at the commit step, which also releases every lock.      *)
(* Now() in a statement is the database clock when the transaction began   *)
(* (job.now); ClaimHandle and DeleteAccount also carry the application's   *)
(* clock (job.at), read by the handler before the transaction.             *)
(*                                                                         *)
(* Data left out: the spelling of addresses, handles and tokens (a token   *)
(* is its digest), names, photos, sessions, moods and guestbook entries.   *)
(***************************************************************************)
EXTENDS Integers, FiniteSets

CONSTANTS
    Worker,      \* concurrent requests
    Addr,        \* normalised email addresses
    Token,       \* digests newToken can return, each at most once
    Handle,      \* handles, folded to lower case
    None,        \* NULL, and the absence of a lock holder
    Ops,         \* the operations this instance of the system runs
    SignedUp,    \* addresses that have an account in the initial state
    LoginBudget, LoginBudgetWindow, TokenTTL, PurgeRetention,
    Reservation, \* DeletedHandleReservation
    MaxSkew,     \* bound on |application clock - database clock|
    MaxTxTime,   \* bound on the life of a transaction
    MaxClock     \* bound on the database clock, for TLC

ASSUME BudgetAssumption == LoginBudget \in Nat \ {0}

ASSUME DurationAssumption ==
    /\ LoginBudgetWindow \in Nat /\ TokenTTL \in Nat /\ PurgeRetention \in Nat
    /\ Reservation \in Nat /\ MaxSkew \in Nat /\ MaxTxTime \in Nat
    /\ MaxClock \in Nat

\* LoginBudgetWindow = TokenTTL; purgeRetention outlasts a transaction.
ASSUME WindowAssumption ==
    /\ LoginBudgetWindow <= TokenTTL
    /\ MaxTxTime <= PurgeRetention

ASSUME NoneAssumption ==
    None \notin Worker /\ None \notin Addr /\ None \notin Token /\ None \notin Handle

ASSUME SetAssumption == IsFiniteSet(Token) /\ SignedUp \subseteq Addr

VARIABLES
    clock,       \* the database clock
    use,         \* login_tokens: what became of each token
    owner,       \* login_tokens.email
    created,     \* login_tokens.created_at; expires_at is TokenTTL later
    acct,        \* users.id of each address, 0 for no account
    handle,      \* users.handle of each address
    nextId,      \* the next id gen_random_uuid returns
    reserved,    \* deleted_handles: the handles with a row
    deletedAt,   \* deleted_handles.deleted_at
    advisory,    \* holder of pg_advisory_xact_lock on each address
    userLock,    \* holder of the row lock (or index key) of each users row
    pc, job,     \* each worker's next statement, and its arguments
    rows,        \* login_tokens rows each worker has written and holds
    snap         \* login_tokens rows the worker's statement saw when it began

\* History: kept for the properties, read by no operation.
VARIABLES
    logins,      \* committed logins of each token
    condemned,   \* tokens on record when a committed deletion looked for them
    latest,      \* the last token minted for each address
    lastDel,     \* deletedAt of the last deletion of each handle, even if purged
    racing,      \* workers whose claim overlaps a deletion of the same handle
    raced,       \* accounts whose claim did
    claimedAt    \* database clock when the account got its handle

tokenVars   == <<use, owner, created>>
userVars    == <<acct, handle, nextId>>
reserveVars == <<reserved, deletedAt>>
lockVars    == <<advisory, userLock>>
workVars    == <<pc, job, rows, snap>>
loginHist   == <<logins, condemned, latest>>
claimHist   == <<lastDel, racing, raced, claimedAt>>
tables      == <<tokenVars, userVars, reserveVars, loginHist, claimHist>>
vars        == <<clock, tables, lockVars, workVars>>

\* consumed_at is NULL ("open") or set, by a newer link or by a login; a row is
\* dropped by the purge or with its account.
TokenUse == {"new", "open", "retired", "spent", "purged", "deleted"}
OnRecord == {"open", "retired", "spent"}

PC == {"idle", "rLock", "rCount", "rRetire", "rCommit",
       "cConsume", "cUpsert", "cCommit",
       "dLock", "dReserve", "dTokens", "dUser", "dCommit",
       "hCheck", "hRow", "hIndex", "pApply"}

Job == [addr: Addr \cup {None}, tok: Token \cup {None}, id: Nat,
        handle: Handle \cup {None}, now: Nat, at: Int]

NewJob(a, k, i, h, n, t) ==
    [addr |-> a, tok |-> k, id |-> i, handle |-> h, now |-> n, at |-> t]

NoJob == NewJob(None, None, 0, None, 0, 0)

TypeOK ==
    /\ clock \in Nat
    /\ use \in [Token -> TokenUse]
    /\ owner \in [Token -> Addr \cup {None}]
    /\ created \in [Token -> Nat]
    /\ acct \in [Addr -> Nat]
    /\ handle \in [Addr -> Handle \cup {None}]
    /\ nextId \in Nat
    /\ reserved \subseteq Handle
    /\ deletedAt \in [Handle -> Int]
    /\ advisory \in [Addr -> Worker \cup {None}]
    /\ userLock \in [Addr -> Worker \cup {None}]
    /\ pc \in [Worker -> PC]
    /\ job \in [Worker -> Job]
    /\ rows \in [Worker -> SUBSET Token]
    /\ snap \in [Worker -> SUBSET Token]
    /\ logins \in [Token -> Nat]
    /\ condemned \subseteq Token
    /\ latest \in [Addr -> Token \cup {None}]
    /\ lastDel \in [Handle -> Int]
    /\ racing \subseteq Worker
    /\ raced \subseteq Addr
    /\ claimedAt \in [Addr -> Nat]

Init ==
    /\ clock = 0
    /\ use = [k \in Token |-> "new"]
    /\ owner = [k \in Token |-> None]
    /\ created = [k \in Token |-> 0]
    /\ acct = [a \in Addr |-> IF a \in SignedUp THEN 1 ELSE 0]
    /\ handle = [a \in Addr |-> None]
    /\ nextId = 2
    /\ reserved = {}
    /\ deletedAt = [h \in Handle |-> 0]
    /\ advisory = [a \in Addr |-> None]
    /\ userLock = [a \in Addr |-> None]
    /\ pc = [w \in Worker |-> "idle"]
    /\ job = [w \in Worker |-> NoJob]
    /\ rows = [w \in Worker |-> {}]
    /\ snap = [w \in Worker |-> {}]
    /\ logins = [k \in Token |-> 0]
    /\ condemned = {}
    /\ latest = [a \in Addr |-> None]
    /\ lastDel = [h \in Handle |-> -Reservation]
    /\ racing = {}
    /\ raced = {}
    /\ claimedAt = [a \in Addr |-> 0]
-------------------------------------------------------------------------------
(* Transactions.                                                           *)

Begin(w, op, label, j) ==
    /\ op \in Ops
    /\ pc[w] = "idle"
    /\ pc' = [pc EXCEPT ![w] = label]
    /\ job' = [job EXCEPT ![w] = j]

Goto(w, label) == pc' = [pc EXCEPT ![w] = label]

\* Defect: the users row stays locked.
EndKeepingUserLock(w) ==
    /\ Goto(w, "idle")
    /\ job' = [job EXCEPT ![w] = NoJob]
    /\ rows' = [rows EXCEPT ![w] = {}]
    /\ snap' = [snap EXCEPT ![w] = {}]
    /\ advisory' = [a \in Addr |-> IF advisory[a] = w THEN None ELSE advisory[a]]
    /\ UNCHANGED userLock

\* Commit or rollback: every lock of the transaction is released.
End(w) ==
    /\ Goto(w, "idle")
    /\ job' = [job EXCEPT ![w] = NoJob]
    /\ rows' = [rows EXCEPT ![w] = {}]
    /\ snap' = [snap EXCEPT ![w] = {}]
    /\ advisory' = [a \in Addr |-> IF advisory[a] = w THEN None ELSE advisory[a]]
    /\ userLock' = [a \in Addr |-> IF userLock[a] = w THEN None ELSE userLock[a]]

\* No other transaction holds one of these login_tokens rows.
Unlocked(w, K) == \A v \in Worker \ {w} : rows[v] \cap K = {}

\* The rows a DELETE saw when it began that are still there.
Wanted(w) == {k \in snap[w] : use[k] \in OnRecord}

\* The deferred Rollback: the client went away, the connection broke, or the
\* database chose the transaction as the victim of a deadlock.
Abort(w) ==
    /\ pc[w] # "idle"
    /\ End(w)
    /\ UNCHANGED <<clock, tables>>

\* The application's clock, as the handlers of claims and deletions read it.
AppClock == {clock + s : s \in (-MaxSkew)..MaxSkew}

Tick ==
    /\ clock < MaxClock
    /\ \A w \in Worker : pc[w] # "idle" => clock < job[w].now + MaxTxTime
    /\ clock' = clock + 1
    /\ UNCHANGED <<tables, lockVars, workVars>>
-------------------------------------------------------------------------------
(* RequestLogin.                                                           *)

\* Defect: the budget counts outstanding links instead of links sent.
RecentOutstanding(a, n) ==
    {k \in Token : use[k] = "open" /\ owner[k] = a /\ created[k] > n - LoginBudgetWindow}

\* The rows CountRecentLoginTokens counts for a transaction that began at n.
Recent(a, n) ==
    {k \in Token : /\ use[k] \in OnRecord
                   /\ owner[k] = a
                   /\ created[k] > n - LoginBudgetWindow}

OpenTokens(a) == {k \in Token : use[k] = "open" /\ owner[k] = a}

BeginRequest(w, a, k) ==
    /\ use[k] = "new"
    /\ \A v \in Worker : job[v].tok # k
    /\ Begin(w, "request", "rLock", NewJob(a, k, 0, None, clock, 0))
    /\ UNCHANGED <<clock, tables, lockVars, rows, snap>>

\* Defect: requests for an address are not serialised.
SkipLoginAddressLock(w) ==
    /\ pc[w] = "rLock"
    /\ Goto(w, "rCount")
    /\ UNCHANGED <<clock, tables, lockVars, job, rows, snap>>

LockLoginAddress(w) ==
    /\ pc[w] = "rLock"
    /\ advisory[job[w].addr] = None
    /\ advisory' = [advisory EXCEPT ![job[w].addr] = w]
    /\ Goto(w, "rCount")
    /\ UNCHANGED <<clock, tables, userLock, job, rows, snap>>

WithinBudget(w) == Cardinality(Recent(job[w].addr, job[w].now)) < LoginBudget

CountRecent(w) ==
    /\ pc[w] = "rCount"
    /\ WithinBudget(w)
    /\ Goto(w, "rRetire")
    /\ UNCHANGED <<clock, tables, lockVars, job, rows, snap>>

\* Defect: an over-budget request retires the live link first.
BudgetExceededRetiring(w) ==
    /\ pc[w] = "rCount"
    /\ ~WithinBudget(w)
    /\ Unlocked(w, OpenTokens(job[w].addr))
    /\ use' = [k \in Token |-> IF k \in OpenTokens(job[w].addr) THEN "retired" ELSE use[k]]
    /\ End(w)
    /\ UNCHANGED <<clock, owner, created, userVars, reserveVars, loginHist, claimHist>>

BudgetExceeded(w) ==
    /\ pc[w] = "rCount"
    /\ ~WithinBudget(w)
    /\ End(w)
    /\ UNCHANGED <<clock, tables>>

\* InvalidateLoginTokensForEmail.  While w holds the address no row of it can
\* appear, so what the statement sees when it begins and what it finds after
\* waiting for row locks differ only by rows it must skip anyway.
InvalidateTokens(w) ==
    LET open == OpenTokens(job[w].addr) IN
    /\ pc[w] = "rRetire"
    /\ Unlocked(w, open)
    /\ rows' = [rows EXCEPT ![w] = open]
    /\ Goto(w, "rCommit")
    /\ UNCHANGED <<clock, tables, lockVars, job, snap>>

\* CreateLoginToken and the commit.
CommitRequest(w) ==
    LET k == job[w].tok IN
    /\ pc[w] = "rCommit"
    /\ use' = [t \in Token |-> IF t = k THEN "open"
                               ELSE IF t \in rows[w] THEN "retired" ELSE use[t]]
    /\ owner' = [owner EXCEPT ![k] = job[w].addr]
    /\ created' = [created EXCEPT ![k] = job[w].now]
    /\ latest' = [latest EXCEPT ![job[w].addr] = k]
    /\ End(w)
    /\ UNCHANGED <<clock, userVars, reserveVars, claimHist, logins, condemned>>
-------------------------------------------------------------------------------
(* CompleteLogin.                                                          *)

BeginComplete(w, k) ==
    /\ use[k] # "new"
    /\ Begin(w, "complete", "cConsume", NewJob(owner[k], k, 0, None, clock, 0))
    /\ UNCHANGED <<clock, tables, lockVars, rows, snap>>

Consumable(w) ==
    /\ use[job[w].tok] = "open"
    /\ created[job[w].tok] + TokenTTL > job[w].now

\* Defect: the row is read, then updated, without its lock.
ConsumeTokenUnlocked(w) ==
    /\ pc[w] = "cConsume"
    /\ Consumable(w)
    /\ rows' = [rows EXCEPT ![w] = {job[w].tok}]
    /\ Goto(w, "cUpsert")
    /\ UNCHANGED <<clock, tables, lockVars, job, snap>>

\* The UPDATE waits for a locked row, and matches it again once it has it.
ConsumeToken(w) ==
    /\ pc[w] = "cConsume"
    /\ Consumable(w)
    /\ Unlocked(w, {job[w].tok})
    /\ rows' = [rows EXCEPT ![w] = {job[w].tok}]
    /\ Goto(w, "cUpsert")
    /\ UNCHANGED <<clock, tables, lockVars, job, snap>>

InvalidToken(w) ==
    /\ pc[w] = "cConsume"
    /\ ~Consumable(w)
    /\ End(w)
    /\ UNCHANGED <<clock, tables>>

\* INSERT ... ON CONFLICT DO UPDATE waits for whoever holds the address's row,
\* or its key in the unique index, in an unfinished transaction.
UpsertUser(w) ==
    /\ pc[w] = "cUpsert"
    /\ userLock[job[w].addr] = None
    /\ userLock' = [userLock EXCEPT ![job[w].addr] = w]
    /\ Goto(w, "cCommit")
    /\ UNCHANGED <<clock, tables, advisory, job, rows, snap>>

CommitLogin(w) ==
    LET a == job[w].addr IN
    /\ pc[w] = "cCommit"
    /\ use' = [t \in Token |-> IF t \in rows[w] THEN "spent" ELSE use[t]]
    /\ IF acct[a] = 0
       THEN /\ acct' = [acct EXCEPT ![a] = nextId]
            /\ nextId' = nextId + 1
       ELSE UNCHANGED <<acct, nextId>>
    /\ logins' = [logins EXCEPT ![job[w].tok] = @ + 1]
    /\ End(w)
    /\ UNCHANGED <<clock, owner, created, handle, reserveVars, claimHist,
                   condemned, latest>>
-------------------------------------------------------------------------------
(* DeleteAccount.                                                          *)

BeginDelete(w, a) ==
    /\ acct[a] # 0
    /\ \E t \in AppClock :
          Begin(w, "delete", "dLock", NewJob(a, None, acct[a], None, clock, t))
    /\ UNCHANGED <<clock, tables, lockVars, rows, snap>>

LockUserForDelete(w) ==
    LET a == job[w].addr IN
    /\ pc[w] = "dLock"
    /\ acct[a] = job[w].id
    /\ userLock[a] = None
    /\ userLock' = [userLock EXCEPT ![a] = w]
    /\ Goto(w, "dReserve")
    /\ UNCHANGED <<clock, tables, advisory, job, rows, snap>>

UserNotFound(w) ==
    /\ pc[w] = "dLock"
    /\ acct[job[w].addr] # job[w].id
    /\ End(w)
    /\ UNCHANGED <<clock, tables>>

\* ReserveDeletedHandle (the handle LockUserForDelete read, if any), then the
\* start of DeleteLoginTokensForEmail: the rows it will look for.
ReserveHandle(w) ==
    LET a == job[w].addr IN
    /\ pc[w] = "dReserve"
    /\ job' = [job EXCEPT ![w].handle = handle[a]]
    /\ snap' = [snap EXCEPT ![w] = {k \in Token : use[k] \in OnRecord /\ owner[k] = a}]
    /\ Goto(w, "dTokens")
    /\ UNCHANGED <<clock, tables, lockVars, rows>>

\* Defect: rows another transaction holds are skipped.
DeleteTokensSkipLocked(w) ==
    /\ pc[w] = "dTokens"
    /\ rows' = [rows EXCEPT ![w] = {k \in snap[w] : use[k] \in OnRecord /\ Unlocked(w, {k})}]
    /\ Goto(w, "dUser")
    /\ UNCHANGED <<clock, tables, lockVars, job, snap>>

\* The DELETE gets every row it saw that is still there.
DeleteTokens(w) ==
    /\ pc[w] = "dTokens"
    /\ Unlocked(w, Wanted(w))
    /\ rows' = [rows EXCEPT ![w] = Wanted(w)]
    /\ Goto(w, "dUser")
    /\ UNCHANGED <<clock, tables, lockVars, job, snap>>

DeleteUser(w) ==
    /\ pc[w] = "dUser"
    /\ Goto(w, "dCommit")
    /\ UNCHANGED <<clock, tables, lockVars, job, rows, snap>>

CommitDelete(w) ==
    LET a == job[w].addr
        h == job[w].handle
    IN
    /\ pc[w] = "dCommit"
    /\ use' = [t \in Token |-> IF t \in rows[w] THEN "deleted" ELSE use[t]]
    /\ acct' = [acct EXCEPT ![a] = 0]
    /\ handle' = [handle EXCEPT ![a] = None]
    /\ condemned' = condemned \cup snap[w]
    /\ raced' = raced \ {a}
    /\ IF h = None
       THEN UNCHANGED <<reserved, deletedAt, lastDel, racing>>
       ELSE /\ reserved' = reserved \cup {h}
            /\ deletedAt' = [deletedAt EXCEPT ![h] = job[w].at]
            /\ lastDel' = [lastDel EXCEPT ![h] = job[w].at]
            /\ racing' = racing \cup
                  {v \in Worker : pc[v] \in {"hRow", "hIndex"} /\ job[v].handle = h}
    /\ End(w)
    /\ UNCHANGED <<clock, owner, created, nextId, logins, latest, claimedAt>>
-------------------------------------------------------------------------------
(* ClaimHandle: one statement, committed as it ends.                       *)

BeginClaim(w, a, h) ==
    /\ acct[a] # 0
    /\ \E t \in AppClock :
          Begin(w, "claim", "hCheck", NewJob(a, None, acct[a], h, clock, t))
    /\ UNCHANGED <<clock, tables, lockVars, rows, snap>>

Claimable(w) ==
    /\ acct[job[w].addr] = job[w].id
    /\ handle[job[w].addr] = None

\* NOT EXISTS (SELECT 1 FROM deleted_handles ...)
NotReserved(w) ==
    ~ /\ job[w].handle \in reserved
      /\ deletedAt[job[w].handle] > job[w].at - Reservation

\* The UPDATE begins: its snapshot decides the reservation.
ClaimCheck(w) ==
    /\ pc[w] = "hCheck"
    /\ Claimable(w)
    /\ NotReserved(w)
    /\ racing' = racing \ {w}
    /\ Goto(w, "hRow")
    /\ UNCHANGED <<clock, tokenVars, userVars, reserveVars, loginHist, lastDel,
                   raced, claimedAt, lockVars, job, rows, snap>>

\* It waits for its row, and matches it again; the reservation it does not.
ClaimRow(w) ==
    LET a == job[w].addr IN
    /\ pc[w] = "hRow"
    /\ userLock[a] = None
    /\ Claimable(w)
    /\ userLock' = [userLock EXCEPT ![a] = w]
    /\ Goto(w, "hIndex")
    /\ UNCHANGED <<clock, tables, advisory, job, rows, snap>>

\* Other accounts whose row has the handle.
Holders(w) == {b \in Addr \ {job[w].addr} : handle[b] = job[w].handle}

\* The unique index waits for a deletion of the holder that has not committed.
\* A holder that is only locked FOR UPDATE still counts as holding.
HolderLeaving(w) ==
    \E b \in Holders(w), v \in Worker : pc[v] = "dCommit" /\ job[v].addr = b

\* claimRefusal and the unique violation: the account is left as it is.
ClaimRefused(w) ==
    /\ \/ pc[w] = "hCheck" /\ ~(Claimable(w) /\ NotReserved(w))
       \/ pc[w] = "hRow" /\ ~Claimable(w)
       \/ pc[w] = "hIndex" /\ Holders(w) # {} /\ ~HolderLeaving(w)
    /\ End(w)
    /\ UNCHANGED <<clock, tables>>

\* The unique index lets the new row version in, and the statement commits.
ClaimApply(w) ==
    LET a == job[w].addr IN
    /\ pc[w] = "hIndex"
    /\ Holders(w) = {}
    /\ handle' = [handle EXCEPT ![a] = job[w].handle]
    /\ claimedAt' = [claimedAt EXCEPT ![a] = clock]
    /\ raced' = IF w \in racing THEN raced \cup {a} ELSE raced
    /\ End(w)
    /\ UNCHANGED <<clock, tokenVars, acct, nextId, reserveVars, loginHist,
                   lastDel, racing>>
-------------------------------------------------------------------------------
(* The purges.                                                             *)

\* PurgeLoginTokens begins: the rows whose expires_at is past the retention.
BeginPurgeTokens(w) ==
    /\ Begin(w, "purgeTokens", "pApply", NewJob(None, None, 0, None, clock, 0))
    /\ snap' = [snap EXCEPT ![w] =
          {k \in Token : /\ use[k] \in OnRecord
                         /\ created[k] + TokenTTL < clock - PurgeRetention}]
    /\ UNCHANGED <<clock, tables, lockVars, rows>>

PurgeTokens(w) ==
    /\ pc[w] = "pApply"
    /\ Unlocked(w, Wanted(w))
    /\ use' = [k \in Token |-> IF k \in Wanted(w) THEN "purged" ELSE use[k]]
    /\ End(w)
    /\ UNCHANGED <<clock, owner, created, userVars, reserveVars, loginHist, claimHist>>

\* Defect: the purge does not wait for the reservation to run out.
PurgeHandlesEarly ==
    LET expired == {h \in reserved : deletedAt[h] < clock} IN
    /\ "purgeHandles" \in Ops
    /\ expired # {}
    /\ reserved' = reserved \ expired
    /\ UNCHANGED <<clock, tokenVars, userVars, deletedAt, loginHist, claimHist,
                   lockVars, workVars>>

\* On the database clock, unlike the claim.
PurgeDeletedHandles ==
    LET expired == {h \in reserved : deletedAt[h] < clock - Reservation} IN
    /\ "purgeHandles" \in Ops
    /\ expired # {}
    /\ reserved' = reserved \ expired
    /\ UNCHANGED <<clock, tokenVars, userVars, deletedAt, loginHist, claimHist,
                   lockVars, workVars>>
-------------------------------------------------------------------------------
Step(w) ==
    \/ LockLoginAddress(w) \/ CountRecent(w) \/ BudgetExceeded(w)
    \/ InvalidateTokens(w) \/ CommitRequest(w)
    \/ ConsumeToken(w) \/ InvalidToken(w) \/ UpsertUser(w) \/ CommitLogin(w)
    \/ LockUserForDelete(w) \/ UserNotFound(w) \/ ReserveHandle(w)
    \/ DeleteTokens(w) \/ DeleteUser(w) \/ CommitDelete(w)
    \/ ClaimCheck(w) \/ ClaimRow(w) \/ ClaimRefused(w) \/ ClaimApply(w)
    \/ PurgeTokens(w)

Start(w) ==
    \/ \E a \in Addr, k \in Token : BeginRequest(w, a, k)
    \/ \E k \in Token : BeginComplete(w, k)
    \/ \E a \in Addr : BeginDelete(w, a)
    \/ \E a \in Addr, h \in Handle : BeginClaim(w, a, h)
    \/ BeginPurgeTokens(w)

Next ==
    \/ \E w \in Worker : Start(w) \/ Step(w) \/ Abort(w)
    \/ PurgeDeletedHandles
    \/ Tick

Spec == Init /\ [][Next]_vars

\* The statement w is at finds the locks it asks for free, or asks for none.
Ready(w) ==
    \/ pc[w] \in {"rCount", "rCommit", "cCommit", "dReserve", "dUser", "dCommit", "hCheck"}
    \/ pc[w] = "rLock" /\ advisory[job[w].addr] = None
    \/ pc[w] = "rRetire" /\ Unlocked(w, OpenTokens(job[w].addr))
    \/ pc[w] = "cConsume" /\ (Consumable(w) => Unlocked(w, {job[w].tok}))
    \/ pc[w] = "cUpsert" /\ userLock[job[w].addr] = None
    \/ pc[w] = "dLock" /\ (acct[job[w].addr] = job[w].id => userLock[job[w].addr] = None)
    \/ pc[w] = "hRow" /\ (Claimable(w) => userLock[job[w].addr] = None)
    \/ pc[w] \in {"dTokens", "pApply"} /\ Unlocked(w, Wanted(w))
    \/ pc[w] = "hIndex" /\ ~HolderLeaving(w)

\* w waits for a lock v holds.
WaitsFor(w, v) ==
    \/ pc[w] = "rLock" /\ advisory[job[w].addr] = v
    \/ pc[w] = "rRetire" /\ rows[v] \cap OpenTokens(job[w].addr) # {}
    \/ pc[w] = "cConsume" /\ job[w].tok \in rows[v]
    \/ pc[w] \in {"cUpsert", "dLock", "hRow"} /\ userLock[job[w].addr] = v
    \/ pc[w] \in {"dTokens", "pApply"} /\ rows[v] \cap snap[w] # {}
    \/ pc[w] = "hIndex" /\ pc[v] = "dCommit" /\ job[v].addr \in Holders(w)

\* PostgreSQL's detector ends one of the two (Abort).
Deadlocked(w) == \E v \in Worker : v # w /\ WaitsFor(w, v) /\ WaitsFor(v, w)

Running == {w \in Worker : pc[w] # "idle"}
-------------------------------------------------------------------------------
(* Properties.                                                             *)

\* InvalidateLoginTokensForEmail: at most one link for an address works at a
\* time, whatever requests, logins and deletions overlap.
AtMostOneLiveLink ==
    \A k1, k2 \in Token :
        use[k1] = "open" /\ use[k2] = "open" /\ owner[k1] = owner[k2] => k1 = k2

\* ConsumeLoginToken: a link logs in at most once.
SingleUse == \A k \in Token : logins[k] <= 1

\* Links minted for a in the window that ends at n, of those of K.
Minted(a, n, K) ==
    {k \in K : /\ use[k] # "new"
               /\ owner[k] = a
               /\ n - LoginBudgetWindow < created[k] /\ created[k] <= n}

\* LoginBudget: over any window, whenever the transactions began and whatever
\* the purge dropped, an address gets at most LoginBudget links, not counting
\* the ones its owner threw away with the account.
InboxBudget ==
    \A a \in Addr, n \in 0..clock :
        Cardinality(Minted(a, n, {k \in Token : use[k] # "deleted"})) <= LoginBudget

\* LoginBudgetWindow: the last link of an address still works or was used, or
\* the window has room for another request.
WayIn ==
    \A a \in Addr :
        \/ Cardinality(Recent(a, clock)) < LoginBudget
        \/ /\ latest[a] # None
           /\ \/ use[latest[a]] = "open" /\ created[latest[a]] + TokenTTL > clock
              \/ use[latest[a]] = "spent"

\* DeleteLoginTokensForEmail: no link that was on record when the account was
\* deleted brings an account back, even one being spent at that moment.
NoResurrection ==
    [][\A a \in Addr, k \in condemned :
          acct[a] = 0 /\ acct'[a] # 0 => logins'[k] = logins[k]]_vars

\* users_handle_key: two accounts never have the same handle.
HandleUnique ==
    \A a, b \in Addr : handle[a] # None /\ handle[a] = handle[b] => a = b

\* A claim that does not overlap a deletion of the handle comes Reservation
\* after the last one, up to the skew of the two clocks, although the purge
\* drops reservations by the other clock.
HandleQuarantine ==
    \A a \in Addr \ raced :
        handle[a] # None => claimedAt[a] + MaxSkew >= lastDel[handle[a]] + Reservation

\* CompleteLogin locks a token and then the account, DeleteAccount the account and
\* then its tokens.  Still, whoever cannot go on waits for a transaction that is
\* running, and however many overlap, every cycle of waits has a pair in it, which
\* the deadlock detector ends.
Unstuck ==
    /\ \A w \in Running : Ready(w) \/ \E v \in Running : WaitsFor(w, v)
    /\ \A S \in (SUBSET Running) \ {{}} :
          \E w \in S : Deadlocked(w) \/ \A v \in S : ~WaitsFor(w, v)

\* Ready is what lets a running worker take its next step.
ReadyGoesOn == \A w \in Running : Ready(w) <=> ENABLED Step(w)

\* The same of the steps themselves: nobody is stuck for good.
NobodyStuck == ReadyGoesOn /\ Unstuck

\* InvalidateLoginTokensForEmail and ConsumeLoginToken together: one link of an
\* address works, and it works once.
LinkRules == AtMostOneLiveLink /\ SingleUse

\* users_handle_key and deleted_handles together: whatever claims, deletions and
\* purges overlap, a handle leads to one account, and a stranger's account takes it
\* over only after the quarantine.
HandleRules == HandleUnique /\ HandleQuarantine

\* The operation a worker at a statement is in.
OpOf == [label \in PC |->
    IF label \in {"rLock", "rCount", "rRetire", "rCommit"} THEN "request"
    ELSE IF label \in {"cConsume", "cUpsert", "cCommit"} THEN "complete"
    ELSE IF label \in {"dLock", "dReserve"} THEN "delete"
    ELSE IF label \in {"dTokens", "dUser", "dCommit"} THEN "deleting"
    ELSE IF label \in {"hCheck", "hRow", "hIndex"} THEN "claim"
    ELSE IF label = "pApply" THEN "purge" ELSE "none"]

\* What the worker has called, and the rows it has looked for.
CallOf(w) ==
    LET op == OpOf[pc[w]] IN
    [op |-> op, addr |-> job[w].addr, tok |-> job[w].tok, id |-> job[w].id,
     handle |-> IF op = "claim" THEN job[w].handle ELSE None,
     now |-> job[w].now, seen |-> snap[w]]

Calls == [w \in Worker |-> CallOf(w)]

Book == INSTANCE AccountBook WITH call <- Calls

\* READ COMMITTED is enough: with the locks they take, operations that overlap
\* statement by statement have the effects of operations that happen at once, one
\* after the other, as their commits do.  What a transaction counted, read or
\* matched is still so when it commits.
Serializable == Book!Spec
===============================================================================
