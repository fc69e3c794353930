------------------------------ MODULE Guestbook ------------------------------
(***************************************************************************)
(* Guestbooks: signing a page found by its handle, the owner's hiding and  *)
(* showing, and the two lists, while accounts are claimed and deleted.  A  *)
(* request first reads its account (the CurrentUser middleware) and then   *)
(* runs one statement per action.  A deletion is a transaction: it locks   *)
(* the account, deletes it, and the two cascades lock the entries one by   *)
(* one until it commits or rolls back.                                     *)
(***************************************************************************)
EXTENDS Naturals, FiniteSets

CONSTANTS
    Account,     \* accounts; an id is never used twice
    Handle,      \* names of pages
    Visitor,     \* browsers, with one request at a time each
    MaxEntries,  \* bound: entries ever written
    PageLimit,   \* entries a public page shows
    OwnerLimit,  \* entries the dashboard lists
    None         \* no value

ASSUME NoneAssumption == None \notin Account \cup Handle \cup Visitor
ASSUME LimitAssumption ==
    MaxEntries \in Nat /\ PageLimit \in Nat /\ OwnerLimit \in Nat

VARIABLES
    user,        \* state and handle of each account
    entry,       \* guestbook_entries, in the order of created_at
    req,         \* the request of each visitor
    rowLock,     \* who holds FOR UPDATE on an account
    entryLock    \* who deletes an entry in a transaction that is not over

vars == <<user, entry, req, rowLock, entryLock>>

Entry == 1..MaxEntries
NoUser == [state |-> "gone", handle |-> None]
NoEntry == [state |-> "free", page |-> None, author |-> None]
NoRequest == [op |-> "none", at |-> "idle", who |-> None, active |-> FALSE,
              handle |-> None, entry |-> None, owner |-> None]

Ops == {"none", "sign", "hide", "show", "delete"}
Steps == {"idle", "owner", "insert", "update", "lock", "page", "author", "commit"}

Stored(e) == entry[e].state \in {"visible", "hidden"}
Exists(a) == user[a].state # "gone"

TypeOK ==
    /\ user \in [Account -> [state : {"pending", "active", "gone"}, handle : Handle \cup {None}]]
    /\ entry \in [Entry -> [state : {"free", "visible", "hidden", "deleted"},
                            page : Account \cup {None}, author : Account \cup {None}]]
    /\ req \in [Visitor ->
          [op : Ops, at : Steps, who : Account \cup {None}, active : BOOLEAN,
           handle : Handle \cup {None}, entry : Entry \cup {None},
           owner : Account \cup {None}]]
    /\ rowLock \in [Account -> Visitor \cup {None}]
    /\ entryLock \in [Entry -> Visitor \cup {None}]

\* Some accounts have their handle, others have still to pick one.
Init ==
    /\ user \in [Account -> [state : {"pending"}, handle : {None}]
                            \cup [state : {"active"}, handle : Handle]]
    /\ \A a, b \in Account : a # b /\ user[a].handle = user[b].handle => user[a].handle = None
    /\ entry = [e \in Entry |-> NoEntry]
    /\ req = [v \in Visitor |-> NoRequest]
    /\ rowLock = [a \in Account |-> None]
    /\ entryLock = [e \in Entry |-> None]
------------------------------------------------------------------------------
(* The lists.                                                              *)

Newest(S, n) == {e \in S : Cardinality({f \in S : f > e}) < n}

OnPage(a) == {e \in Entry : Stored(e) /\ entry[e].page = a}

Visible(a) == Newest({e \in OnPage(a) : entry[e].state = "visible"}, PageLimit)

Own(a) == Newest(OnPage(a), OwnerLimit)
------------------------------------------------------------------------------
(* Requests.                                                               *)

\* UserFrom: None without a session; the account's row is read only here.
Arrive(v, op, who, h, e, step) ==
    /\ req[v] = NoRequest
    /\ who # None => Exists(who)
    /\ req' = [req EXCEPT ![v] =
          [op |-> op, at |-> step, who |-> who,
           active |-> IF who = None THEN FALSE ELSE user[who].state = "active",
           handle |-> h, entry |-> e, owner |-> None]]
    /\ UNCHANGED <<user, entry, rowLock, entryLock>>

SendSign(v, who, h) == Arrive(v, "sign", who, h, None, "owner")

SendModerate(v, who, e) ==
    \E op \in {"hide", "show"} : Stored(e) /\ Arrive(v, op, who, None, e, "update")

SendDelete(v, who) == who # None /\ Arrive(v, "delete", who, None, None, "lock")

At(v, op, step) == req[v].op = op /\ req[v].at = step

\* The answer, and the end of whatever transaction there was.
Reply(v) ==
    /\ req' = [req EXCEPT ![v] = NoRequest]
    /\ rowLock' = [a \in Account |-> IF rowLock[a] = v THEN None ELSE rowLock[a]]
    /\ entryLock' = [e \in Entry |-> IF entryLock[e] = v THEN None ELSE entryLock[e]]

Refuse(v) == Reply(v) /\ UNCHANGED <<user, entry>>
------------------------------------------------------------------------------
(* handleGuestbookSign                                                     *)

Holder(h) == {a \in Account : Exists(a) /\ user[a].handle = h}

guestbookOwner(v) == Holder(req[v].handle)

guestbookState(v, a) == req[v].who # None /\ req[v].active /\ req[v].who # a

ResolveOwner(v) ==
    /\ At(v, "sign", "owner")
    /\ \E a \in guestbookOwner(v) :
          /\ guestbookState(v, a)
          /\ req' = [req EXCEPT ![v].at = "insert", ![v].owner = a, ![v].handle = None]
    /\ UNCHANGED <<user, entry, rowLock, entryLock>>

\* No such page, not signed in, no handle, or the visitor's own page.
SignRefused(v) ==
    /\ At(v, "sign", "owner")
    /\ \A a \in guestbookOwner(v) : ~guestbookState(v, a)
    /\ Refuse(v)

\* Defect: no foreign key on either account.
MayInsertAlways(v) == TRUE

\* The foreign keys: the statement waits for a deletion of either account, and
\* fails when it went through.
MayInsert(v) == Exists(req[v].owner) /\ Exists(req[v].who)

Unlocked(v) == rowLock[req[v].owner] = None /\ rowLock[req[v].who] = None

Sign(v) ==
    /\ At(v, "sign", "insert") /\ Unlocked(v) /\ MayInsert(v)
    /\ \E e \in Entry :
          /\ entry[e] = NoEntry /\ \A f \in 1..(e - 1) : entry[f] # NoEntry
          /\ entry' = [entry EXCEPT ![e] =
                [state |-> "visible", page |-> req[v].owner, author |-> req[v].who]]
    /\ Reply(v) /\ UNCHANGED user

\* ErrInvalidBody, a foreign key violation, or the database.
SignFails(v) == At(v, "sign", "insert") /\ Refuse(v)
------------------------------------------------------------------------------
(* setGuestbookEntryHidden                                                 *)

MayModerate(v) == req[v].who # None /\ req[v].active

SetGuestbookEntryState(v) ==
    {e \in {req[v].entry} : Stored(e) /\ entry[e].page = req[v].who}

NewState(v) == IF req[v].op = "hide" THEN "hidden" ELSE "visible"

setState(v) ==
    /\ req[v].op \in {"hide", "show"} /\ req[v].at = "update" /\ MayModerate(v)
    /\ \E e \in SetGuestbookEntryState(v) :
          /\ entryLock[e] = None
          /\ entry' = [entry EXCEPT ![e].state = NewState(v)]
    /\ Reply(v) /\ UNCHANGED user

\* Not signed in, no handle, ErrEntryNotFound, or the database.
ModerateRefused(v) ==
    /\ req[v].op \in {"hide", "show"} /\ req[v].at = "update"
    /\ Refuse(v)
------------------------------------------------------------------------------
(* DeleteAccount                                                           *)

Goto(v, step) == req' = [req EXCEPT ![v].at = step]

LockUserForDelete(v) ==
    /\ At(v, "delete", "lock") /\ Exists(req[v].who) /\ rowLock[req[v].who] = None
    /\ rowLock' = [rowLock EXCEPT ![req[v].who] = v]
    /\ Goto(v, "page")
    /\ UNCHANGED <<user, entry, entryLock>>

AlreadyGone(v) == At(v, "delete", "lock") /\ ~Exists(req[v].who) /\ Refuse(v)

\* The rows a cascade has still to delete: of the page first, then of the author.
Todo(v) ==
    {e \in Entry : Stored(e) /\ entryLock[e] # v /\
        IF req[v].at = "page" THEN entry[e].page = req[v].who
                              ELSE req[v].at = "author" /\ entry[e].author = req[v].who}

\* Each row is chosen by the scan, and then waited for.
ScanRow(v) ==
    /\ req[v].op = "delete" /\ req[v].entry = None
    /\ \E e \in Todo(v) : req' = [req EXCEPT ![v].entry = e]
    /\ UNCHANGED <<user, entry, rowLock, entryLock>>

DeleteRow(v) ==
    /\ req[v].op = "delete" /\ req[v].entry # None
    /\ entryLock[req[v].entry] = None
    /\ req' = [req EXCEPT ![v].entry = None]
    /\ entryLock' = IF Stored(req[v].entry)
                    THEN [entryLock EXCEPT ![req[v].entry] = v] ELSE entryLock
    /\ UNCHANGED <<user, entry, rowLock>>

CascadeDone(v) ==
    /\ req[v].op = "delete" /\ req[v].at \in {"page", "author"} /\ req[v].entry = None
    /\ Todo(v) = {}
    /\ Goto(v, IF req[v].at = "page" THEN "author" ELSE "commit")
    /\ UNCHANGED <<user, entry, rowLock, entryLock>>

Commit(v) ==
    /\ At(v, "delete", "commit")
    /\ user' = [user EXCEPT ![req[v].who] = NoUser]
    /\ entry' = [e \in Entry |->
          IF entryLock[e] = v THEN [entry[e] EXCEPT !.state = "deleted"] ELSE entry[e]]
    /\ Reply(v)

InTransaction(v) == req[v].op = "delete" /\ req[v].at \in {"page", "author", "commit"}

\* Defect: every entry a cascade reached is lost with the rollback.
RollbackPartly(v) ==
    /\ InTransaction(v) \/ At(v, "delete", "lock")
    /\ entry' = [e \in Entry |->
          IF entryLock[e] = v THEN [entry[e] EXCEPT !.state = "deleted"] ELSE entry[e]]
    /\ Reply(v) /\ UNCHANGED user

\* Defect: no deferred Rollback, the transaction stays open.
DeleteFailsOpen(v) ==
    /\ InTransaction(v) \/ At(v, "delete", "lock")
    /\ req' = [req EXCEPT ![v] = NoRequest]
    /\ UNCHANGED <<user, entry, rowLock, entryLock>>

\* Any statement may fail; the deferred Rollback undoes the others.
DeleteFails(v) == (InTransaction(v) \/ At(v, "delete", "lock")) /\ Refuse(v)

WaitsFor(v, w) ==
    req[v].op = "delete" /\ req[v].entry # None /\ v # w /\ entryLock[req[v].entry] = w

\* The database breaks a cycle of transactions that wait for each other.
DeadlockAbort(v) ==
    /\ \E S \in SUBSET Visitor :
          v \in S /\ \A x \in S : \E y \in S : WaitsFor(x, y)
    /\ Refuse(v)
------------------------------------------------------------------------------
(* ClaimHandle, as far as pages depend on it; a handle comes free with its *)
(* account (after the reservation, which Accounts models).                 *)

Claim(a, h) ==
    /\ user[a].state = "pending" /\ Holder(h) = {} /\ rowLock[a] = None
    /\ user' = [user EXCEPT ![a] = [state |-> "active", handle |-> h]]
    /\ UNCHANGED <<entry, req, rowLock, entryLock>>
------------------------------------------------------------------------------
Arrivals(v) ==
    \E who \in Account \cup {None} :
        \/ \E h \in Handle : SendSign(v, who, h)
        \/ \E e \in Entry : SendModerate(v, who, e)
        \/ SendDelete(v, who)

\* The steps that carry a request on without anything failing.
Serve(v) ==
    \/ ResolveOwner(v) \/ SignRefused(v) \/ Sign(v) \/ setState(v)
    \/ LockUserForDelete(v) \/ AlreadyGone(v)
    \/ ScanRow(v) \/ DeleteRow(v) \/ CascadeDone(v) \/ Commit(v)

Next ==
    \/ \E v \in Visitor :
          \/ Arrivals(v) \/ Serve(v)
          \/ SignFails(v) \/ ModerateRefused(v) \/ DeleteFails(v) \/ DeadlockAbort(v)
    \/ \E a \in Account, h \in Handle : Claim(a, h)

Spec == Init /\ [][Next]_vars

\* Statements are carried out, locks are granted in the order they were asked
\* for (so nobody is passed over for ever), and a deadlock is detected.  Failures
\* are not required, and neither are requests.
FairSpec == Spec /\ \A v \in Visitor : SF_vars(Serve(v)) /\ WF_vars(DeadlockAbort(v))
------------------------------------------------------------------------------
\* migrations/00006, "no row is ever left pointing at an account that is gone",
\* although an entry is being written while either account is being deleted.
NoOrphanEntry ==
    \A e \in Entry : Stored(e) => Exists(entry[e].page) /\ Exists(entry[e].author)

\* Every entry a list shows links to its author's page, which exists: the
\* author had a handle when signing and cannot lose it before the entry goes.
AuthorNamed == \A e \in Entry : Stored(e) => user[entry[e].author].state = "active"

\* Every entry a public page shows is one its owner's dashboard offers to hide,
\* as long as the hidden entries leave room for it.
ShownIsListed ==
    \A a \in Account :
        Cardinality({e \in OnPage(a) : entry[e].state = "hidden"}) + PageLimit <= OwnerLimit
            => Visible(a) \subseteq Own(a)

\* e changes between hidden and visible by a request of the owner of its page.
ByOwner(e) ==
    entry'[e].state \in {"visible", "hidden"} /\ entry'[e] # entry[e]
        => \E v \in Visitor : req[v].entry = e /\ req[v].who = entry[e].page /\ req'[v] = NoRequest

\* e disappears with an account it belongs to.
WithAccount(e) ==
    entry'[e].state = "deleted"
        => \E a \in {entry[e].page, entry[e].author} : Exists(a) /\ user'[a] = NoUser

\* SetGuestbookEntryState and DeleteAccount: only the owner of the page hides and
\* shows an entry, whoever posts its id, and only the deletion of one of its two
\* accounts removes it; a deletion that fails half way takes nothing with it.
EntriesGuarded == [][\A e \in Entry : Stored(e) => ByOwner(e) /\ WithAccount(e)]_vars

\* Two people who signed each other's book delete their accounts at once: the
\* cascades take the two entries in opposite orders, and still both requests end.
DeletionEnds == \A v \in Visitor : req[v].op = "delete" ~> req[v] = NoRequest

\* The book stays whole: entries have both accounts, authors have pages, and what
\* visitors see the owner can reach.
BookIntact == TypeOK /\ NoOrphanEntry /\ AuthorNamed /\ ShownIsListed
==============================================================================
