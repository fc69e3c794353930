------------------------------ MODULE PageProofs ------------------------------
(***************************************************************************)
(* What visitors leave and see on a public page, for every instance.       *)
(*                                                                         *)
(* The guestbook stays whole.  The argument: a deletion holds the lock of  *)
(* its account until it ends, so nobody can sign for that account          *)
(* meanwhile; each cascade that is done has locked every entry there is of *)
(* its account; and so the commit takes exactly the entries of the account *)
(* it deletes.                                                             *)
(*                                                                         *)
(* A cache never keeps that the account's photo does not exist.  The       *)
(* argument: no key is handed out twice, a file is written before its row  *)
(* and removed after the row has changed, and a cache asks for a file only *)
(* when its key was in the row; so what is not found was replaced.         *)
(***************************************************************************)
EXTENDS Guestbook, PublicCache, FiniteSetTheorems, TLAPS

\* A request for an account carries it.
Carried ==
    \A v \in Visitor :
        /\ req[v].op = "delete" =>
              /\ req[v].who \in Account
              /\ req[v].at \in {"lock", "page", "author", "commit"}
        /\ req[v].op \in {"hide", "show"} => req[v].entry \in Entry
        /\ At(v, "sign", "insert") =>
              req[v].who \in Account /\ req[v].owner \in Account /\ req[v].active

\* Who had a handle when the request arrived has it until the account is deleted.
HandleKept ==
    \A v \in Visitor : req[v].active =>
        req[v].who \in Account /\ (Exists(req[v].who) => user[req[v].who].state = "active")

\* A deletion has locked its account, which exists until the commit.
Locked ==
    \A v \in Visitor : InTransaction(v) =>
        Exists(req[v].who) /\ rowLock[req[v].who] = v

Belongs(e, a) == entry[e].page = a \/ entry[e].author = a

\* The entry a cascade waits for is one of its account's, if it still is there.
Scanned ==
    \A v \in Visitor : req[v].op = "delete" /\ req[v].entry # None =>
        InTransaction(v) /\ Belongs(req[v].entry, req[v].who)

\* A deletion locks entries of its account, and nothing happens to them meanwhile.
Held ==
    \A e \in Entry : entryLock[e] # None =>
        /\ Stored(e) /\ InTransaction(entryLock[e])
        /\ Belongs(e, req[entryLock[e]].who)

\* A cascade that is done has left nothing out.
Swept ==
    \A v \in Visitor, e \in Entry : InTransaction(v) /\ Stored(e) =>
        /\ req[v].at \in {"author", "commit"} /\ entry[e].page = req[v].who
              => entryLock[e] = v
        /\ req[v].at = "commit" /\ entry[e].author = req[v].who => entryLock[e] = v

\* A stored entry has two accounts, and its author a page.
Owned ==
    \A e \in Entry : Stored(e) =>
        /\ entry[e].page \in Account /\ entry[e].author \in Account
        /\ Exists(entry[e].page) /\ user[entry[e].author].state = "active"

BookInv ==
    /\ TypeOK /\ Carried /\ HandleKept /\ Locked
    /\ Scanned /\ Held /\ Swept /\ Owned
------------------------------------------------------------------------------
\* No request, no entry and no lock at the start.
LEMMA InitBook == Init => BookInv
<1> SUFFICES ASSUME Init PROVE  BookInv
  OBVIOUS
<1>1. TypeOK
  <2>1. user \in [Account -> [state : {"pending", "active", "gone"}, handle : Handle \cup {None}]]
    BY DEF Init
  <2> QED
    BY <2>1 DEF Init, TypeOK, NoEntry, NoRequest, Ops, Steps
<1>2. Carried /\ HandleKept /\ Locked /\ Scanned /\ Held /\ Swept /\ Owned
  BY DEF Init, Carried, At, HandleKept, Locked, Scanned, Held, Swept, Owned,
         InTransaction, Stored, NoEntry, NoRequest
<1> QED
  BY <1>1, <1>2 DEF BookInv

Requests ==
    [op : Ops, at : Steps, who : Account \cup {None}, active : BOOLEAN,
     handle : Handle \cup {None}, entry : Entry \cup {None}, owner : Account \cup {None}]

\* A request stays one when a field of it changes.
LEMMA RequestFields ==
    ASSUME NEW q \in Requests
    PROVE  /\ \A step \in Steps : [q EXCEPT !.at = step] \in Requests
           /\ \A e \in Entry \cup {None} : [q EXCEPT !.entry = e] \in Requests
           /\ \A a \in Account :
                 [q EXCEPT !.at = "insert", !.owner = a, !.handle = None] \in Requests
  BY DEF Requests, Steps

LEMMA NewRequest ==
    ASSUME NEW op \in Ops, NEW step \in Steps, NEW who \in Account \cup {None},
           NEW act \in BOOLEAN, NEW h \in Handle \cup {None}, NEW e \in Entry \cup {None}
    PROVE  [op |-> op, at |-> step, who |-> who, active |-> act, handle |-> h,
            entry |-> e, owner |-> None] \in Requests
  BY DEF Requests

\* What is left of TypeOK when one request changes.
LEMMA OneRequest ==
    ASSUME TypeOK, NEW v \in Visitor, NEW r \in Requests, req' = [req EXCEPT ![v] = r],
           UNCHANGED <<user, entry>>,
           rowLock' \in [Account -> Visitor \cup {None}],
           entryLock' \in [Entry -> Visitor \cup {None}]
    PROVE  TypeOK' /\ req'[v] = r /\ \A w \in Visitor \ {v} : req'[w] = req[w]
<1>1. req \in [Visitor -> Requests]
  BY DEF TypeOK, Requests
<1>2. req' \in [Visitor -> Requests]
  BY <1>1
<1>3. TypeOK'
  BY <1>2 DEF TypeOK, Requests
<1> QED
  BY <1>1, <1>3

Users == [state : {"pending", "active", "gone"}, handle : Handle \cup {None}]
Entries ==
    [state : {"free", "visible", "hidden", "deleted"},
     page : Account \cup {None}, author : Account \cup {None}]

\* What is left of TypeOK when a request is answered.
LEMMA Answered ==
    ASSUME TypeOK, NEW v \in Visitor, Reply(v),
           user' \in [Account -> Users], entry' \in [Entry -> Entries]
    PROVE  TypeOK'
<1>1. req \in [Visitor -> Requests] /\ NoRequest \in Requests
  BY DEF TypeOK, Requests, NoRequest, Ops, Steps
<1>2. req' \in [Visitor -> Requests]
  BY <1>1 DEF Reply
<1>3. rowLock' \in [Account -> Visitor \cup {None}]
      /\ entryLock' \in [Entry -> Visitor \cup {None}]
  BY DEF Reply, TypeOK
<1> QED
  BY <1>2, <1>3 DEF TypeOK, Requests, Users, Entries

\* A request arrives with the account it was sent for.
LEMMA ArriveStep ==
    ASSUME BookInv,
           NEW v \in Visitor, Arrivals(v)
    PROVE  BookInv'
<1> USE DEF BookInv
<1>0. PICK op \in Ops, who \in Account \cup {None}, h \in Handle \cup {None},
           e \in Entry \cup {None}, step \in {"owner", "update", "lock"} :
        /\ Arrive(v, op, who, h, e, step)
        /\ op = "delete" <=> step = "lock"
        /\ op = "delete" => who \in Account /\ e = None
        /\ op \in {"hide", "show"} => e \in Entry
  BY DEF Arrivals, SendSign, SendModerate, SendDelete, Ops
<1> DEFINE act == IF who = None THEN FALSE ELSE user[who].state = "active"
<1> DEFINE r == [op |-> op, at |-> step, who |-> who, active |-> act, handle |-> h,
                 entry |-> e, owner |-> None]
<1>a. act \in BOOLEAN /\ (act => who \in Account /\ user[who].state = "active")
  OBVIOUS
<1>b. req' = [req EXCEPT ![v] = r] /\ UNCHANGED <<user, entry, rowLock, entryLock>>
  BY <1>0 DEF Arrive
<1>c. r.op = op /\ r.at = step /\ r.who = who /\ r.entry = e
  OBVIOUS
<1>d. r.active => act
  OBVIOUS
<1> HIDE DEF act
<1>e. r \in Requests
  BY <1>a, NewRequest DEF Steps
<1> HIDE DEF r
<1>1. TypeOK'
  BY <1>b, <1>e, OneRequest DEF TypeOK
<1>2. /\ \A w \in Visitor \ {v} : req'[w] = req[w]
      /\ req[v] = NoRequest /\ UNCHANGED <<user, entry, rowLock, entryLock>>
      /\ req'[v].op = op /\ req'[v].at = step /\ req'[v].who = who /\ req'[v].entry = e
      /\ NoRequest.op = "none"
      /\ req'[v].active => who \in Account /\ user[who].state = "active"
  <2>1. req'[v] = r /\ \A w \in Visitor \ {v} : req'[w] = req[w]
    BY <1>b, <1>e, OneRequest DEF TypeOK
  <2> QED
    BY <1>0, <1>a, <1>b, <1>c, <1>d, <2>1 DEF Arrive, NoRequest
<1>3. Carried'
  BY <1>0, <1>2, NoneAssumption DEF Carried, At, TypeOK
<1>4. HandleKept'
  BY <1>0, <1>2, NoneAssumption DEF HandleKept, Exists, TypeOK
<1>5. Locked'
  BY <1>0, <1>2, NoneAssumption DEF Locked, Carried, InTransaction, Exists, TypeOK
<1>6. Scanned'
  BY <1>0, <1>2, NoneAssumption DEF Scanned, InTransaction, Belongs, TypeOK
<1>7. Held'
  BY <1>0, <1>2, NoneAssumption DEF Held, InTransaction, Belongs, Stored, TypeOK
<1>8. Swept'
  BY <1>0, <1>2, NoneAssumption DEF Swept, InTransaction, Stored, TypeOK
<1>9. Owned'
  BY <1>0, <1>2, NoneAssumption DEF Owned, Exists, Stored, TypeOK
<1> QED
  BY <1>1, <1>3, <1>4, <1>5, <1>6, <1>7, <1>8, <1>9

\* An answer that changes nothing in the tables, and the rollback of a deletion:
\* its locks go, and with them all it claimed.
LEMMA RefuseStep ==
    ASSUME BookInv, NEW v \in Visitor, Refuse(v)
    PROVE  BookInv'
<1> USE DEF BookInv
<1>1. TypeOK'
  BY DEF Refuse, Reply, NoRequest, TypeOK, Ops, Steps
<1>2. /\ \A w \in Visitor \ {v} : req'[w] = req[w]
      /\ req'[v] = NoRequest
      /\ NoRequest.op = "none" /\ NoRequest.at = "idle" /\ NoRequest.active = FALSE
      /\ \A a \in Account : rowLock'[a] = IF rowLock[a] = v THEN None ELSE rowLock[a]
      /\ \A f \in Entry : entryLock'[f] = IF entryLock[f] = v THEN None ELSE entryLock[f]
      /\ UNCHANGED <<user, entry>>
  BY DEF Refuse, Reply, NoRequest, TypeOK
<1>3. Carried'
  BY <1>2, NoneAssumption DEF Carried, At, TypeOK
<1>4. HandleKept'
  BY <1>2, NoneAssumption DEF HandleKept, Exists, TypeOK
<1>5. Locked'
  BY <1>2, NoneAssumption DEF Locked, Carried, InTransaction, Exists, TypeOK
<1>6. Scanned'
  BY <1>2, NoneAssumption DEF Scanned, InTransaction, Belongs, TypeOK
<1>7. Held'
  BY <1>2, NoneAssumption DEF Held, InTransaction, Belongs, Stored, TypeOK
<1>8. Swept'
  BY <1>2, NoneAssumption DEF Swept, InTransaction, Stored, TypeOK
<1>9. Owned'
  BY <1>2, NoneAssumption DEF Owned, Exists, Stored, TypeOK
<1> QED
  BY <1>1, <1>3, <1>4, <1>5, <1>6, <1>7, <1>8, <1>9

\* The page is found by its handle, and the signer is not its owner.
LEMMA ResolveStep ==
    ASSUME BookInv, NEW v \in Visitor, ResolveOwner(v)
    PROVE  BookInv'
<1> USE DEF BookInv
<1>0. PICK a \in Account :
        /\ Holder(req[v].handle) # {} /\ guestbookState(v, a)
        /\ req' = [req EXCEPT ![v].at = "insert", ![v].owner = a, ![v].handle = None]
  BY DEF ResolveOwner, guestbookOwner, Holder
<1> DEFINE r == [req[v] EXCEPT !.at = "insert", !.owner = a, !.handle = None]
<1>a. req[v] \in Requests
  BY DEF TypeOK, Requests
<1>b. r \in Requests
  BY <1>a, RequestFields
<1>c. req' = [req EXCEPT ![v] = r]
  BY <1>0 DEF TypeOK
<1>d. /\ r.op = req[v].op /\ r.who = req[v].who /\ r.active = req[v].active
      /\ r.owner = a /\ r.at = "insert"
  BY <1>a DEF Requests
<1> HIDE DEF r
<1>e. TypeOK' /\ req'[v] = r /\ \A w \in Visitor \ {v} : req'[w] = req[w]
  BY <1>b, <1>c, OneRequest DEF ResolveOwner, TypeOK
<1>1. TypeOK'
  BY <1>e
<1>2. /\ \A w \in Visitor \ {v} : req'[w] = req[w]
      /\ UNCHANGED <<user, entry, rowLock, entryLock>>
      /\ req[v].op = "sign" /\ req'[v].op = "sign"
      /\ req'[v].who = req[v].who /\ req'[v].active = req[v].active /\ req[v].active
      /\ req'[v].owner \in Account /\ req'[v].at = "insert" /\ req[v].at = "owner"
  BY <1>0, <1>d, <1>e DEF ResolveOwner, guestbookState, At
<1>3. Carried'
  <2>1. req[v].who \in Account
    BY <1>2 DEF HandleKept
  <2>2. ASSUME NEW w \in Visitor
        PROVE  /\ req'[w].op = "delete" =>
                     /\ req'[w].who \in Account
                     /\ req'[w].at \in {"lock", "page", "author", "commit"}
               /\ req'[w].op \in {"hide", "show"} => req'[w].entry \in Entry
               /\ req'[w].op = "sign" /\ req'[w].at = "insert" =>
                     req'[w].who \in Account /\ req'[w].owner \in Account /\ req'[w].active
    <3>1. CASE w = v
      BY <1>2, <2>1, <3>1
    <3>2. CASE w # v
      BY <1>2, <3>2 DEF Carried, At
    <3> QED
      BY <3>1, <3>2
  <2> QED
    BY <2>2 DEF Carried, At
<1>4. HandleKept'
  BY <1>2, NoneAssumption DEF HandleKept, Exists, TypeOK
<1>5. Locked'
  BY <1>2, NoneAssumption DEF Locked, Carried, InTransaction, Exists, TypeOK
<1>6. Scanned'
  BY <1>2, NoneAssumption DEF Scanned, InTransaction, Belongs, TypeOK
<1>7. Held'
  BY <1>2, NoneAssumption DEF Held, InTransaction, Belongs, Stored, TypeOK
<1>8. Swept'
  BY <1>2, NoneAssumption DEF Swept, InTransaction, Stored, TypeOK
<1>9. Owned'
  BY <1>2, NoneAssumption DEF Owned, Exists, Stored, TypeOK
<1> QED
  BY <1>1, <1>3, <1>4, <1>5, <1>6, <1>7, <1>8, <1>9

\* An entry is written while neither account is being deleted.
LEMMA SignStep ==
    ASSUME BookInv, NEW v \in Visitor, Sign(v)
    PROVE  BookInv'
<1> USE DEF BookInv
<1>1. TypeOK'
  BY DEF Sign, Reply, At, Carried, NoRequest, TypeOK, Ops, Steps
<1>2. PICK e \in Entry :
      /\ \A w \in Visitor \ {v} : req'[w] = req[w]
      /\ req'[v] = NoRequest
      /\ NoRequest.op = "none" /\ NoRequest.at = "idle" /\ NoRequest.active = FALSE
      /\ \A a \in Account : rowLock'[a] = IF rowLock[a] = v THEN None ELSE rowLock[a]
      /\ \A f \in Entry : entryLock'[f] = IF entryLock[f] = v THEN None ELSE entryLock[f]
      /\ At(v, "sign", "insert") /\ Unlocked(v) /\ MayInsert(v) /\ UNCHANGED user
      /\ entry[e] = NoEntry /\ NoEntry.state = "free"
      /\ NoEntry.page = None /\ NoEntry.author = None
      /\ entry'[e].state = "visible"
      /\ entry'[e].page = req[v].owner /\ entry'[e].author = req[v].who
      /\ \A f \in Entry \ {e} : entry'[f] = entry[f]
  BY DEF Sign, Reply, NoRequest, NoEntry, TypeOK
<1>3. Carried'
  BY <1>2, NoneAssumption DEF Carried, At, TypeOK
<1>4. HandleKept'
  BY <1>2, NoneAssumption DEF HandleKept, Exists, TypeOK
<1>5. Locked'
  BY <1>2, NoneAssumption DEF Locked, Carried, InTransaction, Exists, TypeOK
<1>6. Scanned'
  BY <1>2, NoneAssumption DEF Scanned, InTransaction, Belongs, TypeOK, Carried
<1>7. Held'
  <2> SUFFICES ASSUME NEW f \in Entry, entryLock'[f] # None
               PROVE  /\ Stored(f)' /\ InTransaction(entryLock[f])'
                      /\ Belongs(f, req[entryLock[f]].who)'
    BY DEF Held
  <2>1. entryLock'[f] = entryLock[f] /\ entryLock[f] \in Visitor \ {v}
    BY <1>2 DEF TypeOK
  <2>2. Stored(f) /\ InTransaction(entryLock[f]) /\ Belongs(f, req[entryLock[f]].who)
    BY <2>1, NoneAssumption DEF Held
  <2>3. entry'[f] = entry[f]
    BY <1>2, <2>2 DEF Stored
  <2> QED
    BY <1>2, <2>1, <2>2, <2>3 DEF Stored, InTransaction, Belongs
<1>8. Swept'
  BY <1>2, NoneAssumption DEF Swept, InTransaction, Stored, TypeOK, Carried, Locked, Unlocked, At
<1>9. Owned'
  BY <1>2, NoneAssumption DEF Owned, Exists, Stored, TypeOK, Carried, HandleKept, MayInsert, At
<1> QED
  BY <1>1, <1>3, <1>4, <1>5, <1>6, <1>7, <1>8, <1>9

\* Hiding and showing leave an entry where it is.
LEMMA ModerateStep ==
    ASSUME BookInv, NEW v \in Visitor, setState(v)
    PROVE  BookInv'
<1> USE DEF BookInv
<1>1. TypeOK'
  <2>1. PICK e \in Entry : entry' = [entry EXCEPT ![e].state = NewState(v)]
    BY DEF setState, SetGuestbookEntryState, Carried
  <2>2. entry \in [Entry -> Entries] /\ user \in [Account -> Users]
    BY DEF TypeOK, Entries, Users
  <2>3. [entry[e] EXCEPT !.state = NewState(v)] \in Entries
    BY <2>2 DEF Entries, NewState
  <2>4. entry' \in [Entry -> Entries]
    BY <2>1, <2>2, <2>3
  <2> QED
    BY <2>2, <2>4, Answered DEF setState
<1>2. PICK e \in Entry :
      /\ \A w \in Visitor \ {v} : req'[w] = req[w]
      /\ req'[v] = NoRequest
      /\ NoRequest.op = "none" /\ NoRequest.at = "idle" /\ NoRequest.active = FALSE
      /\ \A a \in Account : rowLock'[a] = IF rowLock[a] = v THEN None ELSE rowLock[a]
      /\ \A f \in Entry : entryLock'[f] = IF entryLock[f] = v THEN None ELSE entryLock[f]
      /\ UNCHANGED user
      /\ Stored(e) /\ entryLock[e] = None /\ entry'[e].state \in {"visible", "hidden"}
      /\ entry'[e].page = entry[e].page /\ entry'[e].author = entry[e].author
      /\ \A f \in Entry \ {e} : entry'[f] = entry[f]
  BY DEF setState, SetGuestbookEntryState, NewState, Reply, NoRequest, Carried, TypeOK
<1>3. Carried'
  BY <1>2, NoneAssumption DEF Carried, At, TypeOK
<1>4. HandleKept'
  BY <1>2, NoneAssumption DEF HandleKept, Exists, TypeOK
<1>5. Locked'
  BY <1>2, NoneAssumption DEF Locked, Carried, InTransaction, Exists, TypeOK
<1>6. Scanned'
  <2>1. \A f \in Entry : entry'[f].page = entry[f].page /\ entry'[f].author = entry[f].author
    BY <1>2
  <2> QED
    BY <1>2, <2>1 DEF Scanned, InTransaction, Belongs, TypeOK
<1>7. Held'
  BY <1>2, NoneAssumption DEF Held, InTransaction, Belongs, Stored, TypeOK
<1>8. Swept'
  BY <1>2, NoneAssumption DEF Swept, InTransaction, Stored, TypeOK
<1>9. Owned'
  BY <1>2, NoneAssumption DEF Owned, Exists, Stored, TypeOK
<1> QED
  BY <1>1, <1>3, <1>4, <1>5, <1>6, <1>7, <1>8, <1>9

\* The deletion locks its account.
LEMMA LockStep ==
    ASSUME BookInv, NEW v \in Visitor, LockUserForDelete(v)
    PROVE  BookInv'
<1> USE DEF BookInv
<1>1. TypeOK'
  <2>1. req[v] \in Requests
    BY DEF TypeOK, Requests
  <2>2. [req[v] EXCEPT !.at = "page"] \in Requests
    BY <2>1, RequestFields DEF Steps
  <2>3. req' = [req EXCEPT ![v] = [req[v] EXCEPT !.at = "page"]]
    BY DEF LockUserForDelete, Goto
  <2>4. /\ UNCHANGED <<user, entry, entryLock>>
        /\ rowLock' \in [Account -> Visitor \cup {None}]
        /\ entryLock \in [Entry -> Visitor \cup {None}]
    BY DEF LockUserForDelete, TypeOK
  <2> QED
    BY <2>2, <2>3, <2>4, OneRequest
<1>2. /\ \A w \in Visitor \ {v} : req'[w] = req[w]
      /\ req'[v].op = req[v].op /\ req'[v].who = req[v].who /\ req'[v].active = req[v].active /\ req'[v].entry = req[v].entry
      /\ At(v, "delete", "lock") /\ Exists(req[v].who) /\ rowLock[req[v].who] = None
      /\ req'[v].at = "page" /\ rowLock'[req[v].who] = v
      /\ \A a \in Account \ {req[v].who} : rowLock'[a] = rowLock[a]
      /\ UNCHANGED <<user, entry, entryLock>>
  BY DEF LockUserForDelete, Goto, Carried, At, TypeOK
<1>3. Carried'
  BY <1>2, NoneAssumption DEF Carried, At, TypeOK
<1>4. HandleKept'
  BY <1>2, NoneAssumption DEF HandleKept, Exists, TypeOK
<1>5. Locked'
  BY <1>2, NoneAssumption DEF Locked, Carried, InTransaction, Exists, TypeOK
<1>6. Scanned'
  BY <1>2, NoneAssumption DEF Scanned, InTransaction, Belongs, TypeOK
<1>7. Held'
  BY <1>2, NoneAssumption DEF Held, InTransaction, Belongs, Stored, TypeOK
<1>8. Swept'
  BY <1>2, NoneAssumption DEF Swept, InTransaction, Stored, TypeOK
<1>9. Owned'
  BY <1>2, NoneAssumption DEF Owned, Exists, Stored, TypeOK
<1> QED
  BY <1>1, <1>3, <1>4, <1>5, <1>6, <1>7, <1>8, <1>9

\* A cascade chooses one of its entries.
LEMMA ScanStep ==
    ASSUME BookInv, NEW v \in Visitor, ScanRow(v)
    PROVE  BookInv'
<1> USE DEF BookInv
<1>1. TypeOK'
  <2>1. PICK e \in Entry : req' = [req EXCEPT ![v] = [req[v] EXCEPT !.entry = e]]
    BY DEF ScanRow, Todo
  <2>2. req[v] \in Requests
    BY DEF TypeOK, Requests
  <2>3. [req[v] EXCEPT !.entry = e] \in Requests
    BY <2>2, RequestFields
  <2>4. /\ UNCHANGED <<user, entry, rowLock, entryLock>>
        /\ rowLock \in [Account -> Visitor \cup {None}]
        /\ entryLock \in [Entry -> Visitor \cup {None}]
    BY DEF ScanRow, TypeOK
  <2> QED
    BY <2>1, <2>3, <2>4, OneRequest
<1>2. /\ \A w \in Visitor \ {v} : req'[w] = req[w]
      /\ req'[v].op = req[v].op /\ req'[v].who = req[v].who /\ req'[v].active = req[v].active /\ req'[v].at = req[v].at
      /\ req[v].op = "delete" /\ InTransaction(v)
      /\ req'[v].entry \in Entry /\ Belongs(req'[v].entry, req[v].who)
      /\ UNCHANGED <<user, entry, rowLock, entryLock>>
  BY DEF ScanRow, Todo, InTransaction, Belongs, TypeOK
<1>3. Carried'
  BY <1>2, NoneAssumption DEF Carried, At, TypeOK
<1>4. HandleKept'
  BY <1>2, NoneAssumption DEF HandleKept, Exists, TypeOK
<1>5. Locked'
  BY <1>2, NoneAssumption DEF Locked, Carried, InTransaction, Exists, TypeOK
<1>6. Scanned'
  BY <1>2, NoneAssumption DEF Scanned, InTransaction, Belongs, TypeOK
<1>7. Held'
  BY <1>2, NoneAssumption DEF Held, InTransaction, Belongs, Stored, TypeOK
<1>8. Swept'
  BY <1>2, NoneAssumption DEF Swept, InTransaction, Stored, TypeOK
<1>9. Owned'
  BY <1>2, NoneAssumption DEF Owned, Exists, Stored, TypeOK
<1> QED
  BY <1>1, <1>3, <1>4, <1>5, <1>6, <1>7, <1>8, <1>9

\* The entry is locked, unless somebody deleted it first.
LEMMA RowStep ==
    ASSUME BookInv, NEW v \in Visitor, DeleteRow(v)
    PROVE  BookInv'
<1> USE DEF BookInv
<1>1. TypeOK'
  <2>1. req[v] \in Requests
    BY DEF TypeOK, Requests
  <2>2. [req[v] EXCEPT !.entry = None] \in Requests
    BY <2>1, RequestFields DEF Steps
  <2>3. req' = [req EXCEPT ![v] = [req[v] EXCEPT !.entry = None]]
    BY DEF DeleteRow
  <2> QED
    BY <2>2, <2>3, OneRequest DEF DeleteRow, TypeOK
<1>2. /\ \A w \in Visitor \ {v} : req'[w] = req[w]
      /\ req'[v].op = req[v].op /\ req'[v].who = req[v].who /\ req'[v].active = req[v].active /\ req'[v].at = req[v].at
      /\ req[v].op = "delete" /\ req[v].entry # None
      /\ req[v].entry \in Entry => entryLock[req[v].entry] = None
      /\ req'[v].entry = None /\ UNCHANGED <<user, entry, rowLock>>
      /\ \A e \in Entry : entryLock'[e] = IF e = req[v].entry /\ Stored(e) THEN v ELSE entryLock[e]
  BY DEF DeleteRow, TypeOK
<1>3. Carried'
  BY <1>2, NoneAssumption DEF Carried, At, TypeOK
<1>4. HandleKept'
  BY <1>2, NoneAssumption DEF HandleKept, Exists, TypeOK
<1>5. Locked'
  BY <1>2, NoneAssumption DEF Locked, Carried, InTransaction, Exists, TypeOK
<1>6. Scanned'
  BY <1>2, NoneAssumption DEF Scanned, InTransaction, Belongs, TypeOK
<1>7. Held'
  BY <1>2, NoneAssumption DEF Held, InTransaction, Belongs, Stored, TypeOK, Scanned
<1>8. Swept'
  BY <1>2, NoneAssumption DEF Swept, InTransaction, Stored, TypeOK
<1>9. Owned'
  BY <1>2, NoneAssumption DEF Owned, Exists, Stored, TypeOK
<1> QED
  BY <1>1, <1>3, <1>4, <1>5, <1>6, <1>7, <1>8, <1>9

\* A cascade is done when no entry is left that it has not locked.
LEMMA CascadeStep ==
    ASSUME BookInv, NEW v \in Visitor, CascadeDone(v)
    PROVE  BookInv'
<1> USE DEF BookInv
<1>1. TypeOK'
  <2>1. req[v] \in Requests
    BY DEF TypeOK, Requests
  <2>2. [req[v] EXCEPT !.at = (IF req[v].at = "page" THEN "author" ELSE "commit")] \in Requests
    BY <2>1, RequestFields DEF Steps
  <2>3. req' = [req EXCEPT ![v] = [req[v] EXCEPT !.at = (IF req[v].at = "page" THEN "author" ELSE "commit")]]
    BY DEF CascadeDone, Goto
  <2>4. /\ UNCHANGED <<user, entry, rowLock, entryLock>>
        /\ rowLock \in [Account -> Visitor \cup {None}]
        /\ entryLock \in [Entry -> Visitor \cup {None}]
    BY DEF CascadeDone, TypeOK
  <2> QED
    BY <2>2, <2>3, <2>4, OneRequest
<1>2. /\ \A w \in Visitor \ {v} : req'[w] = req[w]
      /\ req'[v].op = req[v].op /\ req'[v].who = req[v].who /\ req'[v].active = req[v].active /\ req'[v].entry = req[v].entry
      /\ req[v].op = "delete" /\ req[v].at \in {"page", "author"} /\ Todo(v) = {}
      /\ req'[v].at = IF req[v].at = "page" THEN "author" ELSE "commit"
      /\ UNCHANGED <<user, entry, rowLock, entryLock>>
  BY DEF CascadeDone, Goto, TypeOK
<1>3. Carried'
  BY <1>2, NoneAssumption DEF Carried, At, TypeOK
<1>4. HandleKept'
  BY <1>2, NoneAssumption DEF HandleKept, Exists, TypeOK
<1>5. Locked'
  BY <1>2, NoneAssumption DEF Locked, Carried, InTransaction, Exists, TypeOK
<1>6. Scanned'
  BY <1>2, NoneAssumption DEF Scanned, InTransaction, Belongs, TypeOK
<1>7. Held'
  BY <1>2, NoneAssumption DEF Held, InTransaction, Belongs, Stored, TypeOK
<1>8. Swept'
  BY <1>2, NoneAssumption DEF Swept, InTransaction, Stored, Todo, TypeOK
<1>9. Owned'
  BY <1>2, NoneAssumption DEF Owned, Exists, Stored, TypeOK
<1> QED
  BY <1>1, <1>3, <1>4, <1>5, <1>6, <1>7, <1>8, <1>9

\* The commit removes the account and the entries the deletion has locked, which are
\* all of the account's.
LEMMA CommitStep ==
    ASSUME BookInv, NEW v \in Visitor, Commit(v)
    PROVE  BookInv'
<1> USE DEF BookInv
<1>1. TypeOK'
  <2>1. entry \in [Entry -> Entries] /\ user \in [Account -> Users] /\ NoUser \in Users
    BY DEF TypeOK, Entries, Users, NoUser
  <2>2. \A e \in Entry : [entry[e] EXCEPT !.state = "deleted"] \in Entries
    BY <2>1 DEF Entries
  <2>3. user' \in [Account -> Users] /\ entry' \in [Entry -> Entries]
    BY <2>1, <2>2 DEF Commit
  <2> QED
    BY <2>3, Answered DEF Commit
<1>2. /\ \A w \in Visitor \ {v} : req'[w] = req[w]
      /\ req'[v] = NoRequest
      /\ NoRequest.op = "none" /\ NoRequest.at = "idle" /\ NoRequest.active = FALSE
      /\ \A a \in Account : rowLock'[a] = IF rowLock[a] = v THEN None ELSE rowLock[a]
      /\ \A f \in Entry : entryLock'[f] = IF entryLock[f] = v THEN None ELSE entryLock[f]
      /\ At(v, "delete", "commit") /\ user'[req[v].who] = NoUser
      /\ \A a \in Account \ {req[v].who} : user'[a] = user[a]
      /\ \A e \in Entry : entryLock[e] # v => entry'[e] = entry[e]
      /\ \A e \in Entry : entryLock[e] = v =>
          /\ entry'[e].state = "deleted"
          /\ entry'[e].page = entry[e].page /\ entry'[e].author = entry[e].author
  BY DEF Commit, Reply, NoRequest, At, Carried, TypeOK
<1>3. Carried'
  BY <1>2, NoneAssumption DEF Carried, At, TypeOK
<1>4. HandleKept'
  <2>1. req[v].who \in Account /\ user'[req[v].who].state = "gone"
    BY <1>2 DEF Carried, At, Exists, NoUser
  <2>2. ASSUME NEW w \in Visitor, req'[w].active
        PROVE  req'[w].who \in Account
               /\ (Exists(req[w].who)' => user'[req'[w].who].state = "active")
    <3>1. w # v /\ req'[w] = req[w] /\ req[w].who \in Account
      BY <1>2, <2>2 DEF HandleKept
    <3> QED
      BY <1>2, <2>1, <2>2, <3>1 DEF HandleKept, Exists
  <2> QED
    BY <2>2 DEF HandleKept
<1>5. Locked'
  BY <1>2, NoneAssumption DEF Locked, Carried, InTransaction, Exists, TypeOK, NoUser, At
<1>6. Scanned'
  BY <1>2, NoneAssumption DEF Scanned, InTransaction, Belongs, TypeOK
<1>7. Held'
  BY <1>2, NoneAssumption DEF Held, InTransaction, Belongs, Stored, TypeOK
<1>8. Swept'
  BY <1>2, NoneAssumption DEF Swept, InTransaction, Stored, TypeOK
<1>9. Owned'
  BY <1>2, NoneAssumption DEF Owned, Exists, Stored, TypeOK, NoUser, Swept, InTransaction, At
<1> QED
  BY <1>1, <1>3, <1>4, <1>5, <1>6, <1>7, <1>8, <1>9

\* A handle is claimed once.
LEMMA ClaimStep ==
    ASSUME BookInv, NEW a \in Account, NEW h \in Handle, Claim(a, h)
    PROVE  BookInv'
<1> USE DEF BookInv
<1>1. TypeOK'
  BY DEF Claim, TypeOK
<1>2. /\ user[a].state = "pending" /\ user'[a].state = "active"
      /\ \A b \in Account \ {a} : user'[b] = user[b]
      /\ UNCHANGED <<entry, req, rowLock, entryLock>>
  BY DEF Claim, TypeOK
<1>3. Carried'
  BY <1>2, NoneAssumption DEF Carried, At, TypeOK
<1>4. HandleKept'
  BY <1>2, NoneAssumption DEF HandleKept, Exists, TypeOK
<1>5. Locked'
  BY <1>2, NoneAssumption DEF Locked, Carried, InTransaction, Exists, TypeOK
<1>6. Scanned'
  BY <1>2, NoneAssumption DEF Scanned, InTransaction, Belongs, TypeOK
<1>7. Held'
  BY <1>2, NoneAssumption DEF Held, InTransaction, Belongs, Stored, TypeOK
<1>8. Swept'
  BY <1>2, NoneAssumption DEF Swept, InTransaction, Stored, TypeOK
<1>9. Owned'
  BY <1>2, NoneAssumption DEF Owned, Exists, Stored, TypeOK
<1> QED
  BY <1>1, <1>3, <1>4, <1>5, <1>6, <1>7, <1>8, <1>9

\* Every step keeps the book.
LEMMA BookStep ==
    ASSUME BookInv, [Next]_vars
    PROVE  BookInv'
<1>1. CASE UNCHANGED vars
  BY <1>1 DEF vars, BookInv, TypeOK, Carried, HandleKept, Locked, Scanned, Held, Swept,
              Owned, At, InTransaction, Belongs, Stored, Exists
<1>2. ASSUME NEW v \in Visitor, Serve(v) PROVE  BookInv'
  BY <1>2, RefuseStep, ResolveStep, SignStep, ModerateStep, LockStep, ScanStep, RowStep,
     CascadeStep, CommitStep DEF Serve, SignRefused, AlreadyGone
<1>3. ASSUME NEW v \in Visitor,
             SignFails(v) \/ ModerateRefused(v) \/ DeleteFails(v) \/ DeadlockAbort(v)
      PROVE  BookInv'
  BY <1>3, RefuseStep DEF SignFails, ModerateRefused, DeleteFails, DeadlockAbort
<1> QED
  BY <1>1, <1>2, <1>3, ArriveStep, ClaimStep DEF Next

LEMMA BookInvariant == Spec => []BookInv
  BY InitBook, BookStep, PTL DEF Spec
------------------------------------------------------------------------------
\* What a public page shows is among what the dashboard lists: whatever is newer
\* on the page is hidden, or visible and newer.
LEMMA Listed == TypeOK => ShownIsListed
<1> SUFFICES ASSUME TypeOK, NEW a \in Account,
                    Cardinality({e \in OnPage(a) : entry[e].state = "hidden"}) + PageLimit
                        <= OwnerLimit,
                    NEW e \in Visible(a)
             PROVE  e \in Own(a)
  BY DEF ShownIsListed
<1> DEFINE hidden == {f \in OnPage(a) : entry[f].state = "hidden"}
           shown  == {f \in OnPage(a) : entry[f].state = "visible"}
           above  == {f \in shown : f > e}
           newer  == {f \in OnPage(a) : f > e}
<1>1. e \in shown /\ Cardinality(above) < PageLimit
  BY DEF Visible, Newest
<1>2. IsFiniteSet(Entry)
  BY FS_Interval, LimitAssumption DEF Entry
<1>3. /\ IsFiniteSet(hidden) /\ IsFiniteSet(above)
      /\ Cardinality(hidden) \in Nat /\ Cardinality(above) \in Nat
  <2>1. hidden \subseteq Entry /\ above \subseteq Entry
    BY DEF OnPage
  <2> QED
    BY <1>2, <2>1, FS_Subset, FS_CardinalityType
<1>4. newer \subseteq hidden \cup above
  BY DEF OnPage, Stored
<1>5. Cardinality(hidden \cup above) <= Cardinality(hidden) + Cardinality(above)
  <2>1. /\ IsFiniteSet(hidden \cup above)
        /\ Cardinality(hidden \cup above)
              = Cardinality(hidden) + Cardinality(above) - Cardinality(hidden \cap above)
    BY <1>3, FS_Union
  <2>2. Cardinality(hidden \cap above) \in Nat
    BY <1>3, FS_Intersection, FS_CardinalityType
  <2> QED
    BY <1>3, <2>1, <2>2
<1>6. /\ IsFiniteSet(hidden \cup above) /\ IsFiniteSet(newer)
      /\ Cardinality(newer) <= Cardinality(hidden \cup above)
      /\ Cardinality(newer) \in Nat /\ Cardinality(hidden \cup above) \in Nat
  BY <1>3, <1>4, FS_Union, FS_Subset, FS_CardinalityType
<1>7. Cardinality(newer) < OwnerLimit
  BY <1>1, <1>3, <1>5, <1>6, LimitAssumption
<1> QED
  BY <1>1, <1>7 DEF Own, Newest

\* migrations/00006, "no row is ever left pointing at an account that is gone", the
\* pages authors are named by, and the dashboard that offers what visitors see.
THEOREM BookWhole == Spec => []BookIntact
<1>1. BookInv => BookIntact
  <2> SUFFICES ASSUME BookInv PROVE  BookIntact
    OBVIOUS
  <2>1. NoOrphanEntry /\ AuthorNamed
    BY DEF BookInv, Owned, NoOrphanEntry, AuthorNamed, Exists
  <2> QED
    BY <2>1, Listed DEF BookInv, BookIntact
<1> QED
  BY BookInvariant, <1>1, PTL
------------------------------------------------------------------------------
\* Only four steps touch the entries.
LEMMA EntriesKept ==
    ASSUME [Next]_vars, \A v \in Visitor : ~Sign(v) /\ ~setState(v) /\ ~Commit(v)
    PROVE  entry' = entry
  BY DEF Next, vars, Arrivals, SendSign, SendModerate, SendDelete, Arrive, Serve,
         ResolveOwner, SignRefused, LockUserForDelete, AlreadyGone, ScanRow, DeleteRow,
         CascadeDone, SignFails, ModerateRefused, DeleteFails, DeadlockAbort, Refuse, Claim

\* SetGuestbookEntryState and DeleteAccount: a stored entry is hidden and shown by
\* the owner of its page alone, and removed only with one of its two accounts.
THEOREM EntriesStand == Spec => EntriesGuarded
<1>1. BookInv /\ [Next]_vars => [\A e \in Entry : Stored(e) => ByOwner(e) /\ WithAccount(e)]_vars
  <2> SUFFICES ASSUME BookInv, [Next]_vars, NEW e \in Entry, Stored(e)
               PROVE  ByOwner(e) /\ WithAccount(e)
    OBVIOUS
  <2>1. CASE entry'[e] = entry[e]
    BY <2>1 DEF ByOwner, WithAccount, Stored
  <2>2. ASSUME NEW v \in Visitor, Sign(v) PROVE  entry'[e] = entry[e]
    BY <2>2 DEF Sign, BookInv, TypeOK, Stored, NoEntry
  <2>3. ASSUME NEW v \in Visitor, setState(v), entry'[e] # entry[e]
        PROVE  ByOwner(e) /\ WithAccount(e)
    <3>1. req[v].entry = e /\ entry[e].page = req[v].who
      BY <2>3 DEF setState, SetGuestbookEntryState, BookInv, TypeOK
    <3>2. entry'[e].state \in {"visible", "hidden"}
      BY <2>3, <3>1 DEF setState, SetGuestbookEntryState, NewState, BookInv, TypeOK
    <3>3. req'[v] = NoRequest
      BY <2>3 DEF setState, Reply, BookInv, TypeOK
    <3> QED
      BY <3>1, <3>2, <3>3 DEF ByOwner, WithAccount
  <2>4. ASSUME NEW v \in Visitor, Commit(v), entry'[e] # entry[e]
        PROVE  ByOwner(e) /\ WithAccount(e)
    <3>1. entryLock[e] = v /\ entry'[e].state = "deleted"
      BY <2>4 DEF Commit, BookInv, TypeOK
    <3>2. Belongs(e, req[v].who) /\ Exists(req[v].who) /\ req[v].who \in Account
      BY <2>4, <3>1, NoneAssumption
      DEF BookInv, Held, Locked, Carried, Commit, At, InTransaction
    <3>3. user'[req[v].who] = NoUser
      BY <2>4, <3>2 DEF Commit, BookInv, TypeOK
    <3> QED
      BY <3>1, <3>2, <3>3 DEF ByOwner, WithAccount, Belongs
  <2> QED
    BY <2>1, <2>2, <2>3, <2>4, EntriesKept
<1> QED
  BY BookInvariant, <1>1, PTL DEF Spec, EntriesGuarded
-------------------------------------------------------------------------------
(* Preview cards and photos in a cache.                                    *)

\* What the request for the card carries is the tag of the card that is cached.
CardOK ==
    /\ og \in [at : {"idle", "user", "mood"}, match : Tag \cup {Nothing}, name : Names]
    /\ card # Nothing => /\ card.shows = <<card.tag.name, card.tag.mood>>
                         /\ og.at # "idle" => og.match = card.tag

\* The photo that an upload is about to put into the row.
Pending(k) == owner.at \in {"file", "row"} /\ owner.key = k

\* The order of handlePhotoUpload: the file before the row, the row before the
\* removal of the file it replaces; and no key is handed out twice.
FileBeforeRow ==
    /\ photo # Nothing => photo \in files
    /\ owner.at \in {"file", "unlink"} => owner.key \in Key
    /\ owner.at = "unlink" => owner.key # photo
    /\ \A k \in Key : Pending(k) =>
          /\ k \in used /\ k # photo
          /\ owner.at = "row" => k \in files

\* Nobody opens the file of a photo that was never in the row.
Asked ==
    /\ get.at # "idle" => get.key \in used
    /\ get.at = "open" => ~Pending(get.key)

\* What a cache believes not to exist is gone for good.
GoneForGood ==
    ~failed =>
        /\ readable
        /\ \A k \in Key : cached[k] = "notfound" => k \in used /\ k # photo /\ ~Pending(k)

CacheInv == CacheTypeOK /\ CardOK /\ FileBeforeRow /\ Asked /\ GoneForGood

photoVars == <<photo, owner, files, used, diskVars, get, cached>>
cardVars == <<og, card>>

\* A step on the card leaves the photos alone.
LEMMA PhotosAlone ==
    ASSUME CacheInv, UNCHANGED photoVars, CacheTypeOK', CardOK' PROVE CacheInv'
BY DEF CacheInv, photoVars, diskVars, FileBeforeRow, Pending, Asked, GoneForGood

\* The other way round.
LEMMA CardAlone ==
    ASSUME CacheInv, UNCHANGED cardVars PROVE CardOK'
BY DEF CacheInv, cardVars, CardOK

LEMMA IdleOK ==
    /\ Idle \in [at : {"idle", "user", "mood"}, match : Tag \cup {Nothing}, name : Names]
    /\ Idle.at = "idle" /\ Idle.name = Nothing /\ Idle.match = Nothing
BY DEF Idle, Names

LEMMA CacheStart == CacheInit => CacheInv
<1> SUFFICES ASSUME CacheInit PROVE  CacheInv
  OBVIOUS
<1>1. CacheTypeOK
  <2>1. name \in Names /\ mood \in Moods /\ moodAt \in 0..MaxChanges /\ changes \in 0..MaxChanges
    BY ChangesAssumption DEF CacheInit, Names, Moods
  <2>2. /\ og.at \in {"idle", "user", "mood"} /\ og.name \in Names
        /\ og.match = Nothing \/ og.match \in Tag
    BY IdleOK DEF CacheInit, Names
  <2> QED
    BY <2>1, <2>2 DEF CacheInit, CacheTypeOK, NoGet, NoChange
<1>2. CardOK
  BY IdleOK DEF CacheInit, CardOK
<1>3. FileBeforeRow /\ Asked
  BY DEF CacheInit, FileBeforeRow, Pending, Asked, NoGet, NoChange
<1>4. GoneForGood
  BY NothingAssumption DEF CacheInit, GoneForGood
<1> QED
  BY <1>1, <1>2, <1>3, <1>4 DEF CacheInv

\* SetDisplayName and SetMood.
LEMMA WordsStep ==
    ASSUME CacheInv, (\E n \in Names : SetDisplayName(n)) \/ (\E m \in Mood : SetMood(m))
    PROVE  CacheInv'
<1>1. UNCHANGED photoVars /\ UNCHANGED cardVars
  BY DEF SetDisplayName, SetMood, photoVars, cardVars, diskVars
<1>2. CacheTypeOK'
  BY ChangesAssumption DEF CacheInv, CacheTypeOK, SetDisplayName, SetMood, Change, diskVars, Moods
<1> QED
  BY <1>1, <1>2, CardAlone, PhotosAlone

\* handlePhotoUpload, handlePhotoRemove.
LEMMA OwnerStep ==
    ASSUME CacheInv, (\E k \in Key : BeginUpload(k)) \/ BeginRemove \/ SaveFile \/ WriteRow \/ RemoveFile
    PROVE  CacheInv'
<1>1. CardOK'
  BY CardAlone DEF BeginUpload, BeginRemove, SaveFile, WriteRow, RemoveFile, cardVars
<1> USE NothingAssumption, ChangesAssumption DEF CacheInv
<1>2. ASSUME NEW k \in Key, BeginUpload(k) PROVE  CacheInv'
  <2>1. CacheTypeOK'
    BY <1>2 DEF CacheTypeOK, BeginUpload, Change, diskVars
  <2> QED
    BY <1>1, <1>2, <2>1 DEF CacheTypeOK, BeginUpload, NewKey, Change, NoChange, diskVars,
       FileBeforeRow, Pending, Asked, GoneForGood
<1>3. CASE BeginRemove
  <2>1. CacheTypeOK'
    BY <1>3 DEF CacheTypeOK, BeginRemove, Change, diskVars
  <2> QED
    BY <1>1, <1>3, <2>1 DEF CacheTypeOK, BeginRemove, diskVars,
       FileBeforeRow, Pending, Asked, GoneForGood
<1>4. CASE SaveFile
  <2>1. CacheTypeOK'
    BY <1>4 DEF CacheTypeOK, SaveFile, diskVars, FileBeforeRow, Pending
  <2> QED
    BY <1>1, <1>4, <2>1 DEF CacheTypeOK, SaveFile, diskVars,
       FileBeforeRow, Pending, Asked, GoneForGood
<1>5. CASE WriteRow
  <2>1. CacheTypeOK'
    BY <1>5 DEF CacheTypeOK, WriteRow, NoChange, diskVars
  <2> QED
    BY <1>1, <1>5, <2>1 DEF CacheTypeOK, WriteRow, NoChange, diskVars,
       FileBeforeRow, Pending, Asked, GoneForGood
<1>6. CASE RemoveFile
  <2>1. CacheTypeOK'
    BY <1>6 DEF CacheTypeOK, RemoveFile, NoChange, diskVars
  <2> QED
    BY <1>1, <1>6, <2>1 DEF CacheTypeOK, RemoveFile, NoChange, diskVars,
       FileBeforeRow, Pending, Asked, GoneForGood
<1> QED
  BY <1>2, <1>3, <1>4, <1>5, <1>6

\* handlePagePhoto, and the photo directory that cannot be read for a while.
LEMMA PhotoStep ==
    ASSUME CacheInv,
           DiskFails \/ DiskBack \/ (\E k \in Key : AskPhoto(k)) \/ ByPhotoKey \/ servePhotoFile
    PROVE  CacheInv'
<1>1. CardOK'
  BY CardAlone DEF DiskFails, DiskBack, AskPhoto, ByPhotoKey, servePhotoFile, cardVars
<1> USE NothingAssumption DEF CacheInv, ownerVars, diskVars
<1>2. CASE DiskFails \/ DiskBack
  <2>1. UNCHANGED <<ownerVars, get, cached>> /\ (~failed' => ~failed /\ readable')
    BY <1>2 DEF DiskFails, DiskBack, GoneForGood
  <2>2. CacheTypeOK'
    BY <1>2 DEF CacheTypeOK, DiskFails, DiskBack
  <2>3. FileBeforeRow' /\ Asked'
    BY <2>1 DEF FileBeforeRow, Pending, Asked
  <2>4. GoneForGood'
    BY <2>1 DEF GoneForGood, Pending
  <2> QED
    BY <1>1, <2>2, <2>3, <2>4
<1>3. ASSUME NEW k \in Key, AskPhoto(k) PROVE  CacheInv'
  BY <1>1, <1>3 DEF CacheTypeOK, AskPhoto, FileBeforeRow, Pending, Asked, GoneForGood
<1>4. CASE ByPhotoKey
  BY <1>1, <1>4 DEF CacheTypeOK, ByPhotoKey, NoGet, FileBeforeRow, Pending, Asked, GoneForGood
<1>5. CASE servePhotoFile
  <2>1. get.key \in used /\ ~Pending(get.key) /\ (get.key \notin files => get.key # photo)
    BY <1>5 DEF servePhotoFile, Asked, FileBeforeRow, CacheTypeOK
  <2>2. CacheTypeOK' /\ FileBeforeRow' /\ Asked'
    BY <1>5, <2>1 DEF CacheTypeOK, servePhotoFile, NoGet, FileBeforeRow, Pending, Asked
  <2>3. GoneForGood'
    BY <1>5, <2>1 DEF CacheTypeOK, servePhotoFile, Pending, GoneForGood
  <2> QED
    BY <1>1, <2>2, <2>3
<1> QED
  BY <1>2, <1>3, <1>4, <1>5

\* handleOGImage and the cache in front of it.
LEMMA CardStep ==
    ASSUME CacheInv, CardNext \/ OGFails \/ Expire
    PROVE  CacheInv'
<1>1. UNCHANGED photoVars
  BY DEF CardNext, AskCard, GetByHandle, NotModified, Render, OGFails, Expire,
         ownerVars, diskVars, photoVars
<1> USE NothingAssumption DEF CacheInv, ownerVars, diskVars
<1>2. CASE AskCard
  <2> DEFINE match == IF card = Nothing THEN Nothing ELSE card.tag
  <2>1. match \in Tag \cup {Nothing} /\ card' = card
    BY <1>2 DEF AskCard, CacheTypeOK
  <2>2. og' = [Idle EXCEPT !.at = "user", !.match = match]
    BY <1>2 DEF AskCard
  <2> HIDE DEF match
  <2>3. /\ og' \in [at : {"idle", "user", "mood"}, match : Tag \cup {Nothing}, name : Names]
        /\ og'.match = match
    BY <2>1, <2>2, IdleOK
  <2>4. CardOK'
    BY <2>1, <2>3 DEF CardOK, match
  <2>5. CacheTypeOK'
    BY <1>2, <2>3 DEF AskCard, CacheTypeOK
  <2> QED
    BY <1>1, <2>4, <2>5, PhotosAlone
<1>3. CASE GetByHandle
  <2>1. name \in Names /\ og' = [og EXCEPT !.at = "mood", !.name = name] /\ og.at = "user" /\ card' = card
    BY <1>3 DEF GetByHandle, CacheTypeOK
  <2>2. CardOK'
    BY <2>1 DEF CardOK
  <2>3. CacheTypeOK'
    BY <1>3, <2>2 DEF GetByHandle, CacheTypeOK, CardOK
  <2> QED
    BY <1>1, <2>2, <2>3, PhotosAlone
<1>4. CASE OGFails
  <2>1. CardOK' /\ CacheTypeOK'
    BY <1>4, IdleOK DEF OGFails, CardOK, CacheTypeOK
  <2> QED
    BY <1>1, <2>1, PhotosAlone
<1>5. CASE NotModified \/ Expire
  <2>1. /\ card # Nothing
        /\ \E b \in BOOLEAN : card' = [card EXCEPT !.fresh = b]
        /\ og' \in {og, Idle} /\ UNCHANGED <<name, mood, moodAt, photo, owner, files, used, changes>>
    BY <1>5 DEF NotModified, Expire
  <2>2. PICK b \in BOOLEAN : card' = [card EXCEPT !.fresh = b]
    BY <2>1
  <2>3. /\ card \in [tag : Tag, shows : Names \X Moods, fresh : BOOLEAN]
        /\ card' \in [tag : Tag, shows : Names \X Moods, fresh : BOOLEAN]
        /\ card'.tag = card.tag /\ card'.shows = card.shows
    BY <2>1, <2>2 DEF CacheTypeOK
  <2>4. CardOK'
    BY <2>1, <2>3, IdleOK DEF CardOK
  <2>5. CacheTypeOK'
    BY <1>1, <2>1, <2>3, <2>4 DEF CacheTypeOK, CardOK, photoVars
  <2> QED
    BY <1>1, <2>4, <2>5, PhotosAlone
<1>6. CASE Render
  BY <1>1, <1>6, PhotosAlone DEF Render, ogETag, CacheTypeOK, CardOK, Idle, Tag, Names
<1> QED
  BY <1>2, <1>3, <1>4, <1>5, <1>6 DEF CardNext

LEMMA CacheStep == CacheInv /\ [CacheNext]_cacheVars => CacheInv'
<1> SUFFICES ASSUME CacheInv, [CacheNext]_cacheVars PROVE  CacheInv'
  OBVIOUS
<1>1. CASE UNCHANGED cacheVars
  BY <1>1 DEF cacheVars, ownerVars, diskVars, CacheInv, CacheTypeOK, CardOK, FileBeforeRow,
     Pending, Asked, GoneForGood
<1>2. CASE CacheNext
  BY <1>2, WordsStep, OwnerStep, PhotoStep, CardStep DEF CacheNext, OwnerNext
<1> QED
  BY <1>1, <1>2

\* handlePhotoUpload, "the order matters": while the photo directory can be read, no
\* cache keeps for good that a photo does not exist which its account has.
THEOREM CacheStaysSound == CacheSpec => []CacheSound
<1>1. CacheInv => CacheSound
  BY DEF CacheInv, GoneForGood, CacheSound, OrderSparesCache, Masked
<1> QED
  BY CacheStart, CacheStep, <1>1, PTL DEF CacheSpec

\* ogETag: a 304 confirms only a card that shows the name and the mood this very
\* request has read.
THEOREM NotModifiedTells == CacheSpec => NotModifiedHonest
<1> DEFINE Confirmed ==
        card # Nothing /\ ~card.fresh /\ card' # Nothing /\ card'.fresh /\ card'.tag = card.tag
            => card'.shows = <<og.name, mood>>
<1>1. CacheInv /\ [CacheNext]_cacheVars => [Confirmed]_cacheVars
  <2> SUFFICES ASSUME CacheInv, CacheNext PROVE  Confirmed
    OBVIOUS
  <2>1. CASE NotModified
    BY <2>1 DEF CacheInv, CacheTypeOK, CardOK, NotModified, ogETag
  <2>2. CASE Render
    BY <2>2 DEF Render
  <2>3. CASE Expire
    BY <2>3 DEF Expire
  <2>4. CASE OwnerNext \/ DiskFails \/ DiskBack \/ AskCard \/ GetByHandle \/ OGFails
             \/ (\E k \in Key : AskPhoto(k)) \/ ByPhotoKey \/ servePhotoFile
    <3>1. card' = card
      BY <2>4 DEF OwnerNext, SetDisplayName, SetMood, BeginUpload, BeginRemove, SaveFile, WriteRow,
         RemoveFile, DiskFails, DiskBack, AskCard, GetByHandle, OGFails, AskPhoto, ByPhotoKey,
         servePhotoFile
    <3> QED
      BY <3>1
  <2> QED
    BY <2>1, <2>2, <2>3, <2>4 DEF CacheNext, CardNext
<1> QED
  BY CacheStart, CacheStep, <1>1, PTL DEF CacheSpec, NotModifiedHonest
===============================================================================
