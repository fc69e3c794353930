---------------------------- MODULE AccountsProofs ----------------------------
(* Theorems about Accounts, for every set of workers, addresses, tokens and *)
(* handles and every value of the durations.                                *)
EXTENDS Accounts, FiniteSetTheorems, TLAPS

USE DEF tokenVars, userVars, reserveVars, lockVars, workVars, loginHist,
        claimHist, tables, vars, Wanted

-------------------------------------------------------------------------------
RequestPC == {"rLock", "rCount", "rRetire", "rCommit"}
LoginPC   == {"cConsume", "cUpsert", "cCommit"}
DeletePC  == {"dLock", "dReserve", "dTokens", "dUser", "dCommit"}
ClaimPC   == {"hCheck", "hRow", "hIndex"}

\* A worker's arguments are those of its operation, and a minted token has an
\* address: without this the types are not inductive.
ArgsOK ==
    /\ \A w \in Worker :
          /\ pc[w] \in RequestPC \cup LoginPC => job[w].tok \in Token
          /\ pc[w] \in RequestPC \cup LoginPC \cup DeletePC \cup ClaimPC
                => job[w].addr \in Addr
          /\ pc[w] \in ClaimPC => job[w].handle \in Handle
          /\ \A k \in rows[w] : use[k] # "new"
    /\ \A k \in Token : use[k] # "new" => owner[k] \in Addr

WorkTypeOK ==
    /\ pc \in [Worker -> PC]
    /\ job \in [Worker -> Job]
    /\ rows \in [Worker -> SUBSET Token]
    /\ snap \in [Worker -> SUBSET Token]
    /\ advisory \in [Addr -> Worker \cup {None}]
    /\ userLock \in [Addr -> Worker \cup {None}]

\* Ending a transaction keeps the types of what belongs to the worker.
LEMMA EndType ==
    ASSUME TypeOK, NEW w \in Worker, End(w)
    PROVE  WorkTypeOK'
BY DEF TypeOK, WorkTypeOK, End, Goto, NoJob, NewJob, Job, PC

\* Every step keeps the types of the tables, the locks and the workers.
LEMMA TypeStep == TypeOK /\ ArgsOK /\ [Next]_vars => TypeOK'
<1> USE NoneAssumption, DurationAssumption
<1> SUFFICES ASSUME TypeOK, ArgsOK, [Next]_vars PROVE TypeOK'
    OBVIOUS
<1>1. ASSUME NEW w \in Worker, Start(w) PROVE TypeOK'
  <2>1. ASSUME NEW a \in Addr, NEW k \in Token, BeginRequest(w, a, k) PROVE TypeOK'
    BY <2>1 DEF BeginRequest, Begin, NewJob, Job, PC, TypeOK
  <2>2. ASSUME NEW k \in Token, BeginComplete(w, k) PROVE TypeOK'
    BY <2>2 DEF BeginComplete, Begin, NewJob, Job, PC, TypeOK
  <2>3. ASSUME NEW a \in Addr, BeginDelete(w, a) PROVE TypeOK'
    BY <2>3 DEF BeginDelete, AppClock, Begin, NewJob, Job, PC, TypeOK
  <2>4. ASSUME NEW a \in Addr, NEW h \in Handle, BeginClaim(w, a, h) PROVE TypeOK'
    BY <2>4 DEF BeginClaim, AppClock, Begin, NewJob, Job, PC, TypeOK
  <2>5. ASSUME BeginPurgeTokens(w) PROVE TypeOK'
    BY <2>5 DEF BeginPurgeTokens, Begin, NewJob, Job, PC, TypeOK
  <2>6. QED BY <1>1, <2>1, <2>2, <2>3, <2>4, <2>5 DEF Start
<1>2. ASSUME NEW w \in Worker, Step(w) PROVE TypeOK'
  <2> USE DEF End, Goto, NoJob, NewJob, Job, PC, TypeOK, ArgsOK, RequestPC, LoginPC, DeletePC, ClaimPC
  <2>1. CASE LockLoginAddress(w)  BY <2>1 DEF LockLoginAddress
  <2>2. CASE CountRecent(w)       BY <2>2 DEF CountRecent
  <2>3. CASE BudgetExceeded(w)    BY <2>3 DEF BudgetExceeded
  <2>4. CASE InvalidateTokens(w)  BY <2>4 DEF InvalidateTokens, OpenTokens
  <2>5. CASE CommitRequest(w)
    <3>1. WorkTypeOK' BY <2>5, EndType DEF CommitRequest
    <3>2. job[w] \in Job OBVIOUS
    <3>3. /\ use' \in [Token -> TokenUse] /\ owner' \in [Token -> Addr \cup {None}]
          /\ created' \in [Token -> Nat] /\ latest' \in [Addr -> Token \cup {None}]
      BY <2>5, <3>2 DEF CommitRequest, TokenUse
    <3>4. QED BY <2>5, <3>1, <3>3 DEF CommitRequest, WorkTypeOK
  <2>6. CASE ConsumeToken(w)      BY <2>6 DEF ConsumeToken
  <2>7. CASE InvalidToken(w)      BY <2>7 DEF InvalidToken
  <2>8. CASE UpsertUser(w)        BY <2>8 DEF UpsertUser
  <2>9. CASE CommitLogin(w)
    <3>1. WorkTypeOK' BY <2>9, EndType DEF CommitLogin
    <3>2. acct' \in [Addr -> Nat] /\ nextId' \in Nat
      <4>1. \/ acct' = [acct EXCEPT ![job[w].addr] = nextId] /\ nextId' = nextId + 1
            \/ UNCHANGED <<acct, nextId>>
        BY <2>9 DEF CommitLogin
      <4>2. QED BY <4>1
    <3>3. use' \in [Token -> TokenUse] /\ logins' \in [Token -> Nat]
      BY <2>9, job[w].tok \in Token, logins[job[w].tok] \in Nat DEF CommitLogin, TokenUse
    <3>4. QED BY <2>9, <3>1, <3>2, <3>3 DEF CommitLogin, WorkTypeOK
  <2>10. CASE LockUserForDelete(w) BY <2>10 DEF LockUserForDelete
  <2>11. CASE UserNotFound(w)     BY <2>11 DEF UserNotFound
  <2>12. CASE ReserveHandle(w)
    <3>1. handle[job[w].addr] \in Handle \cup {None} BY <2>12 DEF ReserveHandle
    <3> DEFINE j == [job[w] EXCEPT !.handle = handle[job[w].addr]]
    <3>2. j \in Job
      <4>1. job[w] \in Job OBVIOUS
      <4>2. QED BY <3>1, <4>1
    <3>3. job' = [job EXCEPT ![w] = j] BY <2>12 DEF ReserveHandle
    <3>4. job' \in [Worker -> Job] BY <3>2, <3>3
    <3>5. snap' \in [Worker -> SUBSET Token] BY <2>12 DEF ReserveHandle
    <3>6. QED BY <2>12, <3>4, <3>5 DEF ReserveHandle
  <2>13. CASE DeleteTokens(w)     BY <2>13 DEF DeleteTokens
  <2>14. CASE DeleteUser(w)       BY <2>14 DEF DeleteUser
  <2>15. CASE CommitDelete(w)
    <3>1. WorkTypeOK' BY <2>15, EndType DEF CommitDelete
    <3>2. /\ use' \in [Token -> TokenUse] /\ acct' \in [Addr -> Nat]
          /\ handle' \in [Addr -> Handle \cup {None}]
          /\ condemned' \subseteq Token /\ raced' \subseteq Addr
      BY <2>15 DEF CommitDelete, TokenUse
    <3>3. job[w] \in Job OBVIOUS
    <3>4. /\ reserved' \subseteq Handle /\ deletedAt' \in [Handle -> Int]
          /\ lastDel' \in [Handle -> Int] /\ racing' \subseteq Worker
      <4>1. CASE job[w].handle = None BY <2>15, <4>1 DEF CommitDelete
      <4>2. CASE job[w].handle # None BY <2>15, <3>3, <4>2 DEF CommitDelete
      <4>3. QED BY <4>1, <4>2
    <3>5. QED BY <2>15, <3>1, <3>2, <3>4 DEF CommitDelete, WorkTypeOK
  <2>16. CASE ClaimCheck(w)       BY <2>16 DEF ClaimCheck
  <2>17. CASE ClaimRow(w)         BY <2>17 DEF ClaimRow
  <2>18. CASE ClaimRefused(w)     BY <2>18 DEF ClaimRefused
  <2>19. CASE ClaimApply(w)
    <3>1. WorkTypeOK' BY <2>19, EndType DEF ClaimApply
    <3>2. job[w] \in Job OBVIOUS
    <3>3. /\ handle' \in [Addr -> Handle \cup {None}]
          /\ claimedAt' \in [Addr -> Nat]
      BY <2>19, <3>2 DEF ClaimApply
    <3>4. QED BY <2>19, <3>1, <3>3 DEF ClaimApply, WorkTypeOK
  <2>20. CASE PurgeTokens(w)      BY <2>20 DEF PurgeTokens, TokenUse
  <2>21. QED
    BY <1>2, <2>1, <2>2, <2>3, <2>4, <2>5, <2>6, <2>7, <2>8, <2>9, <2>10, <2>11,
       <2>12, <2>13, <2>14, <2>15, <2>16, <2>17, <2>18, <2>19, <2>20 DEF Step
<1>3. ASSUME NEW w \in Worker, Abort(w) PROVE TypeOK'
  BY <1>3 DEF Abort, End, Goto, NoJob, NewJob, Job, PC, TypeOK
<1>4. CASE PurgeDeletedHandles
  BY <1>4 DEF PurgeDeletedHandles, TypeOK
<1>5. CASE Tick
  BY <1>5 DEF Tick, TypeOK
<1>6. CASE UNCHANGED vars
  BY <1>6 DEF TypeOK
<1>7. QED BY <1>1, <1>2, <1>3, <1>4, <1>5, <1>6 DEF Next


\* Every step keeps the arguments right.
LEMMA ArgsStep == TypeOK /\ ArgsOK /\ [Next]_vars => ArgsOK'
<1> USE NoneAssumption DEF RequestPC, LoginPC, DeletePC, ClaimPC
<1> SUFFICES ASSUME TypeOK, ArgsOK, [Next]_vars PROVE ArgsOK'
    OBVIOUS
<1>1. ASSUME NEW w \in Worker, Start(w) PROVE ArgsOK'
  <2> USE DEF Begin, NewJob, TypeOK, ArgsOK
  <2>1. ASSUME NEW a \in Addr, NEW k \in Token, BeginRequest(w, a, k) PROVE ArgsOK'
    BY <2>1 DEF BeginRequest
  <2>2. ASSUME NEW k \in Token, BeginComplete(w, k) PROVE ArgsOK'
    BY <2>2 DEF BeginComplete
  <2>3. ASSUME NEW a \in Addr, BeginDelete(w, a) PROVE ArgsOK'
    BY <2>3 DEF BeginDelete
  <2>4. ASSUME NEW a \in Addr, NEW h \in Handle, BeginClaim(w, a, h) PROVE ArgsOK'
    BY <2>4 DEF BeginClaim
  <2>5. ASSUME BeginPurgeTokens(w) PROVE ArgsOK'
    BY <2>5 DEF BeginPurgeTokens
  <2>6. QED BY <1>1, <2>1, <2>2, <2>3, <2>4, <2>5 DEF Start
<1>2. ASSUME NEW w \in Worker, Step(w) PROVE ArgsOK'
  <2> USE DEF Goto, TypeOK, ArgsOK, End
  <2>1. CASE LockLoginAddress(w)  BY <2>1 DEF LockLoginAddress
  <2>2. CASE CountRecent(w)       BY <2>2 DEF CountRecent
  <2>3. CASE BudgetExceeded(w)    BY <2>3 DEF BudgetExceeded
  <2>4. CASE InvalidateTokens(w)  BY <2>4 DEF InvalidateTokens, OpenTokens
  <2>5. CASE CommitRequest(w)
    <3>1. \A k \in Token : use'[k] # "new" => owner'[k] \in Addr
      BY <2>5 DEF CommitRequest
    <3>2. \A v \in Worker : \A k \in rows'[v] : use'[k] # "new"
      BY <2>5 DEF CommitRequest
    <3>3. QED BY <2>5, <3>1, <3>2 DEF CommitRequest
  <2>6. CASE ConsumeToken(w)      BY <2>6 DEF ConsumeToken, Consumable
  <2>7. CASE InvalidToken(w)      BY <2>7 DEF InvalidToken
  <2>8. CASE UpsertUser(w)        BY <2>8 DEF UpsertUser
  <2>9. CASE CommitLogin(w)
    <3>1. \A k \in Token : use'[k] # "new" => owner'[k] \in Addr
      BY <2>9 DEF CommitLogin
    <3>2. \A v \in Worker : \A k \in rows'[v] : use'[k] # "new"
      BY <2>9 DEF CommitLogin
    <3>3. QED BY <2>9, <3>1, <3>2 DEF CommitLogin
  <2>10. CASE LockUserForDelete(w) BY <2>10 DEF LockUserForDelete
  <2>11. CASE UserNotFound(w)     BY <2>11 DEF UserNotFound
  <2>12. CASE ReserveHandle(w)    BY <2>12 DEF ReserveHandle, Job
  <2>13. CASE DeleteTokens(w)     BY <2>13 DEF DeleteTokens, OnRecord
  <2>14. CASE DeleteUser(w)       BY <2>14 DEF DeleteUser
  <2>15. CASE CommitDelete(w)
    <3>1. \A k \in Token : use'[k] # "new" => owner'[k] \in Addr
      BY <2>15 DEF CommitDelete
    <3>2. \A v \in Worker : \A k \in rows'[v] : use'[k] # "new"
      BY <2>15 DEF CommitDelete
    <3>3. QED BY <2>15, <3>1, <3>2 DEF CommitDelete
  <2>16. CASE ClaimCheck(w)       BY <2>16 DEF ClaimCheck
  <2>17. CASE ClaimRow(w)         BY <2>17 DEF ClaimRow
  <2>18. CASE ClaimRefused(w)     BY <2>18 DEF ClaimRefused
  <2>19. CASE ClaimApply(w)       BY <2>19 DEF ClaimApply
  <2>20. CASE PurgeTokens(w)      BY <2>20 DEF PurgeTokens, OnRecord
  <2>21. QED
    BY <1>2, <2>1, <2>2, <2>3, <2>4, <2>5, <2>6, <2>7, <2>8, <2>9, <2>10, <2>11,
       <2>12, <2>13, <2>14, <2>15, <2>16, <2>17, <2>18, <2>19, <2>20 DEF Step
<1>3. ASSUME NEW w \in Worker, Abort(w) PROVE ArgsOK'
  BY <1>3 DEF Abort, End, Goto, TypeOK, ArgsOK
<1>4. CASE PurgeDeletedHandles
  BY <1>4 DEF PurgeDeletedHandles, ArgsOK
<1>5. CASE Tick
  BY <1>5 DEF Tick, ArgsOK
<1>6. CASE UNCHANGED vars
  BY <1>6 DEF ArgsOK
<1>7. QED BY <1>1, <1>2, <1>3, <1>4, <1>5, <1>6 DEF Next

\* Types and arguments are invariant together.
LEMMA TypesAndArgs == Spec => [](TypeOK /\ ArgsOK)
<1>1. Init => TypeOK /\ ArgsOK
  BY NoneAssumption, DurationAssumption, SetAssumption
     DEF Init, TypeOK, ArgsOK, TokenUse, PC, Job, NoJob, NewJob,
         RequestPC, LoginPC, DeletePC, ClaimPC
<1>2. QED BY <1>1, TypeStep, ArgsStep, PTL DEF Spec

\* Whatever operations of user.Service overlap, no reachable state holds a value
\* of the wrong type.
THEOREM TypeCorrect == Spec => []TypeOK
BY TypesAndArgs, PTL
-------------------------------------------------------------------------------
(* One live link, used once.                                               *)

\* Between LockLoginAddress and its end a request holds its address.
Serialised ==
    \A w \in Worker :
        pc[w] \in {"rCount", "rRetire", "rCommit"} => advisory[job[w].addr] = w

\* A login_tokens row is held by one transaction, and only after the statement
\* that wrote it.
RowsExclusive ==
    \A w \in Worker :
        /\ \A v \in Worker \ {w} : rows[w] \cap rows[v] = {}
        /\ rows[w] # {} => pc[w] \in {"rCommit", "cUpsert", "cCommit", "dUser", "dCommit"}

\* The token of a request under way is in no row, and in no other request.
FreshTokens ==
    \A w \in Worker : pc[w] \in RequestPC =>
        /\ use[job[w].tok] = "new"
        /\ \A v \in Worker \ {w} : pc[v] \in RequestPC => job[v].tok # job[w].tok

\* A request about to commit retires every link of its address that works.
RetiresAll ==
    \A w \in Worker : pc[w] = "rCommit" => rows[w] = OpenTokens(job[w].addr)

\* A login holds the row it spends, and it still works.
SpendsOne ==
    \A w \in Worker : pc[w] \in {"cUpsert", "cCommit"} =>
        rows[w] = {job[w].tok} /\ use[job[w].tok] = "open"

\* A link that can still be used has not been.
LoginCount ==
    \A k \in Token : /\ use[k] \in {"new", "open", "retired"} => logins[k] = 0
                     /\ logins[k] <= 1

LinkInv ==
    /\ Serialised /\ RowsExclusive /\ FreshTokens /\ RetiresAll /\ SpendsOne
    /\ LoginCount /\ AtMostOneLiveLink

\* Every step keeps the invariant of links.
LEMMA LinkStep == TypeOK /\ ArgsOK /\ LinkInv /\ [Next]_vars => LinkInv'
<1> USE NoneAssumption DEF RequestPC, LoginPC, DeletePC, ClaimPC
<1> SUFFICES ASSUME TypeOK, ArgsOK, LinkInv, [Next]_vars PROVE LinkInv'
    OBVIOUS
<1> USE DEF TypeOK, ArgsOK, LinkInv, Serialised, RowsExclusive, FreshTokens,
            RetiresAll, SpendsOne, LoginCount, AtMostOneLiveLink, OpenTokens
<1>1. ASSUME NEW w \in Worker, Start(w) PROVE LinkInv'
  <2> USE DEF Begin, NewJob
  <2>1. ASSUME NEW a \in Addr, NEW k \in Token, BeginRequest(w, a, k) PROVE LinkInv'
    BY <2>1 DEF BeginRequest
  <2>2. ASSUME NEW k \in Token, BeginComplete(w, k) PROVE LinkInv'
    BY <2>2 DEF BeginComplete
  <2>3. ASSUME NEW a \in Addr, BeginDelete(w, a) PROVE LinkInv'
    BY <2>3 DEF BeginDelete
  <2>4. ASSUME NEW a \in Addr, NEW h \in Handle, BeginClaim(w, a, h) PROVE LinkInv'
    BY <2>4 DEF BeginClaim
  <2>5. ASSUME BeginPurgeTokens(w) PROVE LinkInv'
    BY <2>5 DEF BeginPurgeTokens
  <2>6. QED BY <1>1, <2>1, <2>2, <2>3, <2>4, <2>5 DEF Start
<1>2. ASSUME NEW w \in Worker, Step(w) PROVE LinkInv'
  <2> USE DEF Goto, End
  <2>1. CASE LockLoginAddress(w)  BY <2>1 DEF LockLoginAddress
  <2>2. CASE CountRecent(w)       BY <2>2 DEF CountRecent
  <2>3. CASE BudgetExceeded(w)    BY <2>3 DEF BudgetExceeded
  <2>4. CASE InvalidateTokens(w)  BY <2>4 DEF InvalidateTokens, Unlocked
  <2>5. CASE CommitRequest(w)     BY <2>5 DEF CommitRequest
  <2>6. CASE ConsumeToken(w)      BY <2>6 DEF ConsumeToken, Unlocked, Consumable
  <2>7. CASE InvalidToken(w)      BY <2>7 DEF InvalidToken
  <2>8. CASE UpsertUser(w)        BY <2>8 DEF UpsertUser
  <2>9. CASE CommitLogin(w)       BY <2>9 DEF CommitLogin
  <2>10. CASE LockUserForDelete(w) BY <2>10 DEF LockUserForDelete
  <2>11. CASE UserNotFound(w)     BY <2>11 DEF UserNotFound
  <2>12. CASE ReserveHandle(w)    BY <2>12 DEF ReserveHandle, Job
  <2>13. CASE DeleteTokens(w)     BY <2>13 DEF DeleteTokens, Unlocked
  <2>14. CASE DeleteUser(w)       BY <2>14 DEF DeleteUser
  <2>15. CASE CommitDelete(w)     BY <2>15 DEF CommitDelete
  <2>16. CASE ClaimCheck(w)       BY <2>16 DEF ClaimCheck
  <2>17. CASE ClaimRow(w)         BY <2>17 DEF ClaimRow
  <2>18. CASE ClaimRefused(w)     BY <2>18 DEF ClaimRefused
  <2>19. CASE ClaimApply(w)       BY <2>19 DEF ClaimApply
  <2>20. CASE PurgeTokens(w)      BY <2>20 DEF PurgeTokens, Unlocked, OnRecord
  <2>21. QED
    BY <1>2, <2>1, <2>2, <2>3, <2>4, <2>5, <2>6, <2>7, <2>8, <2>9, <2>10, <2>11,
       <2>12, <2>13, <2>14, <2>15, <2>16, <2>17, <2>18, <2>19, <2>20 DEF Step
<1>3. ASSUME NEW w \in Worker, Abort(w) PROVE LinkInv'
  BY <1>3 DEF Abort, End, Goto
<1>4. CASE PurgeDeletedHandles BY <1>4 DEF PurgeDeletedHandles
<1>5. CASE Tick                BY <1>5 DEF Tick
<1>6. CASE UNCHANGED vars      BY <1>6
<1>7. QED BY <1>1, <1>2, <1>3, <1>4, <1>5, <1>6 DEF Next

\* The invariant of links holds in every reachable state.
LEMMA LinkInvariant == Spec => []LinkInv
<1>1. Init => LinkInv
  BY DEF Init, LinkInv, Serialised, RowsExclusive, FreshTokens, RetiresAll,
         SpendsOne, LoginCount, AtMostOneLiveLink, RequestPC
<1>2. QED BY <1>1, LinkStep, TypesAndArgs, PTL DEF Spec

\* InvalidateLoginTokensForEmail: at most one link of an address works, for any
\* number of concurrent requests, logins, deletions and purges.
THEOREM OneLiveLink == Spec => []AtMostOneLiveLink
BY LinkInvariant, PTL DEF LinkInv

\* ConsumeLoginToken: no link logs in twice.
THEOREM LinkUsedOnce == Spec => []SingleUse
<1>1. LinkInv => SingleUse BY DEF LinkInv, LoginCount, SingleUse
<1>2. QED BY <1>1, LinkInvariant, PTL

\* Both together: one link of an address works, and it works once.
THEOREM LinksSafe == Spec => []LinkRules
BY OneLiveLink, LinkUsedOnce, PTL DEF LinkRules
-------------------------------------------------------------------------------
(* Handles.                                                                *)

\* A transaction runs no longer than MaxTxTime, and what carries a time was
\* stamped before now, up to the skew of the application's clock.
ClocksOK ==
    /\ \A w \in Worker : pc[w] # "idle" =>
          job[w].now <= clock /\ clock <= job[w].now + MaxTxTime
    /\ \A w \in Worker : pc[w] \in DeletePC \cup ClaimPC => job[w].at <= clock + MaxSkew
    /\ \A k \in Token : created[k] <= clock

\* A deletion from its first read, and a claim at the unique index, hold the users
\* row; what the deletion reserves is the handle the row still has.
UserRowHeld ==
    \A w \in Worker :
        /\ pc[w] \in {"dReserve", "dTokens", "dUser", "dCommit", "hIndex"}
              => userLock[job[w].addr] = w
        /\ pc[w] \in {"dTokens", "dUser", "dCommit"} => job[w].handle = handle[job[w].addr]

\* deleted_handles tells of the last deletion, unless the reservation has run out.
ReservationKnown ==
    \A h \in Handle :
        \/ h \in reserved /\ deletedAt[h] = lastDel[h]
        \/ lastDel[h] + Reservation <= clock

\* A claim whose snapshot saw every deletion of its handle comes after the
\* reservation.
ClaimWaited ==
    \A w \in Worker \ racing : pc[w] \in {"hRow", "hIndex"} =>
        lastDel[job[w].handle] + Reservation <= clock + MaxSkew

HandleInv ==
    /\ ClocksOK /\ UserRowHeld /\ ReservationKnown /\ ClaimWaited
    /\ HandleUnique /\ HandleQuarantine

\* Every step keeps the clocks in order.
LEMMA ClocksStep == TypeOK /\ ArgsOK /\ ClocksOK /\ [Next]_vars => ClocksOK'
<1> USE NoneAssumption, DurationAssumption DEF RequestPC, LoginPC, DeletePC, ClaimPC
<1> SUFFICES ASSUME TypeOK, ArgsOK, ClocksOK, [Next]_vars PROVE ClocksOK'
    OBVIOUS
<1> USE DEF TypeOK, ArgsOK, ClocksOK, Job
<1>1. ASSUME NEW w \in Worker, Start(w) PROVE ClocksOK'
  <2> USE DEF Begin, NewJob, AppClock
  <2>1. ASSUME NEW a \in Addr, NEW k \in Token, BeginRequest(w, a, k) PROVE ClocksOK'
    BY <2>1 DEF BeginRequest
  <2>2. ASSUME NEW k \in Token, BeginComplete(w, k) PROVE ClocksOK'
    BY <2>2 DEF BeginComplete
  <2>3. ASSUME NEW a \in Addr, BeginDelete(w, a) PROVE ClocksOK'
    BY <2>3 DEF BeginDelete
  <2>4. ASSUME NEW a \in Addr, NEW h \in Handle, BeginClaim(w, a, h) PROVE ClocksOK'
    BY <2>4 DEF BeginClaim
  <2>5. ASSUME BeginPurgeTokens(w) PROVE ClocksOK'
    BY <2>5 DEF BeginPurgeTokens
  <2>6. QED BY <1>1, <2>1, <2>2, <2>3, <2>4, <2>5 DEF Start
<1>2. ASSUME NEW w \in Worker, Step(w) PROVE ClocksOK'
  <2> USE DEF Goto, End
  <2>1. CASE LockLoginAddress(w)  BY <2>1 DEF LockLoginAddress
  <2>2. CASE CountRecent(w)       BY <2>2 DEF CountRecent
  <2>3. CASE BudgetExceeded(w)    BY <2>3 DEF BudgetExceeded
  <2>4. CASE InvalidateTokens(w)  BY <2>4 DEF InvalidateTokens
  <2>5. CASE CommitRequest(w)     BY <2>5 DEF CommitRequest
  <2>6. CASE ConsumeToken(w)      BY <2>6 DEF ConsumeToken
  <2>7. CASE InvalidToken(w)      BY <2>7 DEF InvalidToken
  <2>8. CASE UpsertUser(w)        BY <2>8 DEF UpsertUser
  <2>9. CASE CommitLogin(w)       BY <2>9 DEF CommitLogin
  <2>10. CASE LockUserForDelete(w) BY <2>10 DEF LockUserForDelete
  <2>11. CASE UserNotFound(w)     BY <2>11 DEF UserNotFound
  <2>12. CASE ReserveHandle(w)    BY <2>12 DEF ReserveHandle
  <2>13. CASE DeleteTokens(w)     BY <2>13 DEF DeleteTokens
  <2>14. CASE DeleteUser(w)       BY <2>14 DEF DeleteUser
  <2>15. CASE CommitDelete(w)     BY <2>15 DEF CommitDelete
  <2>16. CASE ClaimCheck(w)       BY <2>16 DEF ClaimCheck
  <2>17. CASE ClaimRow(w)         BY <2>17 DEF ClaimRow
  <2>18. CASE ClaimRefused(w)     BY <2>18 DEF ClaimRefused
  <2>19. CASE ClaimApply(w)       BY <2>19 DEF ClaimApply
  <2>20. CASE PurgeTokens(w)      BY <2>20 DEF PurgeTokens
  <2>21. QED
    BY <1>2, <2>1, <2>2, <2>3, <2>4, <2>5, <2>6, <2>7, <2>8, <2>9, <2>10, <2>11,
       <2>12, <2>13, <2>14, <2>15, <2>16, <2>17, <2>18, <2>19, <2>20 DEF Step
<1>3. ASSUME NEW w \in Worker, Abort(w) PROVE ClocksOK'
  BY <1>3 DEF Abort, End, Goto
<1>4. CASE PurgeDeletedHandles BY <1>4 DEF PurgeDeletedHandles
<1>5. CASE Tick
  BY <1>5 DEF Tick
<1>6. CASE UNCHANGED vars      BY <1>6
<1>7. QED BY <1>1, <1>2, <1>3, <1>4, <1>5, <1>6 DEF Next

\* Every step keeps the invariant of handles.
LEMMA HandleStep == TypeOK /\ ArgsOK /\ HandleInv /\ [Next]_vars => HandleInv'
<1> USE NoneAssumption, DurationAssumption DEF RequestPC, LoginPC, DeletePC, ClaimPC
<1> SUFFICES ASSUME TypeOK, ArgsOK, HandleInv, [Next]_vars PROVE HandleInv'
    OBVIOUS
<1>0. ClocksOK' BY ClocksStep DEF HandleInv
<1> USE <1>0 DEF TypeOK, ArgsOK, HandleInv, UserRowHeld, ReservationKnown, ClaimWaited,
            HandleUnique, HandleQuarantine, Job
<1>1. ASSUME NEW w \in Worker, Start(w) PROVE HandleInv'
  <2> USE DEF Begin, NewJob, AppClock
  <2>1. ASSUME NEW a \in Addr, NEW k \in Token, BeginRequest(w, a, k) PROVE HandleInv'
    BY <2>1 DEF BeginRequest
  <2>2. ASSUME NEW k \in Token, BeginComplete(w, k) PROVE HandleInv'
    BY <2>2 DEF BeginComplete
  <2>3. ASSUME NEW a \in Addr, BeginDelete(w, a) PROVE HandleInv'
    BY <2>3 DEF BeginDelete
  <2>4. ASSUME NEW a \in Addr, NEW h \in Handle, BeginClaim(w, a, h) PROVE HandleInv'
    BY <2>4 DEF BeginClaim
  <2>5. ASSUME BeginPurgeTokens(w) PROVE HandleInv'
    BY <2>5 DEF BeginPurgeTokens
  <2>6. QED BY <1>1, <2>1, <2>2, <2>3, <2>4, <2>5 DEF Start
<1>2. ASSUME NEW w \in Worker, Step(w) PROVE HandleInv'
  <2> USE DEF Goto, End
  <2>1. CASE LockLoginAddress(w) BY <2>1 DEF LockLoginAddress
  <2>2. CASE CountRecent(w) BY <2>2 DEF CountRecent
  <2>3. CASE BudgetExceeded(w) BY <2>3 DEF BudgetExceeded
  <2>4. CASE InvalidateTokens(w) BY <2>4 DEF InvalidateTokens
  <2>5. CASE CommitRequest(w) BY <2>5 DEF CommitRequest
  <2>6. CASE ConsumeToken(w) BY <2>6 DEF ConsumeToken
  <2>7. CASE InvalidToken(w) BY <2>7 DEF InvalidToken
  <2>8. CASE UpsertUser(w) BY <2>8 DEF UpsertUser
  <2>9. CASE CommitLogin(w) BY <2>9 DEF CommitLogin
  <2>10. CASE LockUserForDelete(w) BY <2>10 DEF LockUserForDelete
  <2>11. CASE UserNotFound(w) BY <2>11 DEF UserNotFound
  <2>12. CASE ReserveHandle(w) BY <2>12 DEF ReserveHandle
  <2>13. CASE DeleteTokens(w) BY <2>13 DEF DeleteTokens
  <2>14. CASE DeleteUser(w) BY <2>14 DEF DeleteUser
  <2>15. CASE CommitDelete(w)
    <3> DEFINE a == job[w].addr
               h == job[w].handle
    <3>1. a \in Addr /\ h = handle[a] /\ userLock[a] = w BY <2>15 DEF CommitDelete
    <3>2. handle' = [handle EXCEPT ![a] = None] /\ raced' = raced \ {a}
      BY <2>15 DEF CommitDelete
    <3>3. UserRowHeld' BY <2>15, <3>1, <3>2 DEF CommitDelete
    <3>4. HandleUnique' BY <3>1, <3>2
    <3>5. CASE h = None
      <4>1. UNCHANGED <<reserved, deletedAt, lastDel, racing, clock, claimedAt>>
        BY <2>15, <3>5 DEF CommitDelete
      <4>2. ReservationKnown' /\ ClaimWaited' BY <2>15, <4>1 DEF CommitDelete
      <4>3. HandleQuarantine' BY <3>1, <3>2, <4>1
      <4>4. QED BY <3>3, <3>4, <4>2, <4>3
    <3>6. CASE h # None
      <4>1. /\ h \in Handle
            /\ reserved' = reserved \cup {h}
            /\ deletedAt' = [deletedAt EXCEPT ![h] = job[w].at]
            /\ lastDel' = [lastDel EXCEPT ![h] = job[w].at]
            /\ racing' = racing \cup
                  {v \in Worker : pc[v] \in {"hRow", "hIndex"} /\ job[v].handle = h}
            /\ UNCHANGED <<clock, claimedAt>>
        BY <2>15, <3>6 DEF CommitDelete
      <4>2. ReservationKnown' BY <4>1
      <4>3. ClaimWaited' BY <2>15, <4>1 DEF CommitDelete
      <4>4. HandleQuarantine'
        <5>1. \A b \in Addr : handle'[b] # h BY <3>1, <3>2, <3>6
        <5>2. QED BY <3>1, <3>2, <4>1, <5>1
      <4>5. QED BY <3>3, <3>4, <4>2, <4>3, <4>4
    <3>7. QED BY <3>5, <3>6
  <2>16. CASE ClaimCheck(w)
    <3> DEFINE h == job[w].handle
    <3>1. h \in Handle /\ job[w].at <= clock + MaxSkew /\ job[w].at \in Int
          /\ lastDel[h] \in Int
      BY <2>16 DEF ClaimCheck, ClocksOK
    <3>2. ~(h \in reserved /\ deletedAt[h] > job[w].at - Reservation)
      BY <2>16 DEF ClaimCheck, NotReserved
    <3>3. lastDel[h] + Reservation <= clock + MaxSkew
      <4>1. CASE h \in reserved /\ deletedAt[h] = lastDel[h] BY <3>1, <3>2, <4>1
      <4>2. CASE lastDel[h] + Reservation <= clock BY <3>1, <4>2
      <4>3. QED BY <3>1, <4>1, <4>2
    <3>4. ClaimWaited' BY <2>16, <3>3 DEF ClaimCheck
    <3>5. QED BY <2>16, <3>4 DEF ClaimCheck
  <2>17. CASE ClaimRow(w) BY <2>17 DEF ClaimRow
  <2>18. CASE ClaimRefused(w) BY <2>18 DEF ClaimRefused
  <2>19. CASE ClaimApply(w) BY <2>19 DEF ClaimApply, Holders
  <2>20. CASE PurgeTokens(w) BY <2>20 DEF PurgeTokens
  <2>21. QED
    BY <1>2, <2>1, <2>2, <2>3, <2>4, <2>5, <2>6, <2>7, <2>8, <2>9, <2>10, <2>11,
       <2>12, <2>13, <2>14, <2>15, <2>16, <2>17, <2>18, <2>19, <2>20 DEF Step
<1>3. ASSUME NEW w \in Worker, Abort(w) PROVE HandleInv'
  BY <1>3 DEF Abort, End, Goto
<1>4. CASE PurgeDeletedHandles BY <1>4 DEF PurgeDeletedHandles
<1>5. CASE Tick BY <1>5 DEF Tick
<1>6. CASE UNCHANGED vars BY <1>6
<1>7. QED BY <1>1, <1>2, <1>3, <1>4, <1>5, <1>6 DEF Next

\* The invariant of handles holds in every reachable state.
LEMMA HandleInvariant == Spec => []HandleInv
<1>1. Init => HandleInv
  BY NoneAssumption, DurationAssumption
     DEF Init, HandleInv, ClocksOK, UserRowHeld, ReservationKnown, ClaimWaited,
         HandleUnique, HandleQuarantine, DeletePC, ClaimPC
<1>2. QED BY <1>1, HandleStep, TypesAndArgs, PTL DEF Spec

\* users_handle_key and deleted_handles: a handle leads to one account, and passes
\* to another only after the reservation, whatever claims, deletions and purges
\* overlap and whichever of the two clocks each of them reads.
THEOREM HandlesSafe == Spec => []HandleRules
<1>1. HandleInv => HandleRules BY DEF HandleInv, HandleRules
<1>2. QED BY <1>1, HandleInvariant, PTL
-------------------------------------------------------------------------------
(* What a deletion or a purge has taken.                                   *)

Gone == {"purged", "deleted"}

\* A statement only looks for rows there were; of those a deletion saw it holds
\* the ones still on record, and those a purge looks for are past the retention.
SnapsKnown ==
    \A w \in Worker :
        /\ \A k \in snap[w] : use[k] # "new"
        /\ pc[w] \in {"dUser", "dCommit"} => \A k \in snap[w] \ rows[w] : use[k] \in Gone
        /\ pc[w] = "pApply" =>
              \A k \in snap[w] : created[k] + TokenTTL < clock - PurgeRetention

\* A link on record when its account was deleted never works again.
CondemnedGone == \A k \in condemned : use[k] \in Gone

\* The purge only drops links past the retention.
PurgedOld ==
    \A k \in Token : use[k] = "purged" => created[k] + TokenTTL < clock - PurgeRetention

RecordInv == SnapsKnown /\ CondemnedGone /\ PurgedOld

\* Every step keeps the invariant of what is taken.
LEMMA RecordStep == TypeOK /\ ArgsOK /\ LinkInv /\ RecordInv /\ [Next]_vars => RecordInv'
<1> USE NoneAssumption, DurationAssumption DEF RequestPC, LoginPC, DeletePC, ClaimPC
<1> SUFFICES ASSUME TypeOK, ArgsOK, LinkInv, RecordInv, [Next]_vars PROVE RecordInv'
    OBVIOUS
<1> USE DEF TypeOK, ArgsOK, LinkInv, RowsExclusive, FreshTokens, RetiresAll, SpendsOne,
            OpenTokens, RecordInv, SnapsKnown, CondemnedGone, PurgedOld, Gone, OnRecord, TokenUse
<1>1. ASSUME NEW w \in Worker, Start(w) PROVE RecordInv'
  <2> USE DEF Begin, NewJob, AppClock
  <2>1. ASSUME NEW a \in Addr, NEW k \in Token, BeginRequest(w, a, k) PROVE RecordInv'
    BY <2>1 DEF BeginRequest
  <2>2. ASSUME NEW k \in Token, BeginComplete(w, k) PROVE RecordInv'
    BY <2>2 DEF BeginComplete
  <2>3. ASSUME NEW a \in Addr, BeginDelete(w, a) PROVE RecordInv'
    BY <2>3 DEF BeginDelete
  <2>4. ASSUME NEW a \in Addr, NEW h \in Handle, BeginClaim(w, a, h) PROVE RecordInv'
    BY <2>4 DEF BeginClaim
  <2>5. ASSUME BeginPurgeTokens(w) PROVE RecordInv'
    BY <2>5 DEF BeginPurgeTokens
  <2>6. QED BY <1>1, <2>1, <2>2, <2>3, <2>4, <2>5 DEF Start
<1>2. ASSUME NEW w \in Worker, Step(w) PROVE RecordInv'
  <2> USE DEF Goto, End
  <2>1. CASE LockLoginAddress(w) BY <2>1 DEF LockLoginAddress
  <2>2. CASE CountRecent(w) BY <2>2 DEF CountRecent
  <2>3. CASE BudgetExceeded(w) BY <2>3 DEF BudgetExceeded
  <2>4. CASE InvalidateTokens(w) BY <2>4 DEF InvalidateTokens
  <2>5. CASE CommitRequest(w) BY <2>5 DEF CommitRequest
  <2>6. CASE ConsumeToken(w) BY <2>6 DEF ConsumeToken
  <2>7. CASE InvalidToken(w) BY <2>7 DEF InvalidToken
  <2>8. CASE UpsertUser(w) BY <2>8 DEF UpsertUser
  <2>9. CASE CommitLogin(w) BY <2>9 DEF CommitLogin
  <2>10. CASE LockUserForDelete(w) BY <2>10 DEF LockUserForDelete
  <2>11. CASE UserNotFound(w) BY <2>11 DEF UserNotFound
  <2>12. CASE ReserveHandle(w) BY <2>12 DEF ReserveHandle, Job
  <2>13. CASE DeleteTokens(w) BY <2>13 DEF DeleteTokens
  <2>14. CASE DeleteUser(w) BY <2>14 DEF DeleteUser
  <2>15. CASE CommitDelete(w) BY <2>15 DEF CommitDelete
  <2>16. CASE ClaimCheck(w) BY <2>16 DEF ClaimCheck
  <2>17. CASE ClaimRow(w) BY <2>17 DEF ClaimRow
  <2>18. CASE ClaimRefused(w) BY <2>18 DEF ClaimRefused
  <2>19. CASE ClaimApply(w) BY <2>19 DEF ClaimApply
  <2>20. CASE PurgeTokens(w) BY <2>20 DEF PurgeTokens
  <2>21. QED
    BY <1>2, <2>1, <2>2, <2>3, <2>4, <2>5, <2>6, <2>7, <2>8, <2>9, <2>10, <2>11,
       <2>12, <2>13, <2>14, <2>15, <2>16, <2>17, <2>18, <2>19, <2>20 DEF Step
<1>3. ASSUME NEW w \in Worker, Abort(w) PROVE RecordInv'
  BY <1>3 DEF Abort, End, Goto
<1>4. CASE PurgeDeletedHandles BY <1>4 DEF PurgeDeletedHandles
<1>5. CASE Tick BY <1>5 DEF Tick
<1>6. CASE UNCHANGED vars BY <1>6
<1>7. QED BY <1>1, <1>2, <1>3, <1>4, <1>5, <1>6 DEF Next

\* The invariant holds in every reachable state.
LEMMA RecordInvariant == Spec => []RecordInv
<1>1. Init => RecordInv
  BY DEF Init, RecordInv, SnapsKnown, CondemnedGone, PurgedOld
<1>2. QED BY <1>1, RecordStep, LinkInvariant, TypesAndArgs, PTL DEF Spec

\* Only the commit of a login counts as one.
LEMMA LoginsStep ==
    ASSUME [Next]_vars
    PROVE  logins' = logins \/ \E w \in Worker : CommitLogin(w)
<1>1. ASSUME NEW w \in Worker, Start(w) PROVE logins' = logins
  BY <1>1 DEF Start, BeginRequest, BeginComplete, BeginDelete, BeginClaim, BeginPurgeTokens
<1>2. ASSUME NEW w \in Worker, Step(w) PROVE logins' = logins \/ CommitLogin(w)
  BY <1>2 DEF Step, LockLoginAddress, CountRecent, BudgetExceeded, InvalidateTokens,
     CommitRequest, ConsumeToken, InvalidToken, UpsertUser, LockUserForDelete,
     UserNotFound, ReserveHandle, DeleteTokens, DeleteUser, CommitDelete, ClaimCheck,
     ClaimRow, ClaimRefused, ClaimApply, PurgeTokens
<1>3. ASSUME NEW w \in Worker, Abort(w) PROVE logins' = logins
  BY <1>3 DEF Abort
<1>4. QED BY <1>1, <1>2, <1>3 DEF Next, PurgeDeletedHandles, Tick

\* DeleteLoginTokensForEmail: a link that was on record when its account was
\* deleted logs nobody in again, so it cannot bring the account back, even when it
\* is being spent, retired or purged while the deletion runs.
THEOREM DeletionStands == Spec => NoResurrection
<1> DEFINE Kept == \A a \in Addr, k \in condemned :
                      acct[a] = 0 /\ acct'[a] # 0 => logins'[k] = logins[k]
<1>1. TypeOK /\ ArgsOK /\ LinkInv /\ RecordInv /\ [Next]_vars => Kept
  <2> SUFFICES ASSUME TypeOK, ArgsOK, LinkInv, RecordInv, [Next]_vars,
                      NEW k \in condemned
               PROVE  logins'[k] = logins[k]
      OBVIOUS
  <2>1. ASSUME NEW w \in Worker, CommitLogin(w) PROVE logins'[k] = logins[k]
    <3>1. use[job[w].tok] = "open" BY <2>1 DEF CommitLogin, LinkInv, SpendsOne
    <3>2. job[w].tok # k BY <3>1 DEF RecordInv, CondemnedGone, Gone
    <3>3. QED BY <2>1, <3>2 DEF CommitLogin, TypeOK
  <2>2. QED BY <2>1, LoginsStep
<1>2. QED
  BY <1>1, TypesAndArgs, LinkInvariant, RecordInvariant, PTL DEF Spec, NoResurrection
-------------------------------------------------------------------------------
(* The budget of links.                                                    *)

\* The links of a, thrown away or not by the purge, stamped in a window.
Sent(a, n) == Minted(a, n, {k \in Token : use[k] # "deleted"})

\* The other links of a that the request for its last one counted.
Before(a) ==
    {k \in Token \ {latest[a]} : /\ use[k] \in OnRecord
                                 /\ owner[k] = a
                                 /\ created[k] > created[latest[a]] - LoginBudgetWindow}

\* What a request has counted stays true until it commits: it holds its address.
Counted == \A w \in Worker : pc[w] \in {"rRetire", "rCommit"} => WithinBudget(w)

\* No window is over the budget, the ones that end in the future neither.
SentInv == \A a \in Addr, n \in Nat : Cardinality(Sent(a, n)) <= LoginBudget

\* The last link of an address is not the one that gets retired, and was within
\* the budget when it was minted.
LatestKnown ==
    \A a \in Addr :
        IF latest[a] = None
        THEN \A k \in Token : use[k] # "new" => owner[k] # a
        ELSE /\ use[latest[a]] \notin {"new", "retired"}
             /\ owner[latest[a]] = a
             /\ Cardinality(Before(a)) < LoginBudget

BudgetInv == Counted /\ SentInv /\ LatestKnown

\* A step that mints no link: links only fade.
Fades ==
    /\ UNCHANGED <<owner, created, latest>>
    /\ \A k \in Token :
          \/ use'[k] = use[k]
          \/ use[k] \in OnRecord /\ use'[k] \in {"spent", "purged"}
          \/ use[k] # "new" /\ use'[k] = "deleted"

\* A set of links is no larger than one that holds it.
LEMMA FewerTokens ==
    ASSUME NEW T \in SUBSET Token, NEW S \in SUBSET T
    PROVE  Cardinality(S) \in Nat /\ Cardinality(T) \in Nat /\ Cardinality(S) <= Cardinality(T)
<1>1. IsFiniteSet(T) BY SetAssumption, FS_Subset
<1>2. IsFiniteSet(S) BY <1>1, FS_Subset
<1>3. QED BY <1>1, <1>2, FS_Subset, FS_CardinalityType

\* Links fade in every step except the commit of a request.
LEMMA FadeStep ==
    ASSUME TypeOK, ArgsOK, LinkInv, [Next]_vars
    PROVE  Fades \/ \E w \in Worker : CommitRequest(w)
<1> USE DEF Fades
<1>1. ASSUME NEW w \in Worker, Start(w) PROVE Fades
  BY <1>1 DEF Start, BeginRequest, BeginComplete, BeginDelete, BeginClaim, BeginPurgeTokens
<1>2. ASSUME NEW w \in Worker, Step(w) PROVE Fades \/ CommitRequest(w)
  <2>1. CASE CommitLogin(w)
    BY <2>1 DEF CommitLogin, LinkInv, SpendsOne, OnRecord, TypeOK
  <2>2. CASE CommitDelete(w)
    BY <2>2 DEF CommitDelete, TypeOK, ArgsOK
  <2>3. CASE PurgeTokens(w)
    BY <2>3 DEF PurgeTokens
  <2>4. QED
    BY <1>2, <2>1, <2>2, <2>3 DEF Step, LockLoginAddress, CountRecent, BudgetExceeded,
       InvalidateTokens, ConsumeToken, InvalidToken, UpsertUser, LockUserForDelete,
       UserNotFound, ReserveHandle, DeleteTokens, DeleteUser, ClaimCheck, ClaimRow,
       ClaimRefused, ClaimApply
<1>3. ASSUME NEW w \in Worker, Abort(w) PROVE Fades
  BY <1>3 DEF Abort
<1>4. QED BY <1>1, <1>2, <1>3 DEF Next, PurgeDeletedHandles, Tick

\* A request that is about to mint has just counted, or was about to before.
LEMMA CountedBefore ==
    ASSUME TypeOK, [Next]_vars, NEW v \in Worker, pc'[v] \in {"rRetire", "rCommit"}
    PROVE  /\ job'[v] = job[v]
           /\ \/ pc[v] \in {"rRetire", "rCommit"}
              \/ pc[v] = "rCount" /\ WithinBudget(v)
<1> USE DEF TypeOK
<1>1. ASSUME NEW w \in Worker, Start(w)
      PROVE  job'[v] = job[v] /\ pc[v] \in {"rRetire", "rCommit"}
  BY <1>1 DEF Start, Begin, BeginRequest, BeginComplete, BeginDelete, BeginClaim,
     BeginPurgeTokens
<1>2. ASSUME NEW w \in Worker, Step(w), v # w
      PROVE  job'[v] = job[v] /\ pc[v] \in {"rRetire", "rCommit"}
  BY <1>2 DEF Step, Goto, End, LockLoginAddress, CountRecent, BudgetExceeded,
     InvalidateTokens, CommitRequest, ConsumeToken, InvalidToken, UpsertUser,
     CommitLogin, LockUserForDelete, UserNotFound, ReserveHandle, DeleteTokens,
     DeleteUser, CommitDelete, ClaimCheck, ClaimRow, ClaimRefused, ClaimApply, PurgeTokens
<1>3. ASSUME Step(v)
      PROVE  job'[v] = job[v] /\ (CountRecent(v) \/ InvalidateTokens(v))
  BY <1>3 DEF Step, Goto, End, LockLoginAddress, CountRecent, BudgetExceeded,
     InvalidateTokens, CommitRequest, ConsumeToken, InvalidToken, UpsertUser,
     CommitLogin, LockUserForDelete, UserNotFound, ReserveHandle, DeleteTokens,
     DeleteUser, CommitDelete, ClaimCheck, ClaimRow, ClaimRefused, ClaimApply, PurgeTokens
<1>4. ASSUME NEW w \in Worker, Abort(w)
      PROVE  job'[v] = job[v] /\ pc[v] \in {"rRetire", "rCommit"}
  BY <1>4 DEF Abort, End, Goto
<1>5. QED
  BY <1>1, <1>2, <1>3, <1>4
     DEF Next, PurgeDeletedHandles, Tick, CountRecent, InvalidateTokens

\* Fading keeps every count from growing.
LEMMA FadeKeepsBudget ==
    ASSUME TypeOK, BudgetInv, [Next]_vars, Fades
    PROVE  BudgetInv'
<1> USE DEF Fades
<1>1. \A a \in Addr, n \in Nat : Recent(a, n)' \subseteq Recent(a, n)
  BY DEF Recent, OnRecord
<1>2. Counted'
  <2> SUFFICES ASSUME NEW v \in Worker, pc'[v] \in {"rRetire", "rCommit"}
               PROVE  WithinBudget(v)'
      BY DEF Counted
  <2>1. job'[v] = job[v] /\ WithinBudget(v)
    BY CountedBefore DEF BudgetInv, Counted
  <2>2. Recent(job[v].addr, job[v].now)' \subseteq Recent(job[v].addr, job[v].now)
    BY <2>1 DEF Recent, OnRecord
  <2>3. Recent(job[v].addr, job[v].now) \in SUBSET Token BY DEF Recent
  <2>4. QED BY <2>1, <2>2, <2>3, FewerTokens, BudgetAssumption DEF WithinBudget
<1>3. SentInv'
  <2> SUFFICES ASSUME NEW a \in Addr, NEW n \in Nat
               PROVE  Cardinality(Sent(a, n)') <= LoginBudget
      BY DEF SentInv
  <2>1. Sent(a, n)' \subseteq Sent(a, n) BY DEF Sent, Minted, OnRecord
  <2>2. Sent(a, n) \in SUBSET Token BY DEF Sent, Minted
  <2>3. Cardinality(Sent(a, n)) <= LoginBudget BY DEF BudgetInv, SentInv
  <2>4. QED BY <2>1, <2>2, <2>3, FewerTokens, BudgetAssumption
<1>4. LatestKnown'
  <2> SUFFICES ASSUME NEW a \in Addr, latest[a] # None
               PROVE  /\ use'[latest[a]] \notin {"new", "retired"}
                      /\ owner'[latest[a]] = a
                      /\ Cardinality(Before(a)') < LoginBudget
      BY DEF LatestKnown, BudgetInv, OnRecord
  <2>1. Before(a)' \subseteq Before(a) BY DEF Before, OnRecord
  <2>2. Before(a) \in SUBSET Token BY DEF Before
  <2>3. /\ latest[a] \in Token
        /\ use[latest[a]] \notin {"new", "retired"}
        /\ owner[latest[a]] = a
        /\ Cardinality(Before(a)) < LoginBudget
    BY DEF BudgetInv, LatestKnown, TypeOK
  <2>4. Cardinality(Before(a)') < LoginBudget
    BY <2>1, <2>2, <2>3, FewerTokens, BudgetAssumption
  <2>5. QED BY <2>3, <2>4
<1>5. QED BY <1>2, <1>3, <1>4 DEF BudgetInv

\* A request mints within the budget of every window its link falls into: what
\* the purge has dropped since is older than all of them, and nobody else can mint
\* for the address it holds.
LEMMA MintKeepsBudget ==
    ASSUME TypeOK, ArgsOK, LinkInv, ClocksOK, PurgedOld, BudgetInv, [Next]_vars,
           NEW w \in Worker, CommitRequest(w)
    PROVE  BudgetInv'
<1> DEFINE k == job[w].tok
           a == job[w].addr
           now == job[w].now
<1>1. /\ k \in Token /\ a \in Addr /\ now \in Nat
      /\ use[k] = "new" /\ pc[w] = "rCommit"
      /\ rows[w] = OpenTokens(a)
  BY DEF CommitRequest, TypeOK, Job, ArgsOK, RequestPC, LoginPC, LinkInv, FreshTokens,
         RetiresAll
<1>2. \A t \in Token : use'[t] = IF t = k THEN "open"
                                 ELSE IF t \in OpenTokens(a) THEN "retired" ELSE use[t]
  BY <1>1 DEF CommitRequest
<1>3. /\ owner' = [owner EXCEPT ![k] = a]
      /\ created' = [created EXCEPT ![k] = now]
      /\ latest' = [latest EXCEPT ![a] = k]
      /\ clock' = clock
  BY DEF CommitRequest
<1>4. Cardinality(Recent(a, now)) < LoginBudget
  BY <1>1 DEF BudgetInv, Counted, WithinBudget
<1>5. Recent(a, now) \in SUBSET Token /\ k \notin Recent(a, now)
  BY <1>1 DEF Recent, OnRecord
<1> HIDE DEF k, a, now
<1> USE DEF TypeOK
<1>6. Counted'
  <2> SUFFICES ASSUME NEW v \in Worker, pc'[v] \in {"rRetire", "rCommit"}
               PROVE  WithinBudget(v)'
      BY DEF Counted
  <2>1. job'[v] = job[v] /\ WithinBudget(v)
    BY CountedBefore DEF BudgetInv, Counted
  <2>2. v # w /\ pc[v] = pc'[v] BY <1>1 DEF CommitRequest, End, Goto
  <2>3. job[v].addr # a
    BY <1>1, <2>2, NoneAssumption DEF LinkInv, Serialised, a
  <2>4. Recent(job[v].addr, job[v].now)' = Recent(job[v].addr, job[v].now)
    BY <1>1, <1>2, <1>3, <2>1, <2>3 DEF Recent, OnRecord, OpenTokens
  <2>5. QED BY <2>1, <2>4 DEF WithinBudget
<1>7. SentInv'
  <2> SUFFICES ASSUME NEW b \in Addr, NEW n \in Nat
               PROVE  Cardinality(Sent(b, n)') <= LoginBudget
      BY DEF SentInv
  <2>1. Sent(b, n)' \ {k} \subseteq Sent(b, n)
    BY <1>1, <1>2, <1>3 DEF Sent, Minted, OpenTokens
  <2>2. Sent(b, n) \in SUBSET Token /\ Cardinality(Sent(b, n)) <= LoginBudget
    BY DEF Sent, Minted, BudgetInv, SentInv
  <2>3. CASE k \notin Sent(b, n)'
    BY <2>1, <2>2, <2>3, FewerTokens, BudgetAssumption
  <2>4. CASE k \in Sent(b, n)'
    <3>1. b = a /\ n - LoginBudgetWindow < now /\ now <= n
      BY <1>1, <1>3, <2>4 DEF Sent, Minted
    <3>2. ASSUME NEW t \in Sent(b, n)' \ {k} PROVE t \in Recent(a, now)
      <4>1. /\ t \in Token /\ t # k /\ use[t] \notin {"new", "deleted"} /\ owner[t] = a
            /\ n - LoginBudgetWindow < created[t]
        BY <2>1, <3>1, <3>2 DEF Sent, Minted
      <4>2. use[t] # "purged"
        <5>1. clock <= now + MaxTxTime BY <1>1 DEF ClocksOK, now
        <5>2. created[t] \in Nat /\ clock \in Nat BY <4>1
        <5>3. ~(created[t] + TokenTTL < clock - PurgeRetention)
          BY <1>1, <3>1, <4>1, <5>1, <5>2, DurationAssumption, WindowAssumption
        <5>4. QED BY <4>1, <5>3 DEF PurgedOld
      <4>3. created[t] > now - LoginBudgetWindow
        BY <1>1, <3>1, <4>1, DurationAssumption
      <4>4. QED BY <4>1, <4>2, <4>3 DEF Recent, OnRecord, TokenUse
    <3>3. Sent(b, n)' = (Sent(b, n)' \ {k}) \cup {k} BY <2>4
    <3>4. IsFiniteSet(Sent(b, n)' \ {k})
      BY <1>5, <3>2, SetAssumption, FS_Subset
    <3>5. Cardinality(Sent(b, n)' \ {k}) <= Cardinality(Recent(a, now))
      BY <1>5, <3>2, FewerTokens
    <3>6. Cardinality(Sent(b, n)') = Cardinality(Sent(b, n)' \ {k}) + 1
      BY <3>3, <3>4, FS_AddElement
    <3>7. Cardinality(Sent(b, n)' \ {k}) \in Nat /\ Cardinality(Recent(a, now)) \in Nat
      BY <1>5, <3>2, FewerTokens
    <3>8. QED BY <1>4, <3>5, <3>6, <3>7, BudgetAssumption
  <2>5. QED BY <2>3, <2>4
<1>8. LatestKnown'
  <2> SUFFICES ASSUME NEW b \in Addr
               PROVE  IF latest'[b] = None
                      THEN \A t \in Token : use'[t] # "new" => owner'[t] # b
                      ELSE /\ use'[latest'[b]] \notin {"new", "retired"}
                           /\ owner'[latest'[b]] = b
                           /\ Cardinality(Before(b)') < LoginBudget
      BY DEF LatestKnown
  <2>1. CASE b = a
    <3>1. latest'[b] = k /\ k # None BY <1>1, <1>3, <2>1, NoneAssumption
    <3>2. use'[k] = "open" /\ owner'[k] = b /\ created'[k] = now
      BY <1>1, <1>2, <1>3, <2>1
    <3>3. Before(b)' = Recent(a, now)
      BY <1>1, <1>2, <1>3, <2>1, <3>1, <3>2 DEF Before, Recent, OnRecord, OpenTokens
    <3>4. QED BY <1>4, <3>1, <3>2, <3>3
  <2>2. CASE b # a
    <3>1. latest'[b] = latest[b] BY <1>3, <2>2
    <3>2. CASE latest[b] = None
      BY <1>1, <1>2, <1>3, <2>2, <3>1, <3>2 DEF BudgetInv, LatestKnown, OpenTokens
    <3>3. CASE latest[b] # None
      <4>1. /\ latest[b] \in Token
            /\ use[latest[b]] \notin {"new", "retired"}
            /\ owner[latest[b]] = b
            /\ Cardinality(Before(b)) < LoginBudget
        BY <3>3 DEF BudgetInv, LatestKnown
      <4>2. latest[b] # k /\ latest[b] \notin OpenTokens(a)
        BY <1>1, <2>2, <4>1 DEF OpenTokens
      <4>3. /\ use'[latest[b]] = use[latest[b]] /\ owner'[latest[b]] = b
            /\ created'[latest[b]] = created[latest[b]]
        BY <1>2, <1>3, <4>1, <4>2
      <4>4. Before(b)' \subseteq Before(b)
        BY <1>1, <1>2, <1>3, <2>2, <3>1, <4>3 DEF Before, OnRecord, OpenTokens
      <4>5. Before(b) \in SUBSET Token BY DEF Before
      <4>6. Cardinality(Before(b)') < LoginBudget
        BY <4>1, <4>4, <4>5, FewerTokens, BudgetAssumption
      <4>7. QED BY <3>1, <3>3, <4>1, <4>3, <4>6
    <3>4. QED BY <3>2, <3>3
  <2>3. QED BY <2>1, <2>2
<1>9. QED BY <1>6, <1>7, <1>8 DEF BudgetInv

\* The budget holds in every reachable state.
LEMMA BudgetInvariant == Spec => []BudgetInv
<1>1. Init => BudgetInv
  <2> SUFFICES ASSUME Init PROVE BudgetInv
      OBVIOUS
  <2>1. \A a \in Addr, n \in Nat : Sent(a, n) = {} BY DEF Init, Sent, Minted
  <2>2. SentInv BY <2>1, FS_EmptySet, BudgetAssumption DEF SentInv
  <2>3. Counted BY DEF Init, Counted
  <2>4. LatestKnown BY DEF Init, LatestKnown
  <2>5. QED BY <2>2, <2>3, <2>4 DEF BudgetInv
<1>2. TypeOK /\ ArgsOK /\ LinkInv /\ HandleInv /\ RecordInv /\ BudgetInv /\ [Next]_vars
         => BudgetInv'
  BY FadeStep, FadeKeepsBudget, MintKeepsBudget DEF HandleInv, RecordInv
<1>3. QED
  BY <1>1, <1>2, TypesAndArgs, LinkInvariant, HandleInvariant, RecordInvariant, PTL DEF Spec

\* LoginBudget: however requests overlap, whenever their transactions began and
\* whatever the purge drops meanwhile, no window holds more links of an address
\* than the budget.
THEOREM BudgetKept == Spec => []InboxBudget
<1>1. TypeOK /\ BudgetInv => InboxBudget
  BY DEF TypeOK, BudgetInv, SentInv, Sent, InboxBudget
<1>2. QED BY <1>1, TypesAndArgs, BudgetInvariant, PTL

\* LoginBudgetWindow = TokenTTL: nobody is locked out by the budget without a link
\* that works or a login: when the window is full, the last link is in it.
THEOREM NotLockedOut == Spec => []WayIn
<1>1. TypeOK /\ ClocksOK /\ BudgetInv => WayIn
  <2> SUFFICES ASSUME TypeOK, ClocksOK, BudgetInv, NEW a \in Addr,
                      ~(Cardinality(Recent(a, clock)) < LoginBudget)
               PROVE  /\ latest[a] # None
                      /\ \/ use[latest[a]] = "open" /\ created[latest[a]] + TokenTTL > clock
                         \/ use[latest[a]] = "spent"
      BY DEF WayIn
  <2> DEFINE m == latest[a]
  <2>1. m # None
    <3>1. CASE m = None
      <4>1. Recent(a, clock) = {}
        BY <3>1 DEF BudgetInv, LatestKnown, Recent, OnRecord
      <4>2. QED BY <4>1, FS_EmptySet, BudgetAssumption
    <3>2. QED BY <3>1
  <2>2. /\ m \in Token /\ use[m] \notin {"new", "retired"}
        /\ Cardinality(Before(a)) < LoginBudget
    BY <2>1 DEF BudgetInv, LatestKnown, TypeOK
  <2>3. created[m] \in Nat /\ clock \in Nat /\ created[m] <= clock
    BY <2>2 DEF TypeOK, ClocksOK
  <2>4. m \in Recent(a, clock)
    <3>1. CASE m \notin Recent(a, clock)
      <4>1. ASSUME NEW t \in Recent(a, clock) PROVE t \in Before(a)
        <5>1. created[t] \in Nat BY DEF Recent, TypeOK
        <5>2. created[t] > created[m] - LoginBudgetWindow
          BY <2>3, <5>1, DurationAssumption DEF Recent
        <5>3. QED BY <3>1, <5>2 DEF Recent, Before
      <4>2. Before(a) \in SUBSET Token BY DEF Before
      <4>3. QED BY <2>2, <4>1, <4>2, FewerTokens, BudgetAssumption
    <3>2. QED BY <3>1
  <2>5. created[m] + TokenTTL > clock
    BY <2>3, <2>4, DurationAssumption, WindowAssumption DEF Recent
  <2>6. QED BY <2>1, <2>2, <2>4, <2>5 DEF Recent, OnRecord
<1>2. HandleInv => ClocksOK BY DEF HandleInv
<1>3. QED BY <1>1, <1>2, TypesAndArgs, HandleInvariant, BudgetInvariant, PTL
-------------------------------------------------------------------------------
(* Waiting for locks.                                                      *)

AddressPC == {"rCount", "rRetire", "rCommit"}
UserRowPC == {"cCommit", "dReserve", "dTokens", "dUser", "dCommit", "hIndex"}

\* A lock is held by a transaction that is at a statement after the one that took
\* it: none outlives its transaction.
LocksHeld ==
    \A a \in Addr :
        /\ advisory[a] # None => pc[advisory[a]] \in AddressPC /\ job[advisory[a]].addr = a
        /\ userLock[a] # None => pc[userLock[a]] \in UserRowPC /\ job[userLock[a]].addr = a

\* A login works on the address of its token, and a deletion looks for tokens of
\* its own address.
OwnTokens ==
    \A w \in Worker :
        /\ pc[w] \in LoginPC => use[job[w].tok] # "new" /\ owner[job[w].tok] = job[w].addr
        /\ pc[w] = "dTokens" => \A k \in snap[w] : use[k] # "new" /\ owner[k] = job[w].addr

WaitInv == LocksHeld /\ OwnTokens

\* Every step keeps the invariant of waiting.
LEMMA WaitStep == TypeOK /\ ArgsOK /\ LinkInv /\ WaitInv /\ [Next]_vars => WaitInv'
<1> USE NoneAssumption DEF RequestPC, LoginPC, DeletePC, ClaimPC, AddressPC, UserRowPC
<1> SUFFICES ASSUME TypeOK, ArgsOK, LinkInv, WaitInv, [Next]_vars PROVE WaitInv'
    OBVIOUS
<1> USE DEF TypeOK, ArgsOK, LinkInv, RowsExclusive, FreshTokens, RetiresAll, SpendsOne,
            OpenTokens, OnRecord, WaitInv, LocksHeld, OwnTokens
<1>1. ASSUME NEW w \in Worker, Start(w) PROVE WaitInv'
  <2> USE DEF Begin, NewJob, AppClock
  <2>1. ASSUME NEW a \in Addr, NEW k \in Token, BeginRequest(w, a, k) PROVE WaitInv'
    BY <2>1 DEF BeginRequest
  <2>2. ASSUME NEW k \in Token, BeginComplete(w, k) PROVE WaitInv'
    BY <2>2 DEF BeginComplete
  <2>3. ASSUME NEW a \in Addr, BeginDelete(w, a) PROVE WaitInv'
    BY <2>3 DEF BeginDelete
  <2>4. ASSUME NEW a \in Addr, NEW h \in Handle, BeginClaim(w, a, h) PROVE WaitInv'
    BY <2>4 DEF BeginClaim
  <2>5. ASSUME BeginPurgeTokens(w) PROVE WaitInv'
    BY <2>5 DEF BeginPurgeTokens
  <2>6. QED BY <1>1, <2>1, <2>2, <2>3, <2>4, <2>5 DEF Start
<1>2. ASSUME NEW w \in Worker, Step(w) PROVE WaitInv'
  <2> USE DEF Goto, End
  <2>1. CASE LockLoginAddress(w) BY <2>1 DEF LockLoginAddress
  <2>2. CASE CountRecent(w) BY <2>2 DEF CountRecent
  <2>3. CASE BudgetExceeded(w) BY <2>3 DEF BudgetExceeded
  <2>4. CASE InvalidateTokens(w) BY <2>4 DEF InvalidateTokens
  <2>5. CASE CommitRequest(w) BY <2>5 DEF CommitRequest
  <2>6. CASE ConsumeToken(w) BY <2>6 DEF ConsumeToken, Consumable
  <2>7. CASE InvalidToken(w) BY <2>7 DEF InvalidToken
  <2>8. CASE UpsertUser(w) BY <2>8 DEF UpsertUser
  <2>9. CASE CommitLogin(w) BY <2>9 DEF CommitLogin
  <2>10. CASE LockUserForDelete(w) BY <2>10 DEF LockUserForDelete
  <2>11. CASE UserNotFound(w) BY <2>11 DEF UserNotFound
  <2>12. CASE ReserveHandle(w) BY <2>12 DEF ReserveHandle, Job
  <2>13. CASE DeleteTokens(w) BY <2>13 DEF DeleteTokens
  <2>14. CASE DeleteUser(w) BY <2>14 DEF DeleteUser
  <2>15. CASE CommitDelete(w) BY <2>15 DEF CommitDelete
  <2>16. CASE ClaimCheck(w) BY <2>16 DEF ClaimCheck
  <2>17. CASE ClaimRow(w) BY <2>17 DEF ClaimRow
  <2>18. CASE ClaimRefused(w) BY <2>18 DEF ClaimRefused
  <2>19. CASE ClaimApply(w) BY <2>19 DEF ClaimApply
  <2>20. CASE PurgeTokens(w) BY <2>20 DEF PurgeTokens
  <2>21. QED
    BY <1>2, <2>1, <2>2, <2>3, <2>4, <2>5, <2>6, <2>7, <2>8, <2>9, <2>10, <2>11,
       <2>12, <2>13, <2>14, <2>15, <2>16, <2>17, <2>18, <2>19, <2>20 DEF Step
<1>3. ASSUME NEW w \in Worker, Abort(w) PROVE WaitInv'
  BY <1>3 DEF Abort, End, Goto
<1>4. CASE PurgeDeletedHandles BY <1>4 DEF PurgeDeletedHandles
<1>5. CASE Tick BY <1>5 DEF Tick
<1>6. CASE UNCHANGED vars BY <1>6
<1>7. QED BY <1>1, <1>2, <1>3, <1>4, <1>5, <1>6 DEF Next

\* The invariant holds in every reachable state.
LEMMA WaitInvariant == Spec => []WaitInv
<1>1. Init => WaitInv
  BY DEF Init, WaitInv, LocksHeld, OwnTokens, LoginPC
<1>2. QED BY <1>1, WaitStep, LinkInvariant, TypesAndArgs, PTL DEF Spec

\* How far a statement is from one that waits for nobody.
Rank(label) ==
    CASE label = "rLock" -> 4
      [] label \in {"rRetire", "cConsume", "pApply"} -> 3
      [] label \in {"cUpsert", "dLock", "hRow"} -> 2
      [] label \in {"dTokens", "hIndex"} -> 1
      [] OTHER -> 0

\* Waits go down the ranks, except from a deletion to a login of the same address
\* that waits for it in turn.
LEMMA WaitsGoDown ==
    ASSUME TypeOK, ArgsOK, LinkInv, UserRowHeld, WaitInv,
           NEW w \in Running, NEW v \in Running, WaitsFor(w, v)
    PROVE  Rank(pc[v]) < Rank(pc[w]) \/ (v # w /\ WaitsFor(v, w))
<1> USE NoneAssumption DEF TypeOK, Running, RequestPC, LoginPC, DeletePC
<1>1. ASSUME rows[v] # {}
      PROVE  pc[v] \in {"rCommit", "cUpsert", "cCommit", "dUser", "dCommit"}
  BY <1>1 DEF LinkInv, RowsExclusive
<1>2. CASE pc[w] = "rLock" /\ advisory[job[w].addr] = v
  BY <1>2 DEF ArgsOK, WaitInv, LocksHeld, AddressPC, Rank
<1>3. CASE pc[w] \in {"rRetire", "cConsume", "pApply"} /\ rows[v] # {}
  BY <1>1, <1>3 DEF Rank
<1>4. CASE pc[w] \in {"cUpsert", "dLock", "hRow"} /\ userLock[job[w].addr] = v
  <2>1. job[w].addr \in Addr BY <1>4 DEF ArgsOK, ClaimPC
  <2>2. v # None BY DEF Running
  <2>3. pc[v] \in UserRowPC BY <1>4, <2>1, <2>2 DEF WaitInv, LocksHeld
  <2>4. Rank(pc[v]) \in {0, 1} BY <2>3 DEF UserRowPC, Rank
  <2>5. Rank(pc[w]) = 2 BY <1>4 DEF Rank
  <2>6. QED BY <2>4, <2>5
<1>5. CASE pc[w] = "dTokens" /\ rows[v] \cap snap[w] # {}
  <2>1. CASE pc[v] # "cUpsert" BY <1>1, <1>5, <2>1 DEF Rank
  <2>2. CASE pc[v] = "cUpsert"
    <3>1. rows[v] = {job[v].tok} BY <2>2 DEF LinkInv, SpendsOne
    <3>2. job[v].addr = job[w].addr BY <1>5, <2>2, <3>1 DEF WaitInv, OwnTokens
    <3>3. userLock[job[w].addr] = w BY <1>5 DEF UserRowHeld
    <3>4. QED BY <1>5, <2>2, <3>2, <3>3 DEF WaitsFor
  <2>3. QED BY <2>1, <2>2
<1>6. CASE pc[w] = "hIndex" /\ pc[v] = "dCommit"
  BY <1>6 DEF Rank
<1>7. QED BY <1>2, <1>3, <1>4, <1>5, <1>6 DEF WaitsFor

\* A worker that is not ready finds its lock with a transaction that is running.
LEMMA WaitsForRunning ==
    ASSUME TypeOK, ArgsOK, LinkInv, WaitInv, NEW w \in Running, ~Ready(w)
    PROVE  \E v \in Running : WaitsFor(w, v)
<1> USE NoneAssumption DEF TypeOK, Running
<1>1. ASSUME NEW v \in Worker, rows[v] # {}
      PROVE  v \in Running
  BY <1>1 DEF LinkInv, RowsExclusive
<1>2. CASE pc[w] = "rLock"
  <2>1. job[w].addr \in Addr /\ advisory[job[w].addr] # None
    BY <1>2 DEF ArgsOK, RequestPC, Ready
  <2>2. advisory[job[w].addr] \in Running
    BY <2>1 DEF WaitInv, LocksHeld, AddressPC
  <2>3. QED BY <1>2, <2>2 DEF WaitsFor
<1>3. CASE pc[w] \in {"cUpsert", "dLock", "hRow"}
  <2>1. job[w].addr \in Addr /\ userLock[job[w].addr] # None
    BY <1>3 DEF ArgsOK, LoginPC, DeletePC, ClaimPC, Ready
  <2>2. userLock[job[w].addr] \in Running
    BY <2>1 DEF WaitInv, LocksHeld, UserRowPC
  <2>3. QED BY <1>3, <2>2 DEF WaitsFor
<1>4. CASE pc[w] = "rRetire"
  BY <1>1, <1>4 DEF Ready, Unlocked, WaitsFor
<1>5. CASE pc[w] = "cConsume"
  BY <1>1, <1>5 DEF Ready, Unlocked, WaitsFor
<1>6. CASE pc[w] \in {"dTokens", "pApply"}
  BY <1>1, <1>6 DEF Ready, Unlocked, WaitsFor
<1>7. CASE pc[w] = "hIndex"
  BY <1>7 DEF Ready, HolderLeaving, WaitsFor
<1>8. QED
  BY <1>2, <1>3, <1>4, <1>5, <1>6, <1>7 DEF PC, Ready

\* Of some workers one has the lowest rank.
LEMMA LowestRank ==
    ASSUME NEW S \in (SUBSET Worker) \ {{}}
    PROVE  \E w \in S : \A v \in S : Rank(pc[w]) <= Rank(pc[v])
<1>1. \A w \in S : Rank(pc[w]) \in 0..4 BY DEF Rank
<1> HIDE DEF Rank
<1>2. CASE \E w \in S : Rank(pc[w]) = 0 BY <1>1, <1>2
<1>3. CASE \A w \in S : Rank(pc[w]) # 0
  <2>1. \A w \in S : Rank(pc[w]) \in 1..4 BY <1>1, <1>3
  <2>2. CASE \E w \in S : Rank(pc[w]) = 1 BY <2>1, <2>2
  <2>3. CASE \A w \in S : Rank(pc[w]) # 1
    <3>1. \A w \in S : Rank(pc[w]) \in 2..4 BY <2>1, <2>3
    <3>2. CASE \E w \in S : Rank(pc[w]) = 2 BY <3>1, <3>2
    <3>3. CASE \A w \in S : Rank(pc[w]) # 2
      <4>1. \A w \in S : Rank(pc[w]) \in 3..4 BY <3>1, <3>3
      <4>2. QED BY <4>1
    <3>4. QED BY <3>2, <3>3
  <2>4. QED BY <2>2, <2>3
<1>4. QED BY <1>2, <1>3

\* A worker takes no step before the locks it asks for are free.
LEMMA StepsWhenReady == ASSUME NEW w \in Worker, Step(w) PROVE Ready(w)
BY DEF Step, Ready, LockLoginAddress, CountRecent, BudgetExceeded, InvalidateTokens,
   CommitRequest, ConsumeToken, InvalidToken, UpsertUser, CommitLogin,
   LockUserForDelete, UserNotFound, ReserveHandle, DeleteTokens, DeleteUser,
   CommitDelete, ClaimCheck, ClaimRow, ClaimRefused, ClaimApply, PurgeTokens, HolderLeaving

\* CompleteLogin and DeleteAccount take their locks in opposite orders, requests,
\* claims and the purge wait for both: still, for any number of transactions, a
\* wait leads to a running transaction, and no cycle of waits is without a pair
\* that the detector ends.  Nobody is stuck if a ready worker can take its step.
THEOREM NobodyIsStuck == Spec => []Unstuck /\ [](ReadyGoesOn => NobodyStuck)
<1>1. TypeOK /\ ArgsOK /\ LinkInv /\ UserRowHeld /\ WaitInv => Unstuck
  <2> SUFFICES ASSUME TypeOK, ArgsOK, LinkInv, UserRowHeld, WaitInv PROVE Unstuck
      OBVIOUS
  <2>1. ASSUME NEW S \in (SUBSET Running) \ {{}}
        PROVE  \E w \in S : Deadlocked(w) \/ \A v \in S : ~WaitsFor(w, v)
    <3>1. S \in (SUBSET Worker) \ {{}} BY DEF Running
    <3>2. PICK w \in S : \A v \in S : Rank(pc[w]) <= Rank(pc[v])
      BY <3>1, LowestRank
    <3>3. ASSUME NEW v \in S, WaitsFor(w, v) PROVE Deadlocked(w)
      <4>1. w \in Running /\ v \in Running /\ v \in Worker BY <3>1
      <4>2. ~(Rank(pc[v]) < Rank(pc[w]))
        <5>1. \A l \in {pc[v], pc[w]} : Rank(l) \in Nat BY DEF Rank
        <5>2. QED BY <3>2, <5>1
      <4>3. v # w /\ WaitsFor(v, w) BY <3>3, <4>1, <4>2, WaitsGoDown
      <4>4. QED BY <3>3, <4>1, <4>3 DEF Deadlocked
    <3>4. QED BY <3>3
  <2>2. QED BY <2>1, WaitsForRunning DEF Unstuck
<1>2. HandleInv => UserRowHeld BY DEF HandleInv
<1>3. Unstuck => (ReadyGoesOn => NobodyStuck) BY DEF NobodyStuck
<1>4. QED
  BY <1>1, <1>2, <1>3, TypesAndArgs, LinkInvariant, HandleInvariant, WaitInvariant, PTL
-------------------------------------------------------------------------------
(* Operations one after the other.                                         *)

\* What an operation matched, read or saw stays so until it commits: a login its
\* link, a deletion its account and the links it holds, a claim its account.
StillSo ==
    \A w \in Worker :
        /\ pc[w] \in {"cUpsert", "cCommit"} => created[job[w].tok] + TokenTTL > job[w].now
        /\ pc[w] \in DeletePC \cup ClaimPC => job[w].id # 0
        /\ pc[w] \in {"dReserve", "dTokens", "dUser", "dCommit"} =>
              acct[job[w].addr] = job[w].id
        /\ pc[w] = "hIndex" => Claimable(w)
        /\ pc[w] \in {"dUser", "dCommit"} =>
              \A k \in rows[w] : k \in snap[w] /\ use[k] \in OnRecord
        /\ pc[w] = "idle" => snap[w] = {}

\* Every step keeps what the operations under way rely on.
LEMMA StillSoStep ==
    TypeOK /\ ArgsOK /\ LinkInv /\ UserRowHeld /\ WaitInv /\ StillSo /\ [Next]_vars
        => StillSo'
<1> USE NoneAssumption DEF RequestPC, LoginPC, DeletePC, ClaimPC
<1> SUFFICES ASSUME TypeOK, ArgsOK, LinkInv, UserRowHeld, WaitInv, StillSo, [Next]_vars
             PROVE  StillSo'
    OBVIOUS
<1> USE DEF TypeOK, ArgsOK, LinkInv, RowsExclusive, FreshTokens, RetiresAll, SpendsOne,
            OpenTokens, OnRecord, UserRowHeld, WaitInv, OwnTokens, StillSo, Claimable
<1>1. ASSUME NEW w \in Worker, Start(w) PROVE StillSo'
  <2> USE DEF Begin, NewJob, AppClock
  <2>1. ASSUME NEW a \in Addr, NEW k \in Token, BeginRequest(w, a, k) PROVE StillSo'
    BY <2>1 DEF BeginRequest
  <2>2. ASSUME NEW k \in Token, BeginComplete(w, k) PROVE StillSo'
    BY <2>2 DEF BeginComplete
  <2>3. ASSUME NEW a \in Addr, BeginDelete(w, a) PROVE StillSo'
    BY <2>3 DEF BeginDelete
  <2>4. ASSUME NEW a \in Addr, NEW h \in Handle, BeginClaim(w, a, h) PROVE StillSo'
    BY <2>4 DEF BeginClaim
  <2>5. ASSUME BeginPurgeTokens(w) PROVE StillSo'
    BY <2>5 DEF BeginPurgeTokens
  <2>6. QED BY <1>1, <2>1, <2>2, <2>3, <2>4, <2>5 DEF Start
<1>2. ASSUME NEW w \in Worker, Step(w) PROVE StillSo'
  <2> USE DEF Goto, End
  <2>1. CASE LockLoginAddress(w) BY <2>1 DEF LockLoginAddress
  <2>2. CASE CountRecent(w) BY <2>2 DEF CountRecent
  <2>3. CASE BudgetExceeded(w) BY <2>3 DEF BudgetExceeded
  <2>4. CASE InvalidateTokens(w) BY <2>4 DEF InvalidateTokens
  <2>5. CASE CommitRequest(w) BY <2>5 DEF CommitRequest
  <2>6. CASE ConsumeToken(w) BY <2>6 DEF ConsumeToken, Consumable
  <2>7. CASE InvalidToken(w) BY <2>7 DEF InvalidToken
  <2>8. CASE UpsertUser(w) BY <2>8 DEF UpsertUser
  <2>9. CASE CommitLogin(w) BY <2>9 DEF CommitLogin
  <2>10. CASE LockUserForDelete(w) BY <2>10 DEF LockUserForDelete
  <2>11. CASE UserNotFound(w) BY <2>11 DEF UserNotFound
  <2>12. CASE ReserveHandle(w) BY <2>12 DEF ReserveHandle, Job
  <2>13. CASE DeleteTokens(w) BY <2>13 DEF DeleteTokens
  <2>14. CASE DeleteUser(w) BY <2>14 DEF DeleteUser
  <2>15. CASE CommitDelete(w) BY <2>15 DEF CommitDelete
  <2>16. CASE ClaimCheck(w) BY <2>16 DEF ClaimCheck
  <2>17. CASE ClaimRow(w) BY <2>17 DEF ClaimRow
  <2>18. CASE ClaimRefused(w) BY <2>18 DEF ClaimRefused
  <2>19. CASE ClaimApply(w) BY <2>19 DEF ClaimApply
  <2>20. CASE PurgeTokens(w) BY <2>20 DEF PurgeTokens, Unlocked
  <2>21. QED
    BY <1>2, <2>1, <2>2, <2>3, <2>4, <2>5, <2>6, <2>7, <2>8, <2>9, <2>10, <2>11,
       <2>12, <2>13, <2>14, <2>15, <2>16, <2>17, <2>18, <2>19, <2>20 DEF Step
<1>3. ASSUME NEW w \in Worker, Abort(w) PROVE StillSo'
  BY <1>3 DEF Abort, End, Goto
<1>4. CASE PurgeDeletedHandles BY <1>4 DEF PurgeDeletedHandles
<1>5. CASE Tick BY <1>5 DEF Tick
<1>6. CASE UNCHANGED vars BY <1>6
<1>7. QED BY <1>1, <1>2, <1>3, <1>4, <1>5, <1>6 DEF Next

\* The operations under way can rely on it in every reachable state.
LEMMA StillSoInvariant == Spec => []StillSo
<1>1. Init => StillSo
  BY DEF Init, StillSo, DeletePC, ClaimPC
<1>2. HandleInv => UserRowHeld BY DEF HandleInv
<1>3. QED
  BY <1>1, <1>2, StillSoStep, WaitInvariant, HandleInvariant, LinkInvariant,
     TypesAndArgs, PTL DEF Spec

\* A transaction that begins is a call.
LEMMA BeginIsCall ==
    ASSUME TypeOK, UNCHANGED <<clock, tables>>, NEW w \in Worker, NEW label \in PC \ {"idle"},
           NEW op, op = OpOf[label], NEW a, NEW k, NEW i, NEW h, NEW n, NEW t,
           op = "claim" \/ h = None, pc[w] = "idle", pc' = [pc EXCEPT ![w] = label],
           job' = [job EXCEPT ![w] = NewJob(a, k, i, h, n, t)],
           NEW K, snap' = [snap EXCEPT ![w] = K]
    PROVE  Book!Begins(w) /\ Book!Begin(w, Book!NewCall(op, a, k, i, h, n, K))
<1> DEFINE c == Book!NewCall(op, a, k, i, h, n, K)
<1>1. CallOf(w)' = c BY DEF CallOf, TypeOK, NewJob, Book!NewCall
<1>2. \A v \in Worker \ {w} : CallOf(v)' = CallOf(v) BY DEF CallOf, TypeOK
<1>3. Calls' = [Calls EXCEPT ![w] = c] BY <1>1, <1>2 DEF Calls
<1>4. OpOf[pc[w]] = "none" /\ op # "none" BY DEF OpOf, PC
<1>5. Calls[w].op = "none" BY <1>4 DEF Calls, CallOf
<1>6. Calls'[w].op # "none" BY <1>1, <1>4 DEF Calls, Book!NewCall
<1>7. QED
  BY <1>3, <1>5, <1>6 DEF Book!Begins, Book!Begin, Book!tables

\* A transaction that ends is a return.
LEMMA EndIsReturn ==
    ASSUME TypeOK, NEW w \in Worker, pc[w] # "idle", End(w)
    PROVE  Book!Returns(w) /\ Book!Return(w)
<1>1. CallOf(w)' = Book!NoCall
  BY DEF CallOf, OpOf, PC, End, Goto, NoJob, NewJob, TypeOK, Book!NoCall, Book!NewCall
<1>2. \A v \in Worker \ {w} : CallOf(v)' = CallOf(v)
  BY DEF CallOf, End, Goto, TypeOK
<1>3. Calls' = [Calls EXCEPT ![w] = Book!NoCall] BY <1>1, <1>2 DEF Calls
<1>4. Calls[w].op # "none" BY DEF Calls, CallOf, OpOf, PC, TypeOK
<1>5. Calls'[w].op = "none" BY <1>1 DEF Calls, Book!NoCall, Book!NewCall
<1>6. QED BY <1>3, <1>4, <1>5 DEF Book!Returns, Book!Return

\* A statement on the way leaves the call as it is.
LEMMA SameCall ==
    ASSUME TypeOK, NEW w \in Worker, NEW label, Goto(w, label), OpOf[label] = OpOf[pc[w]],
           UNCHANGED <<job, snap>>
    PROVE  Calls' = Calls
<1>1. \A v \in Worker : CallOf(v)' = CallOf(v) BY DEF CallOf, Goto, TypeOK
<1>2. QED BY <1>1 DEF Calls

\* An operation that ends without a write has no effect.
LEMMA NothingDone ==
    ASSUME TypeOK, NEW w \in Worker, pc[w] # "idle", End(w), UNCHANGED <<clock, tables>>
    PROVE  Book!Next
<1>1. Book!NoEffect(w) BY EndIsReturn DEF Book!NoEffect, Book!tables
<1>2. QED BY <1>1, EndIsReturn DEF Book!Next

\* Every operation begins as a call with its arguments.
LEMMA StartIsCall ==
    ASSUME TypeOK, StillSo, NEW w \in Worker, Start(w)
    PROVE  Book!Next
<1>1. pc[w] = "idle" /\ snap[w] = {}
  BY DEF Start, Begin, BeginRequest, BeginComplete, BeginDelete, BeginClaim,
         BeginPurgeTokens, StillSo
<1>2. snap = [snap EXCEPT ![w] = {}] BY <1>1 DEF TypeOK
<1>3. ASSUME NEW a \in Addr, NEW k \in Token, BeginRequest(w, a, k)
      PROVE  Book!Begins(w) /\ Book!Call(w)
  <2>1. "rLock" \in PC \ {"idle"} /\ OpOf["rLock"] = "request" BY DEF PC, OpOf
  <2>2. /\ pc' = [pc EXCEPT ![w] = "rLock"] /\ snap' = [snap EXCEPT ![w] = {}]
        /\ job' = [job EXCEPT ![w] = NewJob(a, k, 0, None, clock, 0)]
        /\ UNCHANGED <<clock, tables>>
    BY <1>2, <1>3 DEF BeginRequest, Begin
  <2>3. /\ Book!Begins(w)
        /\ Book!Begin(w, Book!NewCall("request", a, k, 0, None, clock, {}))
    BY <1>1, <2>1, <2>2, BeginIsCall
  <2>4. \A v \in Worker : Calls[v].tok # k BY <1>3 DEF BeginRequest, Calls, CallOf
  <2>5. QED BY <1>3, <2>3, <2>4 DEF BeginRequest, Book!Call
<1>4. ASSUME NEW k \in Token, BeginComplete(w, k)
      PROVE  Book!Begins(w) /\ Book!Call(w)
  <2>1. "cConsume" \in PC \ {"idle"} /\ OpOf["cConsume"] = "complete" BY DEF PC, OpOf
  <2>2. /\ pc' = [pc EXCEPT ![w] = "cConsume"] /\ snap' = [snap EXCEPT ![w] = {}]
        /\ job' = [job EXCEPT ![w] = NewJob(owner[k], k, 0, None, clock, 0)]
        /\ UNCHANGED <<clock, tables>>
    BY <1>2, <1>4 DEF BeginComplete, Begin
  <2>3. /\ Book!Begins(w)
        /\ Book!Begin(w, Book!NewCall("complete", owner[k], k, 0, None, clock, {}))
    BY <1>1, <2>1, <2>2, BeginIsCall
  <2>4. QED BY <1>4, <2>3 DEF BeginComplete, Book!Call
<1>5. ASSUME NEW a \in Addr, BeginDelete(w, a)
      PROVE  Book!Begins(w) /\ Book!Call(w)
  <2>1. "dLock" \in PC \ {"idle"} /\ OpOf["dLock"] = "delete" BY DEF PC, OpOf
  <2>2. PICK t \in AppClock : job' = [job EXCEPT ![w] = NewJob(a, None, acct[a], None, clock, t)]
    BY <1>5 DEF BeginDelete, Begin
  <2>3. /\ pc' = [pc EXCEPT ![w] = "dLock"] /\ snap' = [snap EXCEPT ![w] = {}]
        /\ UNCHANGED <<clock, tables>>
    BY <1>2, <1>5 DEF BeginDelete, Begin
  <2>4. /\ Book!Begins(w)
        /\ Book!Begin(w, Book!NewCall("delete", a, None, acct[a], None, clock, {}))
    BY <1>1, <2>1, <2>2, <2>3, BeginIsCall
  <2>5. QED BY <1>5, <2>4 DEF BeginDelete, Book!Call
<1>6. ASSUME NEW a \in Addr, NEW h \in Handle, BeginClaim(w, a, h)
      PROVE  Book!Begins(w) /\ Book!Call(w)
  <2>1. "hCheck" \in PC \ {"idle"} /\ OpOf["hCheck"] = "claim" BY DEF PC, OpOf
  <2>2. PICK t \in AppClock : job' = [job EXCEPT ![w] = NewJob(a, None, acct[a], h, clock, t)]
    BY <1>6 DEF BeginClaim, Begin
  <2>3. /\ pc' = [pc EXCEPT ![w] = "hCheck"] /\ snap' = [snap EXCEPT ![w] = {}]
        /\ UNCHANGED <<clock, tables>>
    BY <1>2, <1>6 DEF BeginClaim, Begin
  <2>4. /\ Book!Begins(w)
        /\ Book!Begin(w, Book!NewCall("claim", a, None, acct[a], h, clock, {}))
    BY <1>1, <2>1, <2>2, <2>3, BeginIsCall
  <2>5. QED BY <1>6, <2>4 DEF BeginClaim, Book!Call
<1>7. ASSUME BeginPurgeTokens(w)
      PROVE  Book!Begins(w) /\ Book!Call(w)
  <2>1. "pApply" \in PC \ {"idle"} /\ OpOf["pApply"] = "purge" BY DEF PC, OpOf
  <2>2. /\ pc' = [pc EXCEPT ![w] = "pApply"]
        /\ snap' = [snap EXCEPT ![w] = Book!Expired(clock)]
        /\ job' = [job EXCEPT ![w] = NewJob(None, None, 0, None, clock, 0)]
        /\ UNCHANGED <<clock, tables>>
    BY <1>7 DEF BeginPurgeTokens, Begin, Book!Expired, Book!OnRecord, OnRecord
  <2>3. /\ Book!Begins(w)
        /\ Book!Begin(w, Book!NewCall("purge", None, None, 0, None, clock, Book!Expired(clock)))
    BY <1>1, <2>1, <2>2, BeginIsCall
  <2>4. QED BY <2>3 DEF Book!Call
<1>8. QED BY <1>3, <1>4, <1>5, <1>6, <1>7 DEF Start, Book!Next

\* AccountBook counts as this module does.
LEMMA SameCardinality == ASSUME NEW S PROVE Book!Cardinality(S) = Cardinality(S)
BY DEF Book!Cardinality, Cardinality

\* A request mints within the budget it counted, and retires what it found open.
LEMMA RequestTakesEffect ==
    ASSUME TypeOK, ArgsOK, LinkInv, BudgetInv, NEW w \in Worker, CommitRequest(w)
    PROVE  Book!RequestLogin(w)
<1>1. /\ pc[w] = "rCommit" /\ use[job[w].tok] = "new"
      /\ rows[w] = OpenTokens(job[w].addr) /\ WithinBudget(w)
  BY DEF CommitRequest, LinkInv, FreshTokens, RetiresAll, RequestPC, BudgetInv, Counted
<1>2. Calls[w].op = "request" /\ Calls[w].tok = job[w].tok
      /\ Calls[w].addr = job[w].addr /\ Calls[w].now = job[w].now
  BY <1>1 DEF Calls, CallOf, OpOf, PC
<1>3. Cardinality(Book!Recent(job[w].addr, job[w].now)) < LoginBudget
  <2>1. Book!Recent(job[w].addr, job[w].now) = Recent(job[w].addr, job[w].now)
    BY DEF Book!Recent, Book!LinksOf, Book!OnRecord, Recent, OnRecord
  <2>2. QED BY <1>1, <2>1 DEF WithinBudget
<1>4. use' = [k \in Token |-> IF k = job[w].tok THEN "open"
                              ELSE IF use[k] = "open" /\ owner[k] = job[w].addr THEN "retired"
                              ELSE use[k]]
  BY <1>1 DEF CommitRequest, OpenTokens
<1>5. Book!Return(w) BY <1>1, EndIsReturn DEF CommitRequest
<1>6. /\ owner' = [owner EXCEPT ![job[w].tok] = job[w].addr]
      /\ created' = [created EXCEPT ![job[w].tok] = job[w].now]
      /\ UNCHANGED <<clock, acct, handle, nextId>>
  BY DEF CommitRequest
<1>7. Book!Cardinality(Book!Recent(Calls[w].addr, Calls[w].now)) < LoginBudget
  BY <1>2, <1>3, SameCardinality
<1>8. use' = [k \in Token |-> IF k = Calls[w].tok THEN "open"
                              ELSE IF use[k] = "open" /\ owner[k] = Calls[w].addr THEN "retired"
                              ELSE use[k]]
  BY <1>2, <1>4
<1>9. QED
  BY <1>1, <1>2, <1>5, <1>6, <1>7, <1>8 DEF Book!RequestLogin

\* A login spends a link that works, and leaves its address with an account.
LEMMA LoginTakesEffect ==
    ASSUME TypeOK, ArgsOK, LinkInv, WaitInv, StillSo, NEW w \in Worker, CommitLogin(w)
    PROVE  Book!CompleteLogin(w)
<1> DEFINE k == job[w].tok
<1>1. /\ pc[w] = "cCommit" /\ use[k] = "open" /\ rows[w] = {k}
      /\ created[k] + TokenTTL > job[w].now /\ owner[k] = job[w].addr
      /\ k \in Token
  BY DEF CommitLogin, LinkInv, SpendsOne, WaitInv, OwnTokens, LoginPC, StillSo, ArgsOK
<1>2. Calls[w].op = "complete" /\ Calls[w].tok = k /\ Calls[w].now = job[w].now
  BY <1>1 DEF Calls, CallOf, OpOf, PC
<1>3. use' = [use EXCEPT ![k] = "spent"] BY <1>1 DEF CommitLogin, TypeOK
<1>4. \/ acct[owner[k]] # 0 /\ UNCHANGED <<acct, nextId>>
      \/ /\ acct[owner[k]] = 0
         /\ acct' = [acct EXCEPT ![owner[k]] = nextId]
         /\ nextId' = nextId + 1
  BY <1>1 DEF CommitLogin
<1>5. Book!Return(w) BY <1>1, EndIsReturn DEF CommitLogin
<1>6. QED
  BY <1>1, <1>2, <1>3, <1>4, <1>5 DEF CommitLogin, Book!CompleteLogin

\* A deletion looks for its links in one statement.
LEMMA ReserveIsLook ==
    ASSUME TypeOK, NEW w \in Worker, ReserveHandle(w)
    PROVE  Book!LookForLinks(w)
<1> DEFINE K == {k \in Token : use[k] \in OnRecord /\ owner[k] = job[w].addr}
           c == [op |-> "deleting", addr |-> job[w].addr, tok |-> job[w].tok,
                 id |-> job[w].id, handle |-> None, now |-> job[w].now, seen |-> K]
<1>1. /\ Calls[w].op = "delete" /\ Calls[w].addr = job[w].addr
      /\ Calls[w].tok = job[w].tok /\ Calls[w].id = job[w].id
      /\ Calls[w].handle = None /\ Calls[w].now = job[w].now
  BY DEF ReserveHandle, Calls, CallOf, OpOf, PC
<1>2. CallOf(w)' = c
  <2>1. /\ pc'[w] = "dTokens" /\ snap'[w] = K
        /\ job'[w] = [job[w] EXCEPT !.handle = handle[job[w].addr]]
    BY DEF ReserveHandle, Goto, TypeOK
  <2>2. /\ job'[w].addr = job[w].addr /\ job'[w].tok = job[w].tok
        /\ job'[w].id = job[w].id /\ job'[w].now = job[w].now
    BY <2>1 DEF TypeOK, Job
  <2>3. OpOf[pc'[w]] = "deleting" BY <2>1 DEF OpOf, PC
  <2>4. QED BY <2>1, <2>2, <2>3 DEF CallOf
<1>3. \A v \in Worker \ {w} : CallOf(v)' = CallOf(v)
  BY DEF ReserveHandle, Goto, CallOf, TypeOK
<1>4. Calls' = [Calls EXCEPT ![w] = c] BY <1>2, <1>3 DEF Calls
<1>5. Book!LinksOf(job[w].addr) = K BY DEF Book!LinksOf, Book!OnRecord, OnRecord
<1>6. QED
  BY <1>1, <1>4, <1>5 DEF Book!LookForLinks, Book!NewCall, Book!tables, ReserveHandle

\* A deletion takes the account it locked, and of the links it saw those that are
\* still there.
LEMMA DeletionTakesEffect ==
    ASSUME TypeOK, ArgsOK, RecordInv, StillSo, NEW w \in Worker, CommitDelete(w)
    PROVE  Book!DeleteAccount(w)
<1>1. pc[w] = "dCommit" /\ acct[job[w].addr] = job[w].id
  BY DEF CommitDelete, StillSo
<1>2. /\ Calls[w].op = "deleting" /\ Calls[w].addr = job[w].addr
      /\ Calls[w].id = job[w].id /\ Calls[w].seen = snap[w]
  BY <1>1 DEF Calls, CallOf, OpOf, PC
<1>3. \A k \in Token : k \in rows[w] <=> k \in snap[w] /\ use[k] \in OnRecord
  BY <1>1 DEF StillSo, RecordInv, SnapsKnown, Gone, OnRecord
<1>4. Book!Drop(snap[w], "deleted")
  BY <1>3 DEF Book!Drop, Book!OnRecord, OnRecord, CommitDelete
<1>5. Book!Return(w) BY <1>1, EndIsReturn DEF CommitDelete
<1>6. QED
  BY <1>1, <1>2, <1>4, <1>5 DEF CommitDelete, Book!DeleteAccount

\* A claim gets its handle for the account that asked, and from nobody.
LEMMA ClaimTakesEffect ==
    ASSUME TypeOK, ArgsOK, StillSo, NEW w \in Worker, ClaimApply(w)
    PROVE  Book!ClaimHandle(w)
<1>1. /\ pc[w] = "hIndex" /\ job[w].handle \in Handle
      /\ acct[job[w].addr] = job[w].id /\ handle[job[w].addr] = None
  BY DEF ClaimApply, StillSo, Claimable, ArgsOK, ClaimPC
<1>2. /\ Calls[w].op = "claim" /\ Calls[w].addr = job[w].addr
      /\ Calls[w].id = job[w].id /\ Calls[w].handle = job[w].handle
  BY <1>1 DEF Calls, CallOf, OpOf, PC
<1>3. \A b \in Addr : handle[b] # job[w].handle
  BY <1>1, NoneAssumption DEF ClaimApply, Holders
<1>4. Book!Return(w) BY <1>1, EndIsReturn DEF ClaimApply
<1>5. QED
  BY <1>1, <1>2, <1>3, <1>4 DEF ClaimApply, Book!ClaimHandle

\* The purge drops, of the links it saw, those that are still there.
LEMMA PurgeTakesEffect ==
    ASSUME TypeOK, NEW w \in Worker, PurgeTokens(w)
    PROVE  Book!PurgeTokens(w)
<1>1. Calls[w].op = "purge" /\ Calls[w].seen = snap[w]
  BY DEF PurgeTokens, Calls, CallOf, OpOf, PC
<1>2. Book!Drop(snap[w], "purged")
  BY DEF PurgeTokens, Book!Drop, Book!OnRecord, OnRecord, TypeOK
<1>3. Book!Return(w) BY EndIsReturn DEF PurgeTokens
<1>4. QED BY <1>1, <1>2, <1>3 DEF PurgeTokens, Book!PurgeTokens

\* Every statement of an operation is an operation of AccountBook that takes effect,
\* fails, or finds the links it deletes; or nobody sees it.
LEMMA StepIsOperation ==
    ASSUME TypeOK, ArgsOK, LinkInv, RecordInv, BudgetInv, WaitInv, StillSo,
           NEW w \in Worker, Step(w)
    PROVE  Book!Next \/ UNCHANGED Book!bVars
<1>1. ASSUME NEW label, Goto(w, label), OpOf[label] = OpOf[pc[w]],
             UNCHANGED <<clock, tokenVars, userVars, job, snap>>
      PROVE  UNCHANGED Book!bVars
  BY <1>1, SameCall DEF Book!bVars, Book!tables
<1>2. ASSUME Book!Effect(w), pc[w] # "idle", End(w) PROVE Book!Next
  BY <1>2, EndIsReturn DEF Book!Next
<1>3. CASE \/ LockLoginAddress(w) \/ CountRecent(w) \/ InvalidateTokens(w)
           \/ ConsumeToken(w) \/ UpsertUser(w)
  BY <1>1, <1>3 DEF OpOf, PC, LockLoginAddress, CountRecent, InvalidateTokens, ConsumeToken,
     UpsertUser
<1>4. CASE \/ LockUserForDelete(w) \/ DeleteTokens(w) \/ DeleteUser(w)
           \/ ClaimCheck(w) \/ ClaimRow(w)
  BY <1>1, <1>4 DEF OpOf, PC, LockUserForDelete, DeleteTokens, DeleteUser, ClaimCheck, ClaimRow
<1>5. CASE BudgetExceeded(w) \/ InvalidToken(w) \/ UserNotFound(w) \/ ClaimRefused(w)
  BY <1>5, NothingDone DEF BudgetExceeded, InvalidToken, UserNotFound, ClaimRefused
<1>6. CASE ReserveHandle(w) BY <1>6, ReserveIsLook DEF Book!Next
<1>7. CASE CommitRequest(w)
  BY <1>2, <1>7, RequestTakesEffect DEF CommitRequest, Book!Effect
<1>8. CASE CommitLogin(w)
  BY <1>2, <1>8, LoginTakesEffect DEF CommitLogin, Book!Effect
<1>9. CASE CommitDelete(w)
  BY <1>2, <1>9, DeletionTakesEffect DEF CommitDelete, Book!Effect
<1>10. CASE ClaimApply(w)
  BY <1>2, <1>10, ClaimTakesEffect DEF ClaimApply, Book!Effect
<1>11. CASE PurgeTokens(w)
  BY <1>2, <1>11, PurgeTakesEffect DEF PurgeTokens, Book!Effect
<1>12. QED
  BY <1>3, <1>4, <1>5, <1>6, <1>7, <1>8, <1>9, <1>10, <1>11 DEF Step

\* READ COMMITTED, pg_advisory_xact_lock, SELECT FOR UPDATE and the row locks of
\* UPDATE and DELETE: transactions of user.Service that overlap statement by
\* statement do to the tables what the same operations do one after the other, in
\* the order of their commits; the statements before a commit show nothing.
THEOREM OneAfterTheOther == Spec => Serializable
<1> DEFINE Known == /\ TypeOK /\ ArgsOK /\ LinkInv /\ RecordInv
                    /\ BudgetInv /\ WaitInv /\ StillSo
<1>1. Init => Book!Init
  <2> SUFFICES ASSUME Init PROVE Book!Init
      OBVIOUS
  <2>1. \A w \in Worker : CallOf(w) = Book!NoCall
    BY DEF Init, NoJob, NewJob, CallOf, OpOf, PC, Book!NoCall, Book!NewCall
  <2>2. QED BY <2>1 DEF Init, Calls, Book!Init
<1>2. Known /\ [Next]_vars => [Book!Next]_(Book!bVars)
  <2> SUFFICES ASSUME Known, [Next]_vars PROVE Book!Next \/ UNCHANGED Book!bVars
      OBVIOUS
  <2>1. ASSUME NEW w \in Worker, Start(w) PROVE Book!Next
    BY <2>1, StartIsCall
  <2>2. ASSUME NEW w \in Worker, Step(w) PROVE Book!Next \/ UNCHANGED Book!bVars
    BY <2>2, StepIsOperation
  <2>3. ASSUME NEW w \in Worker, Abort(w) PROVE Book!Next
    BY <2>3, NothingDone DEF Abort
  <2>4. ASSUME UNCHANGED workVars PROVE Calls' = Calls
    BY <2>4 DEF Calls, CallOf
  <2>5. CASE PurgeDeletedHandles
    BY <2>4, <2>5 DEF PurgeDeletedHandles, Book!bVars, Book!tables
  <2>6. CASE Tick
    BY <2>4, <2>6 DEF Tick, Book!Next, Book!Tick, Book!tables
  <2>7. CASE UNCHANGED vars
    BY <2>4, <2>7 DEF Book!bVars, Book!tables
  <2>8. QED BY <2>1, <2>2, <2>3, <2>5, <2>6, <2>7 DEF Next
<1>3. QED
  BY <1>1, <1>2, TypesAndArgs, LinkInvariant, RecordInvariant, BudgetInvariant,
     WaitInvariant, StillSoInvariant, PTL DEF Spec, Serializable, Book!Spec
===============================================================================
