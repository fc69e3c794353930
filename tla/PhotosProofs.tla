------------------------------ MODULE PhotosProofs ------------------------------
(***************************************************************************)
(* Theorems about photos.  First the stores and the slot (Photos), for     *)
(* every set of requests, accounts and keys, every length of the day and   *)
(* every mix of failures; then what happens inside the slot                *)
(* (PhotoProcess), for every limit, every upload and every header: the     *)
(* walk stays inside its slices, the scaled photo keeps its proportions    *)
(* and orient8 puts every pixel where the tag says it is seen.             *)
(***************************************************************************)
EXTENDS Photos, PhotoProcess, FiniteSetTheorems, TLAPS

USE DEF rowVars, diskVars, jobVars, histVars, vars
-------------------------------------------------------------------------------
(* Types.                                                                  *)

\* A request under way has an account; it has a key of its own from the rename on,
\* and a file to remove only once a statement has returned it.
WorkOK ==
    \A w \in Worker :
        /\ pc[w] # "idle" => who[w] \in User
        /\ pc[w] \in {"syncDir", "setPhoto", "undo"} => key[w] \in Key
        /\ pc[w] # "cleanup" => old[w] = None
        /\ pc[w] \notin {"syncDir", "setPhoto", "undo", "cleanup"} => key[w] = None

\* The slot is taken exactly while somebody processes, and by one at a time.
SlotInv ==
    /\ \A w \in Worker : pc[w] = "process" => photoSlot = 1
    /\ \A v, w \in Worker : pc[v] = "process" /\ pc[w] = "process" => v = w
    /\ photoSlot = 1 => \E w \in Worker : pc[w] = "process"

\* What a statement that takes the file from the row of w does, with its reply
\* and without.
ForgetAnswered(w) ==
    /\ photoKey' = [photoKey EXCEPT ![who[w]] = None]
    /\ old' = [old EXCEPT ![w] = photoKey[who[w]]]
    /\ Goto(w, "cleanup")
    /\ UNCHANGED <<who, now, key, lost>>

ForgetUnanswered(w) ==
    /\ photoKey' = [photoKey EXCEPT ![who[w]] = None]
    /\ Done(w)
    /\ lost' = lost \cup ({photoKey[who[w]]} \ {None})

LEMMA ForgetOutcomes ==
    ASSUME NEW w \in Worker,
           \E reply \in {TRUE} \cup {"lostreply" \notin Faults} : Forget(w, reply)
    PROVE  /\ who[w] \in account
           /\ UNCHANGED <<clock, allowed, uploadedAt, diskVars, photoSlot, uploadsOn>>
           /\ ForgetAnswered(w) \/ ForgetUnanswered(w)
<1>1. PICK reply \in {TRUE} \cup {"lostreply" \notin Faults} : Forget(w, reply)
  OBVIOUS
<1>2. CASE reply = TRUE
  BY <1>1, <1>2, Zenon DEF Forget, ForgetAnswered
<1>3. CASE ~reply
  BY <1>1, <1>3, Zenon DEF Forget, ForgetUnanswered
<1>4. reply \in BOOLEAN OBVIOUS
<1>5. QED BY <1>2, <1>3, <1>4, Zenon

\* A table of counters with one of them raised.
LEMMA CounterType ==
    ASSUME NEW D, NEW g \in [D -> Nat], NEW x
    PROVE  [g EXCEPT ![x] = @ + 1] \in [D -> Nat]
<1>1. ASSUME NEW d \in D PROVE [g EXCEPT ![x] = @ + 1][d] \in Nat
  BY g[d] \in Nat
<1>2. QED BY <1>1

\* What the statement of SetPhoto does to the row and the history.
LEMMA WriteTypes ==
    ASSUME TypeOK, NEW w \in Worker, who[w] \in User, key[w] \in Key, NEW reply,
           WritePhoto(w, reply)
    PROVE  /\ photoKey' \in [User -> Key \cup {None}]
           /\ uploadedAt' \in [User -> Int]
           /\ uploadsOn' \in [User -> [0..Day(MaxClock) -> Nat]]
<1> USE DEF WritePhoto, TypeOK
<1>1. photoKey' \in [User -> Key \cup {None}] /\ uploadedAt' \in [User -> Int]
  OBVIOUS
<1>2. uploadsOn' \in [User -> [0..Day(MaxClock) -> Nat]]
  <2> DEFINE f == [uploadsOn[who[w]] EXCEPT ![Day(now[w])] = @ + 1]
  <2>1. uploadsOn' = [uploadsOn EXCEPT ![who[w]] = f] OBVIOUS
  <2>2. f \in [0..Day(MaxClock) -> Nat]
    <3>1. uploadsOn[who[w]] \in [0..Day(MaxClock) -> Nat] OBVIOUS
    <3>2. QED BY <3>1, CounterType
  <2>3. QED BY <2>1, <2>2
<1>3. QED BY <1>1, <1>2

\* Every step keeps the types.
LEMMA TypeStep == TypeOK /\ WorkOK /\ SlotInv /\ [Next]_vars => TypeOK'
<1> USE NoneAssumption, DayAssumption
<1> SUFFICES ASSUME TypeOK, WorkOK, SlotInv, [Next]_vars PROVE TypeOK'
    OBVIOUS
<1> USE DEF TypeOK, WorkOK, SlotInv, PC, Goto, Done
<1>1. ASSUME NEW w \in Worker, NEW u \in User,
             NEW label \in {"slot", "removePhoto", "deleteAccount"}, Arrive(w, u, label)
      PROVE  TypeOK'
  BY <1>1 DEF Arrive
<1>2. ASSUME NEW w \in Worker, Step(w) PROVE TypeOK'
  <2>1. CASE TakeSlot(w) BY <2>1 DEF TakeSlot
  <2>2. CASE SlotTimeout(w) BY <2>2 DEF SlotTimeout
  <2>3. CASE ProcessDone(w) BY <2>3 DEF ProcessDone
  <2>4. CASE ProcessFailed(w) BY <2>4 DEF ProcessFailed
  <2>5. ASSUME NEW k \in Key, SaveRename(w, k) PROVE TypeOK'
    BY <2>5 DEF SaveRename
  <2>6. CASE SaveFailed(w) BY <2>6 DEF SaveFailed
  <2>7. CASE SaveSync(w) BY <2>7 DEF SaveSync
  <2>8. CASE SyncFailed(w) BY <2>8 DEF SyncFailed
  <2>9. CASE SetPhoto(w)
    <3>1. /\ photoKey' \in [User -> Key \cup {None}]
          /\ uploadedAt' \in [User -> Int]
          /\ uploadsOn' \in [User -> [0..Day(MaxClock) -> Nat]]
      BY <2>9, WriteTypes DEF SetPhoto, WritePhoto
    <3>2. QED BY <2>9, <3>1 DEF SetPhoto, WritePhoto
  <2>10. CASE SetPhotoLostReply(w)
    <3>1. /\ photoKey' \in [User -> Key \cup {None}]
          /\ uploadedAt' \in [User -> Int]
          /\ uploadsOn' \in [User -> [0..Day(MaxClock) -> Nat]]
      BY <2>10, WriteTypes DEF SetPhotoLostReply, WritePhoto
    <3>2. QED BY <2>10, <3>1 DEF SetPhotoLostReply, WritePhoto
  <2>11. CASE SetPhotoRefused(w) BY <2>11 DEF SetPhotoRefused
  <2>12. CASE Undo(w) BY <2>12 DEF Undo, RemoveFile
  <2>13. CASE Cleanup(w) BY <2>13 DEF Cleanup, RemoveFile
  <2>14. CASE RemovePhoto(w)
    <3>1. CASE ForgetAnswered(w)
      BY <2>14, <3>1, ForgetOutcomes DEF RemovePhoto, ForgetAnswered
    <3>2. CASE ForgetUnanswered(w)
      <4>1. photoKey[who[w]] \in Key \cup {None} BY <2>14, ForgetOutcomes DEF RemovePhoto
      <4>2. photoKey' \in [User -> Key \cup {None}] /\ lost' \subseteq Key
        BY <3>2, <4>1 DEF ForgetUnanswered
      <4>3. QED BY <2>14, <3>2, <4>2, ForgetOutcomes DEF RemovePhoto, ForgetUnanswered
    <3>3. QED BY <2>14, <3>1, <3>2, ForgetOutcomes DEF RemovePhoto
  <2>15. CASE DeleteAccount(w)
    <3>1. CASE ForgetAnswered(w)
      BY <2>15, <3>1, ForgetOutcomes DEF DeleteAccount, ForgetAnswered
    <3>2. CASE ForgetUnanswered(w)
      <4>1. photoKey[who[w]] \in Key \cup {None} BY <2>15, ForgetOutcomes DEF DeleteAccount
      <4>2. photoKey' \in [User -> Key \cup {None}] /\ lost' \subseteq Key
        BY <3>2, <4>1 DEF ForgetUnanswered
      <4>3. QED BY <2>15, <3>2, <4>2, ForgetOutcomes DEF DeleteAccount, ForgetUnanswered
    <3>3. QED BY <2>15, <3>1, <3>2, ForgetOutcomes DEF DeleteAccount
  <2>16. CASE ForgetRefused(w) BY <2>16 DEF ForgetRefused
  <2>17. QED
    BY <1>2, <2>1, <2>2, <2>3, <2>4, <2>5, <2>6, <2>7, <2>8, <2>9, <2>10, <2>11, <2>12,
       <2>13, <2>14, <2>15, <2>16 DEF Step
<1>3. ASSUME NEW u \in User, SetAllowed(u) PROVE TypeOK'
  BY <1>3 DEF SetAllowed
<1>4. CASE Tick BY <1>4 DEF Tick
<1>5. CASE Crash BY <1>5 DEF Crash, Stop
<1>6. CASE PowerCut BY <1>6 DEF PowerCut, Stop
<1>7. CASE UNCHANGED vars BY <1>7 DEF vars, rowVars, diskVars, jobVars, histVars
<1>8. QED
  BY <1>1, <1>2, <1>3, <1>4, <1>5, <1>6, <1>7 DEF Next, BeginUpload, BeginRemove, BeginDelete

\* Every step keeps what a request carries.
LEMMA WorkStep == TypeOK /\ WorkOK /\ [Next]_vars => WorkOK'
<1> USE NoneAssumption
<1> SUFFICES ASSUME TypeOK, WorkOK, [Next]_vars PROVE WorkOK'
    OBVIOUS
<1> USE DEF TypeOK, WorkOK, PC, Goto, Done
<1>1. ASSUME NEW w \in Worker, NEW u \in User,
             NEW label \in {"slot", "removePhoto", "deleteAccount"}, Arrive(w, u, label)
      PROVE  WorkOK'
  BY <1>1 DEF Arrive
<1>2. ASSUME NEW w \in Worker, Step(w) PROVE WorkOK'
  <2>1. CASE TakeSlot(w) BY <2>1 DEF TakeSlot
  <2>2. CASE SlotTimeout(w) BY <2>2 DEF SlotTimeout
  <2>3. CASE ProcessDone(w) BY <2>3 DEF ProcessDone
  <2>4. CASE ProcessFailed(w) BY <2>4 DEF ProcessFailed
  <2>5. ASSUME NEW k \in Key, SaveRename(w, k) PROVE WorkOK'
    BY <2>5 DEF SaveRename
  <2>6. CASE SaveFailed(w) BY <2>6 DEF SaveFailed
  <2>7. CASE SaveSync(w) BY <2>7 DEF SaveSync
  <2>8. CASE SyncFailed(w) BY <2>8 DEF SyncFailed
  <2>9. CASE SetPhoto(w) BY <2>9 DEF SetPhoto, WritePhoto
  <2>10. CASE SetPhotoLostReply(w) BY <2>10 DEF SetPhotoLostReply, WritePhoto
  <2>11. CASE SetPhotoRefused(w) BY <2>11 DEF SetPhotoRefused
  <2>12. CASE Undo(w) BY <2>12 DEF Undo, RemoveFile
  <2>13. CASE Cleanup(w) BY <2>13 DEF Cleanup, RemoveFile
  <2>14. CASE RemovePhoto(w)
    <3>1. CASE ForgetAnswered(w)
      BY <2>14, <3>1, ForgetOutcomes DEF RemovePhoto, ForgetAnswered
    <3>2. CASE ForgetUnanswered(w)
      BY <2>14, <3>2, ForgetOutcomes DEF RemovePhoto, ForgetUnanswered
    <3>3. QED BY <2>14, <3>1, <3>2, ForgetOutcomes DEF RemovePhoto
  <2>15. CASE DeleteAccount(w)
    <3>1. CASE ForgetAnswered(w)
      BY <2>15, <3>1, ForgetOutcomes DEF DeleteAccount, ForgetAnswered
    <3>2. CASE ForgetUnanswered(w)
      BY <2>15, <3>2, ForgetOutcomes DEF DeleteAccount, ForgetUnanswered
    <3>3. QED BY <2>15, <3>1, <3>2, ForgetOutcomes DEF DeleteAccount
  <2>16. CASE ForgetRefused(w) BY <2>16 DEF ForgetRefused
  <2>17. QED
    BY <1>2, <2>1, <2>2, <2>3, <2>4, <2>5, <2>6, <2>7, <2>8, <2>9, <2>10, <2>11, <2>12,
       <2>13, <2>14, <2>15, <2>16 DEF Step
<1>3. ASSUME NEW u \in User, SetAllowed(u) PROVE WorkOK'
  BY <1>3 DEF SetAllowed
<1>4. CASE Tick BY <1>4 DEF Tick
<1>5. CASE Crash BY <1>5 DEF Crash, Stop
<1>6. CASE PowerCut BY <1>6 DEF PowerCut, Stop
<1>7. CASE UNCHANGED vars BY <1>7 DEF vars, rowVars, diskVars, jobVars, histVars
<1>8. QED
  BY <1>1, <1>2, <1>3, <1>4, <1>5, <1>6, <1>7 DEF Next, BeginUpload, BeginRemove, BeginDelete

\* Every step keeps the slot.
LEMMA SlotStep == TypeOK /\ SlotInv /\ [Next]_vars => SlotInv'
<1> SUFFICES ASSUME TypeOK, SlotInv, [Next]_vars PROVE SlotInv'
    OBVIOUS
<1> USE DEF TypeOK, SlotInv, PC, Goto, Done
<1>1. ASSUME NEW w \in Worker, NEW u \in User,
             NEW label \in {"slot", "removePhoto", "deleteAccount"}, Arrive(w, u, label)
      PROVE  SlotInv'
  BY <1>1 DEF Arrive
<1>2. ASSUME NEW w \in Worker, Step(w) PROVE SlotInv'
  <2>1. CASE TakeSlot(w) BY <2>1 DEF TakeSlot
  <2>2. CASE SlotTimeout(w) BY <2>2 DEF SlotTimeout
  <2>3. CASE ProcessDone(w) BY <2>3 DEF ProcessDone
  <2>4. CASE ProcessFailed(w) BY <2>4 DEF ProcessFailed
  <2>5. ASSUME NEW k \in Key, SaveRename(w, k) PROVE SlotInv'
    BY <2>5 DEF SaveRename
  <2>6. CASE SaveFailed(w) BY <2>6 DEF SaveFailed
  <2>7. CASE SaveSync(w) BY <2>7 DEF SaveSync
  <2>8. CASE SyncFailed(w) BY <2>8 DEF SyncFailed
  <2>9. CASE SetPhoto(w) BY <2>9 DEF SetPhoto, WritePhoto
  <2>10. CASE SetPhotoLostReply(w) BY <2>10 DEF SetPhotoLostReply, WritePhoto
  <2>11. CASE SetPhotoRefused(w) BY <2>11 DEF SetPhotoRefused
  <2>12. CASE Undo(w) BY <2>12 DEF Undo, RemoveFile
  <2>13. CASE Cleanup(w) BY <2>13 DEF Cleanup, RemoveFile
  <2>14. CASE RemovePhoto(w)
    <3>1. CASE ForgetAnswered(w)
      BY <2>14, <3>1, ForgetOutcomes DEF RemovePhoto, ForgetAnswered
    <3>2. CASE ForgetUnanswered(w)
      BY <2>14, <3>2, ForgetOutcomes DEF RemovePhoto, ForgetUnanswered
    <3>3. QED BY <2>14, <3>1, <3>2, ForgetOutcomes DEF RemovePhoto
  <2>15. CASE DeleteAccount(w)
    <3>1. CASE ForgetAnswered(w)
      BY <2>15, <3>1, ForgetOutcomes DEF DeleteAccount, ForgetAnswered
    <3>2. CASE ForgetUnanswered(w)
      BY <2>15, <3>2, ForgetOutcomes DEF DeleteAccount, ForgetUnanswered
    <3>3. QED BY <2>15, <3>1, <3>2, ForgetOutcomes DEF DeleteAccount
  <2>16. CASE ForgetRefused(w) BY <2>16 DEF ForgetRefused
  <2>17. QED
    BY <1>2, <2>1, <2>2, <2>3, <2>4, <2>5, <2>6, <2>7, <2>8, <2>9, <2>10, <2>11, <2>12,
       <2>13, <2>14, <2>15, <2>16 DEF Step
<1>3. ASSUME NEW u \in User, SetAllowed(u) PROVE SlotInv'
  BY <1>3 DEF SetAllowed
<1>4. CASE Tick BY <1>4 DEF Tick
<1>5. CASE Crash BY <1>5 DEF Crash, Stop
<1>6. CASE PowerCut BY <1>6 DEF PowerCut, Stop
<1>7. CASE UNCHANGED vars BY <1>7 DEF vars, rowVars, diskVars, jobVars, histVars
<1>8. QED
  BY <1>1, <1>2, <1>3, <1>4, <1>5, <1>6, <1>7 DEF Next, BeginUpload, BeginRemove, BeginDelete

\* Types, what a request carries and the slot are invariant together.
LEMMA BaseInvariant == Spec => [](TypeOK /\ WorkOK /\ SlotInv)
<1>1. Init => TypeOK /\ WorkOK /\ SlotInv
  BY NoneAssumption, DayAssumption DEF Init, TypeOK, WorkOK, SlotInv, PC
<1>2. QED BY <1>1, TypeStep, WorkStep, SlotStep, PTL DEF Spec

\* Whatever uploads, removals, deletions and failures overlap, no reachable state
\* holds a value of the wrong type.
THEOREM TypeCorrect == Spec => []TypeOK
BY BaseInvariant, PTL

\* processLocked: the slot is held exactly while one photo is being processed, in
\* every order of arrivals, refusals, panics, time-outs and crashes.
THEOREM SlotHeld == Spec => []SlotHeldWhileProcessing
<1>1. TypeOK /\ SlotInv => SlotHeldWhileProcessing
  <2> SUFFICES ASSUME TypeOK, SlotInv PROVE SlotHeldWhileProcessing
      OBVIOUS
  <2> DEFINE P == {w \in Worker : pc[w] = "process"}
  <2>1. CASE photoSlot = 0
    <3>1. P = {} BY <2>1 DEF SlotInv
    <3>2. QED BY <2>1, <3>1, FS_EmptySet DEF SlotHeldWhileProcessing
  <2>2. CASE photoSlot = 1
    <3>1. PICK w \in Worker : pc[w] = "process" BY <2>2 DEF SlotInv
    <3>2. P = {w} BY <3>1 DEF SlotInv
    <3>3. QED BY <2>2, <3>2, FS_Singleton DEF SlotHeldWhileProcessing
  <2>3. QED BY <2>1, <2>2 DEF TypeOK
<1>2. QED BY <1>1, BaseInvariant, PTL
-------------------------------------------------------------------------------
(* One upload a day.                                                       *)

\* Every upload counted is on or before the day of the last one.
DaysInv ==
    \A u \in User, d \in 0..Day(MaxClock) :
        /\ uploadsOn[u][d] <= 1
        /\ uploadsOn[u][d] > 0 => uploadedAt[u] # -1 /\ d <= Day(uploadedAt[u])

\* What comes before the start of a day is on an earlier day.
LEMMA EarlierDay ==
    ASSUME NEW s \in Int, NEW n \in Nat, s < dayStart(n)
    PROVE  Day(s) \in Int /\ Day(n) \in Int /\ Day(s) < Day(n)
<1>1. DayLength \in Nat /\ DayLength > 0 BY DayAssumption
<1>2. Day(s) \in Int /\ Day(n) \in Int BY <1>1 DEF Day
<1>3. Day(s) * DayLength <= s BY <1>1 DEF Day
<1>4. Day(s) * DayLength < Day(n) * DayLength BY <1>1, <1>2, <1>3 DEF dayStart
<1>5. ASSUME NEW i \in Int, NEW j \in Int, i * DayLength < j * DayLength PROVE i < j
  BY <1>1, <1>5
<1>6. QED BY <1>2, <1>4, <1>5

\* SetPhoto counts on a day that has no upload yet, and none comes after it.
LEMMA UploadKeepsDays ==
    ASSUME TypeOK, WorkOK, DaysInv, NEW w \in Worker, NEW reply, WritePhoto(w, reply)
    PROVE  DaysInv'
<1> DEFINE u == who[w]
           today == Day(now[w])
<1>1. u \in User /\ now[w] \in Nat /\ today \in Int
  BY DayAssumption DEF TypeOK, WorkOK, WritePhoto, Day
<1>2. uploadedAt' = [uploadedAt EXCEPT ![u] = now[w]]
  BY DEF WritePhoto
<1>3. uploadsOn' = [uploadsOn EXCEPT ![u] = [uploadsOn[u] EXCEPT ![today] = @ + 1]]
  BY <1>1 DEF WritePhoto, TypeOK
<1>4. uploadedAt[u] = -1 \/ Day(uploadedAt[u]) < today
  BY <1>1, EarlierDay DEF WritePhoto, MaySet, TypeOK
<1>5. uploadedAt[u] \in Int /\ Day(uploadedAt[u]) \in Int
  BY <1>1, DayAssumption DEF TypeOK, Day
<1>6. ASSUME NEW d \in 0..Day(MaxClock), uploadsOn[u][d] > 0 PROVE d < today
  BY <1>1, <1>4, <1>5, <1>6 DEF DaysInv
<1> HIDE DEF u, today
<1>7. ASSUME NEW b \in User, NEW d \in 0..Day(MaxClock)
      PROVE  /\ uploadsOn'[b][d] <= 1
             /\ uploadsOn'[b][d] > 0 => uploadedAt'[b] # -1 /\ d <= Day(uploadedAt'[b])
  <2>1. CASE b # u BY <1>2, <1>3, <2>1 DEF DaysInv, TypeOK
  <2>2. CASE b = u /\ d # today
    <3>1. uploadsOn'[b][d] = uploadsOn[b][d] BY <1>1, <1>3, <2>2 DEF TypeOK
    <3>2. uploadsOn[b][d] <= 1 BY DEF DaysInv
    <3>3. uploadedAt'[b] = now[w] /\ Day(now[w]) = today /\ d \in Int
      BY <1>1, <1>2, <2>2 DEF TypeOK, today
    <3>4. QED BY <1>1, <1>6, <2>2, <3>1, <3>2, <3>3
  <2>3. CASE b = u /\ d = today
    <3>1. uploadsOn[b][d] \in Nat BY DEF TypeOK
    <3>2. uploadsOn[b][d] = 0 BY <1>1, <1>6, <2>3, <3>1
    <3>3. uploadsOn'[b][d] = 1
      <4>1. uploadsOn[u] \in [0..Day(MaxClock) -> Nat] BY <1>1 DEF TypeOK
      <4>2. [uploadsOn[u] EXCEPT ![today] = @ + 1][today] = uploadsOn[u][today] + 1
        BY <2>3, <4>1
      <4>3. uploadsOn'[u] = [uploadsOn[u] EXCEPT ![today] = @ + 1]
        BY <1>1, <1>3 DEF TypeOK
      <4>4. QED BY <2>3, <3>2, <4>2, <4>3
    <3>4. uploadedAt'[b] = now[w] /\ Day(now[w]) = today
      BY <1>1, <1>2, <2>3 DEF TypeOK, today
    <3>5. QED BY <1>1, <2>3, <3>3, <3>4
  <2>4. QED BY <2>1, <2>2, <2>3
<1>8. QED BY <1>7 DEF DaysInv

\* Every step keeps the count of uploads.
LEMMA DaysStep == TypeOK /\ WorkOK /\ DaysInv /\ [Next]_vars => DaysInv'
<1> SUFFICES ASSUME TypeOK, WorkOK, DaysInv, [Next]_vars PROVE DaysInv'
    OBVIOUS
<1> USE DEF DaysInv
<1>1. ASSUME NEW w \in Worker, NEW u \in User,
             NEW label \in {"slot", "removePhoto", "deleteAccount"}, Arrive(w, u, label)
      PROVE  DaysInv'
  BY <1>1 DEF Arrive
<1>2. ASSUME NEW w \in Worker, Step(w) PROVE DaysInv'
  <2>1. CASE TakeSlot(w) BY <2>1 DEF TakeSlot
  <2>2. CASE SlotTimeout(w) BY <2>2 DEF SlotTimeout
  <2>3. CASE ProcessDone(w) BY <2>3 DEF ProcessDone
  <2>4. CASE ProcessFailed(w) BY <2>4 DEF ProcessFailed
  <2>5. ASSUME NEW k \in Key, SaveRename(w, k) PROVE DaysInv'
    BY <2>5 DEF SaveRename
  <2>6. CASE SaveFailed(w) BY <2>6 DEF SaveFailed
  <2>7. CASE SaveSync(w) BY <2>7 DEF SaveSync
  <2>8. CASE SyncFailed(w) BY <2>8 DEF SyncFailed
  <2>9. CASE SetPhoto(w)
    BY <2>9, UploadKeepsDays DEF SetPhoto
  <2>10. CASE SetPhotoLostReply(w)
    BY <2>10, UploadKeepsDays DEF SetPhotoLostReply
  <2>11. CASE SetPhotoRefused(w) BY <2>11 DEF SetPhotoRefused
  <2>12. CASE Undo(w) BY <2>12 DEF Undo, RemoveFile
  <2>13. CASE Cleanup(w) BY <2>13 DEF Cleanup, RemoveFile
  <2>14. CASE RemovePhoto(w)
    BY <2>14, ForgetOutcomes DEF RemovePhoto, ForgetAnswered, ForgetUnanswered
  <2>15. CASE DeleteAccount(w)
    BY <2>15, ForgetOutcomes DEF DeleteAccount, ForgetAnswered, ForgetUnanswered
  <2>16. CASE ForgetRefused(w) BY <2>16 DEF ForgetRefused
  <2>17. QED
    BY <1>2, <2>1, <2>2, <2>3, <2>4, <2>5, <2>6, <2>7, <2>8, <2>9, <2>10, <2>11, <2>12,
       <2>13, <2>14, <2>15, <2>16 DEF Step
<1>3. ASSUME NEW u \in User, SetAllowed(u) PROVE DaysInv'
  BY <1>3 DEF SetAllowed
<1>4. CASE Tick BY <1>4 DEF Tick
<1>5. CASE Crash BY <1>5 DEF Crash, Stop
<1>6. CASE PowerCut BY <1>6 DEF PowerCut, Stop
<1>7. CASE UNCHANGED vars BY <1>7 DEF vars, rowVars, diskVars, jobVars, histVars
<1>8. QED
  BY <1>1, <1>2, <1>3, <1>4, <1>5, <1>6, <1>7 DEF Next, BeginUpload, BeginRemove, BeginDelete

\* SetPhoto: no account has two uploads stamped with one calendar day, however long
\* requests take, across midnight, after a removal and without a reply.
THEOREM OneADay == Spec => []OneUploadPerDay
<1>1. Init => DaysInv
  BY DayAssumption DEF Init, DaysInv
<1>2. DaysInv => OneUploadPerDay BY DEF DaysInv, OneUploadPerDay
<1>3. QED BY <1>1, <1>2, DaysStep, BaseInvariant, PTL DEF Spec
-------------------------------------------------------------------------------
(* Rows and files.                                                         *)

\* A key is drawn once: by one request, and named by one row, which a deleted
\* account no longer does.
KeysOnce ==
    /\ \A v, w \in Worker : key[v] # None /\ key[v] = key[w] => v = w
    /\ \A a, b \in User : photoKey[a] # None /\ photoKey[a] = photoKey[b] => a = b
    /\ \A a \in User \ account : photoKey[a] = None

\* Nobody removes a file that a row names, or is about to name, unless the server
\* was never told of the row.
RemovalsApart ==
    /\ \A w \in Worker : pc[w] \in {"syncDir", "setPhoto"} =>
          /\ key[w] \notin Named
          /\ \A v \in Worker : old[v] # key[w]
    /\ \A w \in Worker : pc[w] = "undo" => key[w] \notin Named \ lost
    /\ \A w \in Worker : old[w] # None => old[w] \notin Named \ lost

\* A file is in the directory before the row names it, and survives a power cut.
InPlace ==
    /\ Named \ lost \subseteq files \cap durable
    /\ \A w \in Worker : /\ pc[w] \in {"syncDir", "setPhoto"} => key[w] \in files
                         /\ pc[w] = "setPhoto" => key[w] \in durable

\* Every file is named, given up, or somebody's to name or remove.
Accounted ==
    \A k \in files :
        \/ k \in Named \/ k \in lost
        \/ \E w \in Worker : pc[w] \in {"syncDir", "setPhoto", "undo"} /\ key[w] = k
        \/ \E w \in Worker : old[w] = k

FileInv == KeysOnce /\ RemovalsApart /\ InPlace /\ Accounted

\* What the statements do to the keys that rows name.
LEMMA NamedWrite ==
    ASSUME TypeOK, WorkOK, KeysOnce, NEW w \in Worker, NEW reply, WritePhoto(w, reply)
    PROVE  /\ photoKey[who[w]] \in Named \cup {None}
           /\ Named' = (Named \ {photoKey[who[w]]}) \cup {key[w]}
<1> DEFINE u == who[w]
<1>1. /\ u \in User /\ u \in account /\ key[w] \in Key /\ key[w] # None
      /\ photoKey' = [photoKey EXCEPT ![u] = key[w]] /\ account' = account
  BY NoneAssumption DEF WritePhoto, MaySet, TypeOK, WorkOK
<1> HIDE DEF u
<1>2. ASSUME NEW k PROVE k \in Named' <=> k \in (Named \ {photoKey[u]}) \cup {key[w]}
  BY <1>1 DEF Named, TypeOK, KeysOnce
<1>3. photoKey[u] \in Named \cup {None} BY <1>1 DEF Named
<1>4. QED BY <1>2, <1>3 DEF u

LEMMA NamedForget ==
    ASSUME TypeOK, KeysOnce, NEW w \in Worker,
           \E reply \in {TRUE} \cup {"lostreply" \notin Faults} : Forget(w, reply),
           account' \in {account, account \ {who[w]}}
    PROVE  /\ photoKey[who[w]] \in Named \cup {None}
           /\ Named' = Named \ {photoKey[who[w]]}
<1> DEFINE u == who[w]
<1>1. u \in User /\ u \in account /\ photoKey' = [photoKey EXCEPT ![u] = None]
  BY ForgetOutcomes DEF TypeOK, ForgetAnswered, ForgetUnanswered
<1> HIDE DEF u
<1>2. account' \in {account, account \ {u}} BY DEF u
<1>3. ASSUME NEW k PROVE k \in Named' <=> k \in Named \ {photoKey[u]}
  BY <1>1, <1>2 DEF Named, TypeOK, KeysOnce
<1>4. photoKey[u] \in Named \cup {None} BY <1>1 DEF Named
<1>5. QED BY <1>3, <1>4 DEF u

\* A key that SetPhoto is about to write is in no row.
LEMMA Undrawn ==
    ASSUME WorkOK, KeysOnce, RemovalsApart, NEW w \in Worker, pc[w] = "setPhoto"
    PROVE  \A u \in User : photoKey[u] # key[w]
<1>1. key[w] \in Key /\ key[w] \notin Named
  BY DEF WorkOK, RemovalsApart
<1>2. key[w] # None BY <1>1, NoneAssumption
<1>3. \A u \in account : photoKey[u] # key[w] BY <1>1, <1>2 DEF Named
<1>4. \A u \in User \ account : photoKey[u] # key[w] BY <1>2 DEF KeysOnce
<1>5. QED BY <1>3, <1>4

\* Every step draws a key once.
LEMMA KeysStep == TypeOK /\ WorkOK /\ KeysOnce /\ RemovalsApart /\ [Next]_vars => KeysOnce'
<1> USE NoneAssumption
<1> SUFFICES ASSUME TypeOK, WorkOK, KeysOnce, RemovalsApart, [Next]_vars PROVE KeysOnce'
    OBVIOUS
<1> USE DEF TypeOK, WorkOK, KeysOnce, RemovalsApart, Named, Goto, Done
<1>1. ASSUME NEW w \in Worker, NEW u \in User,
             NEW label \in {"slot", "removePhoto", "deleteAccount"}, Arrive(w, u, label)
      PROVE  KeysOnce'
  BY <1>1 DEF Arrive
<1>2. ASSUME NEW w \in Worker, Step(w) PROVE KeysOnce'
  <2>1. CASE TakeSlot(w) BY <2>1 DEF TakeSlot
  <2>2. CASE SlotTimeout(w) BY <2>2 DEF SlotTimeout
  <2>3. CASE ProcessDone(w) BY <2>3 DEF ProcessDone
  <2>4. CASE ProcessFailed(w) BY <2>4 DEF ProcessFailed
  <2>5. ASSUME NEW k \in Key, SaveRename(w, k) PROVE KeysOnce'
    BY <2>5 DEF SaveRename
  <2>6. CASE SaveFailed(w) BY <2>6 DEF SaveFailed
  <2>7. CASE SaveSync(w) BY <2>7 DEF SaveSync
  <2>8. CASE SyncFailed(w) BY <2>8 DEF SyncFailed
  <2>9. CASE SetPhoto(w)
    <3>1. /\ photoKey' = [photoKey EXCEPT ![who[w]] = key[w]]
          /\ UNCHANGED <<account, key>> /\ who[w] \in account
      BY <2>9 DEF SetPhoto, WritePhoto, MaySet
    <3>2. \A b \in User : photoKey[b] # key[w]
      BY <2>9, Undrawn DEF SetPhoto, WritePhoto
    <3>3. QED BY <2>9, <3>1, <3>2
  <2>10. CASE SetPhotoLostReply(w)
    <3>1. /\ photoKey' = [photoKey EXCEPT ![who[w]] = key[w]]
          /\ UNCHANGED <<account, key>> /\ who[w] \in account
      BY <2>10 DEF SetPhotoLostReply, WritePhoto, MaySet
    <3>2. \A b \in User : photoKey[b] # key[w]
      BY <2>10, Undrawn DEF SetPhotoLostReply, WritePhoto
    <3>3. QED BY <2>10, <3>1, <3>2
  <2>11. CASE SetPhotoRefused(w) BY <2>11 DEF SetPhotoRefused
  <2>12. CASE Undo(w) BY <2>12 DEF Undo, RemoveFile
  <2>13. CASE Cleanup(w) BY <2>13 DEF Cleanup, RemoveFile
  <2>14. CASE RemovePhoto(w)
    <3>1. CASE ForgetAnswered(w)
      BY <2>14, <3>1, ForgetOutcomes DEF RemovePhoto, ForgetAnswered
    <3>2. CASE ForgetUnanswered(w)
      BY <2>14, <3>2, ForgetOutcomes DEF RemovePhoto, ForgetUnanswered
    <3>3. QED BY <2>14, <3>1, <3>2, ForgetOutcomes DEF RemovePhoto
  <2>15. CASE DeleteAccount(w)
    <3>1. CASE ForgetAnswered(w)
      BY <2>15, <3>1, ForgetOutcomes DEF DeleteAccount, ForgetAnswered
    <3>2. CASE ForgetUnanswered(w)
      BY <2>15, <3>2, ForgetOutcomes DEF DeleteAccount, ForgetUnanswered
    <3>3. QED BY <2>15, <3>1, <3>2, ForgetOutcomes DEF DeleteAccount
  <2>16. CASE ForgetRefused(w) BY <2>16 DEF ForgetRefused
  <2>17. QED
    BY <1>2, <2>1, <2>2, <2>3, <2>4, <2>5, <2>6, <2>7, <2>8, <2>9, <2>10, <2>11, <2>12,
       <2>13, <2>14, <2>15, <2>16 DEF Step
<1>3. ASSUME NEW u \in User, SetAllowed(u) PROVE KeysOnce'
  BY <1>3 DEF SetAllowed
<1>4. CASE Tick BY <1>4 DEF Tick
<1>5. CASE Crash BY <1>5 DEF Crash, Stop
<1>6. CASE PowerCut BY <1>6 DEF PowerCut, Stop
<1>7. CASE UNCHANGED vars BY <1>7 DEF vars, rowVars, diskVars, jobVars, histVars
<1>8. QED
  BY <1>1, <1>2, <1>3, <1>4, <1>5, <1>6, <1>7 DEF Next, BeginUpload, BeginRemove, BeginDelete

\* Every step keeps removals away from the files in use.
LEMMA ApartStep == TypeOK /\ WorkOK /\ KeysOnce /\ RemovalsApart /\ [Next]_vars => RemovalsApart'
<1> USE NoneAssumption
<1> SUFFICES ASSUME TypeOK, WorkOK, KeysOnce, RemovalsApart, [Next]_vars PROVE RemovalsApart'
    OBVIOUS
<1>0. UNCHANGED <<account, photoKey>> => Named' = Named BY DEF Named
<1> USE <1>0 DEF TypeOK, WorkOK, KeysOnce, RemovalsApart, Goto, Done
<1>1. ASSUME NEW w \in Worker, NEW u \in User,
             NEW label \in {"slot", "removePhoto", "deleteAccount"}, Arrive(w, u, label)
      PROVE  RemovalsApart'
  BY <1>1 DEF Arrive
<1>2. ASSUME NEW w \in Worker, Step(w) PROVE RemovalsApart'
  <2>1. CASE TakeSlot(w) BY <2>1 DEF TakeSlot
  <2>2. CASE SlotTimeout(w) BY <2>2 DEF SlotTimeout
  <2>3. CASE ProcessDone(w) BY <2>3 DEF ProcessDone
  <2>4. CASE ProcessFailed(w) BY <2>4 DEF ProcessFailed
  <2>5. ASSUME NEW k \in Key, SaveRename(w, k) PROVE RemovalsApart'
    BY <2>5 DEF SaveRename
  <2>6. CASE SaveFailed(w) BY <2>6 DEF SaveFailed
  <2>7. CASE SaveSync(w) BY <2>7 DEF SaveSync
  <2>8. CASE SyncFailed(w) BY <2>8 DEF SyncFailed
  <2>9. CASE SetPhoto(w)
    <3>1. /\ photoKey[who[w]] \in Named \cup {None}
          /\ Named' = (Named \ {photoKey[who[w]]}) \cup {key[w]}
      BY <2>9, NamedWrite DEF SetPhoto
    <3>2. QED BY <2>9, <3>1 DEF SetPhoto, WritePhoto
  <2>10. CASE SetPhotoLostReply(w)
    <3>1. /\ photoKey[who[w]] \in Named \cup {None}
          /\ Named' = (Named \ {photoKey[who[w]]}) \cup {key[w]}
      BY <2>10, NamedWrite DEF SetPhotoLostReply
    <3>2. QED BY <2>10, <3>1 DEF SetPhotoLostReply, WritePhoto
  <2>11. CASE SetPhotoRefused(w) BY <2>11 DEF SetPhotoRefused
  <2>12. CASE Undo(w) BY <2>12 DEF Undo, RemoveFile
  <2>13. CASE Cleanup(w) BY <2>13 DEF Cleanup, RemoveFile
  <2>14. CASE RemovePhoto(w)
    <3>1. /\ photoKey[who[w]] \in Named \cup {None}
          /\ Named' = Named \ {photoKey[who[w]]}
      BY <2>14, NamedForget DEF RemovePhoto
    <3>2. CASE ForgetAnswered(w)
      BY <2>14, <3>1, <3>2, ForgetOutcomes DEF RemovePhoto, ForgetAnswered
    <3>3. CASE ForgetUnanswered(w)
      BY <2>14, <3>1, <3>3, ForgetOutcomes DEF RemovePhoto, ForgetUnanswered
    <3>4. QED BY <2>14, <3>2, <3>3, ForgetOutcomes DEF RemovePhoto
  <2>15. CASE DeleteAccount(w)
    <3>1. /\ photoKey[who[w]] \in Named \cup {None}
          /\ Named' = Named \ {photoKey[who[w]]}
      BY <2>15, NamedForget DEF DeleteAccount
    <3>2. CASE ForgetAnswered(w)
      BY <2>15, <3>1, <3>2, ForgetOutcomes DEF DeleteAccount, ForgetAnswered
    <3>3. CASE ForgetUnanswered(w)
      BY <2>15, <3>1, <3>3, ForgetOutcomes DEF DeleteAccount, ForgetUnanswered
    <3>4. QED BY <2>15, <3>2, <3>3, ForgetOutcomes DEF DeleteAccount
  <2>16. CASE ForgetRefused(w) BY <2>16 DEF ForgetRefused
  <2>17. QED
    BY <1>2, <2>1, <2>2, <2>3, <2>4, <2>5, <2>6, <2>7, <2>8, <2>9, <2>10, <2>11, <2>12,
       <2>13, <2>14, <2>15, <2>16 DEF Step
<1>3. ASSUME NEW u \in User, SetAllowed(u) PROVE RemovalsApart'
  BY <1>3 DEF SetAllowed
<1>4. CASE Tick BY <1>4 DEF Tick
<1>5. CASE Crash BY <1>5 DEF Crash, Stop
<1>6. CASE PowerCut BY <1>6 DEF PowerCut, Stop
<1>7. CASE UNCHANGED vars BY <1>7 DEF vars, rowVars, diskVars, jobVars, histVars
<1>8. QED
  BY <1>1, <1>2, <1>3, <1>4, <1>5, <1>6, <1>7 DEF Next, BeginUpload, BeginRemove, BeginDelete

\* Every step keeps the files of rows in place.
LEMMA PlaceStep == TypeOK /\ WorkOK /\ KeysOnce /\ RemovalsApart /\ InPlace /\ [Next]_vars => InPlace'
<1> USE NoneAssumption
<1> SUFFICES ASSUME TypeOK, WorkOK, KeysOnce, RemovalsApart, InPlace, [Next]_vars PROVE InPlace'
    OBVIOUS
<1>0. UNCHANGED <<account, photoKey>> => Named' = Named BY DEF Named
<1> USE <1>0 DEF TypeOK, WorkOK, KeysOnce, RemovalsApart, InPlace, Goto, Done
<1>1. ASSUME NEW w \in Worker, NEW u \in User,
             NEW label \in {"slot", "removePhoto", "deleteAccount"}, Arrive(w, u, label)
      PROVE  InPlace'
  BY <1>1 DEF Arrive
<1>2. ASSUME NEW w \in Worker, Step(w) PROVE InPlace'
  <2>1. CASE TakeSlot(w) BY <2>1 DEF TakeSlot
  <2>2. CASE SlotTimeout(w) BY <2>2 DEF SlotTimeout
  <2>3. CASE ProcessDone(w) BY <2>3 DEF ProcessDone
  <2>4. CASE ProcessFailed(w) BY <2>4 DEF ProcessFailed
  <2>5. ASSUME NEW k \in Key, SaveRename(w, k) PROVE InPlace'
    BY <2>5 DEF SaveRename
  <2>6. CASE SaveFailed(w) BY <2>6 DEF SaveFailed
  <2>7. CASE SaveSync(w) BY <2>7 DEF SaveSync
  <2>8. CASE SyncFailed(w) BY <2>8 DEF SyncFailed
  <2>9. CASE SetPhoto(w)
    <3>1. /\ photoKey[who[w]] \in Named \cup {None}
          /\ Named' = (Named \ {photoKey[who[w]]}) \cup {key[w]}
      BY <2>9, NamedWrite DEF SetPhoto
    <3>2. QED BY <2>9, <3>1 DEF SetPhoto, WritePhoto
  <2>10. CASE SetPhotoLostReply(w)
    <3>1. /\ photoKey[who[w]] \in Named \cup {None}
          /\ Named' = (Named \ {photoKey[who[w]]}) \cup {key[w]}
      BY <2>10, NamedWrite DEF SetPhotoLostReply
    <3>2. QED BY <2>10, <3>1 DEF SetPhotoLostReply, WritePhoto
  <2>11. CASE SetPhotoRefused(w) BY <2>11 DEF SetPhotoRefused
  <2>12. CASE Undo(w) BY <2>12 DEF Undo, RemoveFile
  <2>13. CASE Cleanup(w) BY <2>13 DEF Cleanup, RemoveFile
  <2>14. CASE RemovePhoto(w)
    <3>1. /\ photoKey[who[w]] \in Named \cup {None}
          /\ Named' = Named \ {photoKey[who[w]]}
      BY <2>14, NamedForget DEF RemovePhoto
    <3>2. CASE ForgetAnswered(w)
      BY <2>14, <3>1, <3>2, ForgetOutcomes DEF RemovePhoto, ForgetAnswered
    <3>3. CASE ForgetUnanswered(w)
      <4>1. Named' \ lost' \subseteq Named \ lost /\ UNCHANGED <<files, durable>>
        BY <2>14, <3>1, <3>3, ForgetOutcomes DEF RemovePhoto, ForgetUnanswered
      <4>2. \A v \in Worker :
               pc'[v] \in {"syncDir", "setPhoto"} => pc'[v] = pc[v] /\ key'[v] = key[v]
        BY <3>3 DEF ForgetUnanswered
      <4>3. QED BY <4>1, <4>2
    <3>4. QED BY <2>14, <3>2, <3>3, ForgetOutcomes DEF RemovePhoto
  <2>15. CASE DeleteAccount(w)
    <3>1. /\ photoKey[who[w]] \in Named \cup {None}
          /\ Named' = Named \ {photoKey[who[w]]}
      BY <2>15, NamedForget DEF DeleteAccount
    <3>2. CASE ForgetAnswered(w)
      BY <2>15, <3>1, <3>2, ForgetOutcomes DEF DeleteAccount, ForgetAnswered
    <3>3. CASE ForgetUnanswered(w)
      <4>1. Named' \ lost' \subseteq Named \ lost /\ UNCHANGED <<files, durable>>
        BY <2>15, <3>1, <3>3, ForgetOutcomes DEF DeleteAccount, ForgetUnanswered
      <4>2. \A v \in Worker :
               pc'[v] \in {"syncDir", "setPhoto"} => pc'[v] = pc[v] /\ key'[v] = key[v]
        BY <3>3 DEF ForgetUnanswered
      <4>3. QED BY <4>1, <4>2
    <3>4. QED BY <2>15, <3>2, <3>3, ForgetOutcomes DEF DeleteAccount
  <2>16. CASE ForgetRefused(w) BY <2>16 DEF ForgetRefused
  <2>17. QED
    BY <1>2, <2>1, <2>2, <2>3, <2>4, <2>5, <2>6, <2>7, <2>8, <2>9, <2>10, <2>11, <2>12,
       <2>13, <2>14, <2>15, <2>16 DEF Step
<1>3. ASSUME NEW u \in User, SetAllowed(u) PROVE InPlace'
  BY <1>3 DEF SetAllowed
<1>4. CASE Tick BY <1>4 DEF Tick
<1>5. CASE Crash BY <1>5 DEF Crash, Stop
<1>6. CASE PowerCut BY <1>6 DEF PowerCut, Stop
<1>7. CASE UNCHANGED vars BY <1>7 DEF vars, rowVars, diskVars, jobVars, histVars
<1>8. QED
  BY <1>1, <1>2, <1>3, <1>4, <1>5, <1>6, <1>7 DEF Next, BeginUpload, BeginRemove, BeginDelete

\* Every step keeps account of the files.
LEMMA AccountedStep == TypeOK /\ WorkOK /\ KeysOnce /\ Accounted /\ [Next]_vars => Accounted'
<1> USE NoneAssumption
<1> SUFFICES ASSUME TypeOK, WorkOK, KeysOnce, Accounted, [Next]_vars PROVE Accounted'
    OBVIOUS
<1>0. UNCHANGED <<account, photoKey>> => Named' = Named BY DEF Named
<1> USE <1>0 DEF TypeOK, WorkOK, Accounted, Goto, Done
<1>1. ASSUME NEW w \in Worker, NEW u \in User,
             NEW label \in {"slot", "removePhoto", "deleteAccount"}, Arrive(w, u, label)
      PROVE  Accounted'
  BY <1>1 DEF Arrive
<1>2. ASSUME NEW w \in Worker, Step(w) PROVE Accounted'
  <2>1. CASE TakeSlot(w) BY <2>1 DEF TakeSlot
  <2>2. CASE SlotTimeout(w) BY <2>2 DEF SlotTimeout
  <2>3. CASE ProcessDone(w) BY <2>3 DEF ProcessDone
  <2>4. CASE ProcessFailed(w) BY <2>4 DEF ProcessFailed
  <2>5. ASSUME NEW k \in Key, SaveRename(w, k) PROVE Accounted'
    BY <2>5 DEF SaveRename
  <2>6. CASE SaveFailed(w) BY <2>6 DEF SaveFailed
  <2>7. CASE SaveSync(w) BY <2>7 DEF SaveSync
  <2>8. CASE SyncFailed(w) BY <2>8 DEF SyncFailed
  <2>9. CASE SetPhoto(w)
    <3>1. /\ photoKey[who[w]] \in Named \cup {None}
          /\ Named' = (Named \ {photoKey[who[w]]}) \cup {key[w]}
      BY <2>9, NamedWrite DEF SetPhoto
    <3> SUFFICES ASSUME NEW k \in files', k \notin Named', k \notin lost'
                 PROVE  \/ \E v \in Worker : pc'[v] \in {"syncDir", "setPhoto", "undo"} /\ key'[v] = k
                        \/ \E v \in Worker : old'[v] = k
        OBVIOUS
    <3>2. /\ k \in files /\ k # key[w] /\ k \notin lost /\ k # None
          /\ old[w] = None /\ key' = key
          /\ \A v \in Worker \ {w} : pc'[v] = pc[v] /\ old'[v] = old[v]
      BY <2>9, <3>1 DEF SetPhoto, WritePhoto
    <3>3. CASE k \in Named
      BY <2>9, <3>1, <3>2, <3>3 DEF SetPhoto, WritePhoto
    <3>4. CASE k \notin Named
      <4>1. PICK v \in Worker \ {w} :
                 \/ pc[v] \in {"syncDir", "setPhoto", "undo"} /\ key[v] = k
                 \/ old[v] = k
        BY <3>2, <3>4
      <4>2. /\ pc'[v] = pc[v] /\ key'[v] = key[v] /\ old'[v] = old[v]
        BY <3>2, <4>1
      <4>3. QED BY <4>1, <4>2
    <3>5. QED BY <3>3, <3>4
  <2>10. CASE SetPhotoLostReply(w)
    <3>1. /\ photoKey[who[w]] \in Named \cup {None}
          /\ Named' = (Named \ {photoKey[who[w]]}) \cup {key[w]}
      BY <2>10, NamedWrite DEF SetPhotoLostReply
    <3> SUFFICES ASSUME NEW k \in files', k \notin Named', k \notin lost'
                 PROVE  \/ \E v \in Worker : pc'[v] \in {"syncDir", "setPhoto", "undo"} /\ key'[v] = k
                        \/ \E v \in Worker : old'[v] = k
        OBVIOUS
    <3>2. /\ k \in files /\ k # key[w] /\ k \notin lost /\ k # None
          /\ old[w] = None /\ key' = key
          /\ \A v \in Worker \ {w} : pc'[v] = pc[v] /\ old'[v] = old[v]
      BY <2>10, <3>1 DEF SetPhotoLostReply, WritePhoto
    <3>3. CASE k \in Named
      BY <2>10, <3>1, <3>2, <3>3 DEF SetPhotoLostReply, WritePhoto
    <3>4. CASE k \notin Named
      <4>1. PICK v \in Worker \ {w} :
                 \/ pc[v] \in {"syncDir", "setPhoto", "undo"} /\ key[v] = k
                 \/ old[v] = k
        BY <3>2, <3>4
      <4>2. /\ pc'[v] = pc[v] /\ key'[v] = key[v] /\ old'[v] = old[v]
        BY <3>2, <4>1
      <4>3. QED BY <4>1, <4>2
    <3>5. QED BY <3>3, <3>4
  <2>11. CASE SetPhotoRefused(w) BY <2>11 DEF SetPhotoRefused
  <2>12. CASE Undo(w)
    <3> SUFFICES ASSUME NEW k \in files', k \notin Named', k \notin lost',
                        ~\E v \in Worker : old'[v] = k
                 PROVE  \E v \in Worker : pc'[v] \in {"syncDir", "setPhoto", "undo"} /\ key'[v] = k
        OBVIOUS
    <3>1. k \in files /\ k # key[w] /\ k \notin Named /\ k \notin lost
      BY <2>12 DEF Undo, RemoveFile
    <3>2. ~\E v \in Worker : old[v] = k
      BY <2>12, <3>1 DEF Undo, RemoveFile
    <3>3. PICK v \in Worker : pc[v] \in {"syncDir", "setPhoto", "undo"} /\ key[v] = k
      BY <3>1, <3>2
    <3>4. QED BY <2>12, <3>1, <3>3 DEF Undo, RemoveFile
  <2>13. CASE Cleanup(w)
    <3> SUFFICES ASSUME NEW k \in files', k \notin Named', k \notin lost'
                 PROVE  \/ \E v \in Worker : pc'[v] \in {"syncDir", "setPhoto", "undo"} /\ key'[v] = k
                        \/ \E v \in Worker : old'[v] = k
        OBVIOUS
    <3>1. UNCHANGED <<account, photoKey>>
      BY <2>13 DEF Cleanup, RemoveFile
    <3>2. k \in files /\ k # old[w] /\ k \notin lost
      BY <2>13 DEF Cleanup, RemoveFile
    <3>3. \/ \E v \in Worker : pc[v] \in {"syncDir", "setPhoto", "undo"} /\ key[v] = k
          \/ \E v \in Worker : old[v] = k
      BY <3>1, <3>2
    <3>4. /\ \A v \in Worker \ {w} : pc'[v] = pc[v] /\ key'[v] = key[v] /\ old'[v] = old[v]
          /\ pc[w] = "cleanup"
      BY <2>13 DEF Cleanup, RemoveFile
    <3>5. QED BY <3>2, <3>3, <3>4
  <2>14. CASE RemovePhoto(w)
    <3>1. /\ photoKey[who[w]] \in Named \cup {None}
          /\ Named' = Named \ {photoKey[who[w]]}
      BY <2>14, NamedForget DEF RemovePhoto
    <3> SUFFICES ASSUME NEW k \in files', k \notin Named', k \notin lost'
                 PROVE  \/ \E v \in Worker : pc'[v] \in {"syncDir", "setPhoto", "undo"} /\ key'[v] = k
                        \/ \E v \in Worker : old'[v] = k
        OBVIOUS
    <3>2. /\ k \in files /\ k \notin lost /\ k # None
          /\ pc[w] \notin {"syncDir", "setPhoto", "undo"} /\ old[w] = None
      <4>1. lost \subseteq lost'
        BY <2>14, ForgetOutcomes DEF RemovePhoto, ForgetAnswered, ForgetUnanswered
      <4>2. files' = files /\ pc[w] \notin {"syncDir", "setPhoto", "undo", "cleanup"}
        BY <2>14, ForgetOutcomes DEF RemovePhoto
      <4>3. QED BY <4>1, <4>2
    <3>3. ASSUME NEW v \in Worker, v # w
          PROVE  pc'[v] = pc[v] /\ old'[v] = old[v] /\ key'[v] = key[v]
      <4>1. CASE ForgetAnswered(w) BY <3>3, <4>1 DEF ForgetAnswered
      <4>2. CASE ForgetUnanswered(w) BY <3>3, <4>2 DEF ForgetUnanswered
      <4>3. QED BY <2>14, <4>1, <4>2, ForgetOutcomes DEF RemovePhoto
    <3>4. CASE k \in Named
      <4>1. k = photoKey[who[w]] BY <3>1, <3>4
      <4>2. ~ForgetUnanswered(w) BY <3>2, <4>1 DEF ForgetUnanswered
      <4>3. ForgetAnswered(w) BY <2>14, <4>2, ForgetOutcomes DEF RemovePhoto
      <4>4. old'[w] = k BY <4>1, <4>3 DEF ForgetAnswered
      <4>5. QED BY <4>4
    <3>5. CASE k \notin Named
      <4>1. \E v \in Worker \ {w} :
               \/ pc[v] \in {"syncDir", "setPhoto", "undo"} /\ key[v] = k
               \/ old[v] = k
        BY <3>2, <3>5
      <4>2. QED BY <3>3, <4>1
    <3>6. QED BY <3>4, <3>5
  <2>15. CASE DeleteAccount(w)
    <3>1. /\ photoKey[who[w]] \in Named \cup {None}
          /\ Named' = Named \ {photoKey[who[w]]}
      BY <2>15, NamedForget DEF DeleteAccount
    <3> SUFFICES ASSUME NEW k \in files', k \notin Named', k \notin lost'
                 PROVE  \/ \E v \in Worker : pc'[v] \in {"syncDir", "setPhoto", "undo"} /\ key'[v] = k
                        \/ \E v \in Worker : old'[v] = k
        OBVIOUS
    <3>2. /\ k \in files /\ k \notin lost /\ k # None
          /\ pc[w] \notin {"syncDir", "setPhoto", "undo"} /\ old[w] = None
      <4>1. lost \subseteq lost'
        BY <2>15, ForgetOutcomes DEF DeleteAccount, ForgetAnswered, ForgetUnanswered
      <4>2. files' = files /\ pc[w] \notin {"syncDir", "setPhoto", "undo", "cleanup"}
        BY <2>15, ForgetOutcomes DEF DeleteAccount
      <4>3. QED BY <4>1, <4>2
    <3>3. ASSUME NEW v \in Worker, v # w
          PROVE  pc'[v] = pc[v] /\ old'[v] = old[v] /\ key'[v] = key[v]
      <4>1. CASE ForgetAnswered(w) BY <3>3, <4>1 DEF ForgetAnswered
      <4>2. CASE ForgetUnanswered(w) BY <3>3, <4>2 DEF ForgetUnanswered
      <4>3. QED BY <2>15, <4>1, <4>2, ForgetOutcomes DEF DeleteAccount
    <3>4. CASE k \in Named
      <4>1. k = photoKey[who[w]] BY <3>1, <3>4
      <4>2. ~ForgetUnanswered(w) BY <3>2, <4>1 DEF ForgetUnanswered
      <4>3. ForgetAnswered(w) BY <2>15, <4>2, ForgetOutcomes DEF DeleteAccount
      <4>4. old'[w] = k BY <4>1, <4>3 DEF ForgetAnswered
      <4>5. QED BY <4>4
    <3>5. CASE k \notin Named
      <4>1. \E v \in Worker \ {w} :
               \/ pc[v] \in {"syncDir", "setPhoto", "undo"} /\ key[v] = k
               \/ old[v] = k
        BY <3>2, <3>5
      <4>2. QED BY <3>3, <4>1
    <3>6. QED BY <3>4, <3>5
  <2>16. CASE ForgetRefused(w) BY <2>16 DEF ForgetRefused
  <2>17. QED
    BY <1>2, <2>1, <2>2, <2>3, <2>4, <2>5, <2>6, <2>7, <2>8, <2>9, <2>10, <2>11, <2>12,
       <2>13, <2>14, <2>15, <2>16 DEF Step
<1>3. ASSUME NEW u \in User, SetAllowed(u) PROVE Accounted'
  BY <1>3 DEF SetAllowed
<1>4. CASE Tick BY <1>4 DEF Tick
<1>5. CASE Crash BY <1>5 DEF Crash, Stop
<1>6. CASE PowerCut BY <1>6 DEF PowerCut, Stop
<1>7. CASE UNCHANGED vars BY <1>7 DEF vars, rowVars, diskVars, jobVars, histVars
<1>8. QED
  BY <1>1, <1>2, <1>3, <1>4, <1>5, <1>6, <1>7 DEF Next, BeginUpload, BeginRemove, BeginDelete

\* Rows and files stay together in every reachable state.
LEMMA FileInvariant == Spec => []FileInv
<1>1. Init => FileInv
  BY DEF Init, FileInv, KeysOnce, RemovalsApart, InPlace, Accounted, Named
<1>2. TypeOK /\ WorkOK /\ FileInv /\ [Next]_vars => FileInv'
  BY KeysStep, ApartStep, PlaceStep, AccountedStep DEF FileInv
<1>3. QED BY <1>1, <1>2, BaseInvariant, PTL DEF Spec

\* Save before SetPhoto, removal after it: whatever uploads, removals, deletions,
\* crashes and power cuts overlap, a row the server knows of finds its file, and
\* no file is left behind that no failure explains.
THEOREM StoresAgree == Spec => []RowsAndFiles
<1>1. TypeOK /\ FileInv => RowsAndFiles
  BY DEF FileInv, InPlace, Accounted, RowsAndFiles, RowNamesFile, NoFileLeaked
<1>2. QED BY <1>1, BaseInvariant, FileInvariant, PTL
-------------------------------------------------------------------------------
(* PhotoProcess: its invariant.                                            *)

\* While entries are read, all of them lie inside the TIFF block.
EntriesInside ==
    at = "entry" => entries.start + entries.count * ifdEntrySize <= payload

\* The result is the scaled image, turned.
Result == at = "done" => out = Turned(orient, scaledSize(img.w, img.h))

\* Past the header the limits hold, for the header does not change.
LimitsHeld == at \notin {"config", "refused"} => WithinLimits(img)

IInv == ProcessTypeOK /\ EntriesInside /\ InBounds /\ Result /\ LimitsHeld
-------------------------------------------------------------------------------
(* Sizes.                                                                  *)

\* A side fitted to MaxEdge is a positive number of pixels, and the nearest.
LEMMA FittedNearest ==
    ASSUME NEW side \in Nat, NEW long \in Nat, long > 0
    PROVE  /\ Fitted(side, long) \in Nat /\ Fitted(side, long) >= 1
           /\ Nearest(Fitted(side, long), side, long) \/ Fitted(side, long) = 1
<1> DEFINE P == side * MaxEdge
           Q == (P + long \div 2) \div long
<1>1. P \in Nat
    BY LimitAssumption
<1>2. long \div 2 \in Nat /\ 2 * (long \div 2) <= long /\ long <= 2 * (long \div 2) + 1
    OBVIOUS
<1> DEFINE R == P + long \div 2
<1>3. R \in Nat
    BY <1>1, <1>2
<1>4. R \div long \in Nat /\ long * (R \div long) <= R /\ R < long * (R \div long) + long
    <2> HIDE DEF R
    <2> QED BY <1>3
<1>5. Q \in Nat /\ Q = R \div long
    BY <1>4
<1> DEFINE L == long * Q
<1>6. L \in Int /\ L <= R /\ R < L + long
    BY <1>4, <1>5
<1>7. 2 * L <= 2 * P + long /\ 2 * P <= 2 * L + long
    <2> HIDE DEF L, Q, P
    <2> QED BY <1>1, <1>2, <1>6
<1>8. 2 * Q * long = 2 * L /\ 2 * side * MaxEdge = 2 * P
    BY <1>5, LimitAssumption
<1>9. Nearest(Q, side, long)
    BY <1>7, <1>8 DEF Nearest
<1>10. Fitted(side, long) = Larger(1, Q)
    BY DEF Fitted
<1>11. CASE Q >= 1
    <2>1. Fitted(side, long) = Q
        <3> HIDE DEF Q
        <3> QED BY <1>5, <1>10, <1>11 DEF Larger
    <2> QED BY <2>1, <1>5, <1>9, <1>11
<1>12. CASE Q < 1
    <2> HIDE DEF Q
    <2> QED BY <1>5, <1>10, <1>12 DEF Larger
<1> QED
    <2> HIDE DEF Q
    <2> QED BY <1>5, <1>11, <1>12

\* A common positive factor does not change the order.
LEMMA ProductOrder ==
    \A k, a, b \in Nat : k > 0 /\ k * a < k * b => a < b
<1> SUFFICES ASSUME NEW k \in Nat, NEW a \in Nat, NEW b \in Nat, k > 0, b <= a
             PROVE  k * b <= k * a
    OBVIOUS
<1>1. PICK d \in Nat : a = b + d
    <2>1. a - b \in Nat /\ a = b + (a - b)
        OBVIOUS
    <2> QED BY <2>1
<1>2. k * a = k * b + k * d /\ k * d \in Nat
    BY <1>1
<1> QED BY <1>2

\* The long side is fitted to MaxEdge itself, and a shorter one to no more.
LEMMA FittedEdge ==
    ASSUME NEW side \in Nat, NEW long \in Nat, long > 0, side <= long
    PROVE  Fitted(side, long) <= MaxEdge /\ (side = long => Fitted(side, long) = MaxEdge)
<1> DEFINE Q == (side * MaxEdge + long \div 2) \div long
           R == side * MaxEdge + long \div 2
<1>1. side * MaxEdge \in Nat /\ long * MaxEdge \in Nat /\ side * MaxEdge <= long * MaxEdge
    BY LimitAssumption
<1>2. long \div 2 \in Nat /\ long \div 2 < long
    OBVIOUS
<1>3. R \in Nat
    BY <1>1, <1>2
<1>4. R \div long \in Nat /\ long * (R \div long) <= R /\ R < long * (R \div long) + long
    <2> HIDE DEF R
    <2> QED BY <1>3
<1>5. Q \in Nat /\ long * Q <= R /\ R < long * Q + long
    BY <1>4
<1>6. R < long * MaxEdge + long
    BY <1>1, <1>2
<1>7. long * Q < long * (MaxEdge + 1)
    <2> HIDE DEF R, Q
    <2>1. long * (MaxEdge + 1) = long * MaxEdge + long /\ long * Q \in Nat
        BY <1>5, LimitAssumption
    <2> QED BY <1>1, <1>3, <1>5, <1>6, <2>1
<1>8. Q < MaxEdge + 1
    <2> HIDE DEF R, Q
    <2> QED BY <1>5, <1>7, LimitAssumption, ProductOrder
<1>9. ASSUME side = long PROVE Q = MaxEdge
    <2>1. long * MaxEdge <= R
        BY <1>1, <1>2, <1>9
    <2> HIDE DEF R, Q
    <2>2. long * MaxEdge < long * (Q + 1)
        <3>1. long * (Q + 1) = long * Q + long /\ long * Q \in Nat
            BY <1>5
        <3> QED BY <1>1, <1>3, <1>5, <2>1, <3>1
    <2>3. MaxEdge < Q + 1
        BY <1>5, <2>2, LimitAssumption, ProductOrder
    <2> QED BY <1>5, <1>8, <2>3, LimitAssumption
<1>10. Fitted(side, long) = Larger(1, Q)
    BY DEF Fitted
<1> HIDE DEF Q
<1> QED BY <1>5, <1>8, <1>9, <1>10, LimitAssumption DEF Larger

\* scaledSize returns two naturals, at most MaxEdge when it scales.
LEMMA ScaledSizeType ==
    ASSUME NEW w \in Nat, NEW h \in Nat
    PROVE  scaledSize(w, h) \in [w : Nat, h : Nat]
<1>1. Larger(w, h) \in Nat /\ w <= Larger(w, h) /\ h <= Larger(w, h)
    BY DEF Larger
<1>2. CASE Larger(w, h) > MaxEdge
    <2>1. Larger(w, h) > 0
        BY <1>1, <1>2, LimitAssumption
    <2>2. Fitted(w, Larger(w, h)) \in Nat /\ Fitted(h, Larger(w, h)) \in Nat
        BY <1>1, <2>1, FittedNearest
    <2> QED BY <1>2, <2>2 DEF scaledSize
<1>3. CASE ~(Larger(w, h) > MaxEdge)
    BY <1>3 DEF scaledSize
<1> QED BY <1>2, <1>3

\* No side of a scaled image is longer than MaxEdge.
LEMMA ScaledWithinEdge ==
    ASSUME NEW w \in Nat, NEW h \in Nat
    PROVE  scaledSize(w, h).w <= MaxEdge /\ scaledSize(w, h).h <= MaxEdge
<1>1. Larger(w, h) \in Nat /\ w <= Larger(w, h) /\ h <= Larger(w, h)
    BY DEF Larger
<1>2. CASE Larger(w, h) > MaxEdge
    <2>1. Larger(w, h) > 0
        BY <1>1, <1>2, LimitAssumption
    <2>2. Fitted(w, Larger(w, h)) <= MaxEdge /\ Fitted(h, Larger(w, h)) <= MaxEdge
        BY <1>1, <2>1, FittedEdge
    <2> QED BY <1>2, <2>2 DEF scaledSize
<1>3. CASE ~(Larger(w, h) > MaxEdge)
    BY <1>1, <1>3, LimitAssumption DEF scaledSize
<1> QED BY <1>2, <1>3

\* Turning twice gives the sizes back.
LEMMA TurnedTwice ==
    ASSUME NEW o \in 1..8, NEW s \in [w : Nat, h : Nat]
    PROVE  Turned(o, s) \in [w : Nat, h : Nat] /\ Turned(o, Turned(o, s)) = s
BY DEF Turned
-------------------------------------------------------------------------------
(* The inductive invariant.                                                *)

\* The first state satisfies the invariant.
LEMMA Initially == ProcessInit => IInv
BY InputAssumption DEF ProcessInit, IInv, ProcessTypeOK, Steps, NoEntries, EntriesInside, InBounds, Result,
   LimitsHeld

\* The steps over the header.
LEMMA HeaderStep == ASSUME IInv, Header PROVE IInv'
<1> USE InputAssumption DEF IInv, ProcessTypeOK, Steps, EntriesInside, InBounds, Result, LimitsHeld
<1>1. CASE ConfigRefused
    BY <1>1 DEF ConfigRefused, Refuse
<1>2. CASE ConfigPNG
    BY <1>2 DEF ConfigPNG, Upright1, WithinLimits
<1>3. CASE ConfigJPEG
    BY <1>3 DEF ConfigJPEG, Touch, WithinLimits
<1> QED BY <1>1, <1>2, <1>3 DEF Header

\* A step that does not touch the header, past it, keeps the limits.
LEMMA LimitsKept ==
    ASSUME LimitsHeld, img' = img, at \notin {"config", "refused"}
    PROVE  LimitsHeld'
BY DEF LimitsHeld, WithinLimits, estimatedPeak, scaledSize, Fitted, Larger, bytesPerPixel

\* The steps of orientation.
LEMMA WalkStep == ASSUME IInv, Walk PROVE IInv'
<1> USE InputAssumption DEF IInv, ProcessTypeOK, Steps, EntriesInside, InBounds, Result, Touch, Upright1
<1>1. LimitsHeld'
    BY LimitsKept DEF Walk, Marker, MarkerAbsent, Fill, FillEnds, Segment, SegmentBad,
       SegmentCut, OtherSegment, Exif
<1>2. CASE Marker
    BY <1>1, <1>2 DEF Marker
<1>3. CASE MarkerAbsent
    BY <1>1, <1>3 DEF MarkerAbsent
<1>4. CASE Fill
    BY <1>1, <1>4 DEF Fill
<1>5. CASE FillEnds
    BY <1>1, <1>5 DEF FillEnds
<1>6. ASSUME NEW n \in Words, Segment(n) PROVE IInv'
    BY <1>1, <1>6 DEF Segment
<1>7. CASE SegmentBad
    BY <1>1, <1>7 DEF SegmentBad, LengthThere
<1>8. CASE SegmentCut
    BY <1>1, <1>8 DEF SegmentCut
<1>9. CASE OtherSegment
    BY <1>1, <1>9 DEF OtherSegment
<1>10. CASE Exif
    BY <1>1, <1>10 DEF Exif, exifHeaderLen
<1> QED BY <1>2, <1>3, <1>4, <1>5, <1>6, <1>7, <1>8, <1>9, <1>10 DEF Walk

\* The next entry ends inside the block, for all of them do.
LEMMA EntryInside == ASSUME IInv, TakeEntry PROVE EntryEnd <= payload /\ EntryEnd \in Nat
BY DEF IInv, ProcessTypeOK, EntriesInside, TakeEntry, EntryEnd, ifdEntrySize

\* The steps of tiffOrientation.
LEMMA TiffStep == ASSUME IInv, TiffWalk PROVE IInv'
<1> USE InputAssumption DEF IInv, ProcessTypeOK, Steps, EntriesInside, InBounds, Result, Touch, Upright1
<1>1. LimitsHeld'
    BY LimitsKept DEF TiffWalk, Tiff, TiffBad, IfdOutside, Ifd, EntriesOutside,
       OrientationEntry, OtherEntry, OrientationType, NoOrientation, TakeEntry
<1>2. CASE Tiff
    BY <1>1, <1>2 DEF Tiff
<1>3. CASE TiffBad
    BY <1>1, <1>3 DEF TiffBad
<1>4. ASSUME NEW ifd \in Offsets, IfdOutside(ifd) PROVE IInv'
    BY <1>1, <1>4 DEF IfdOutside
<1>5. ASSUME NEW ifd \in Offsets, NEW n \in Words, Ifd(ifd, n) PROVE IInv'
    BY <1>1, <1>5 DEF Ifd, EntriesThere, ifdEntrySize
<1>6. ASSUME NEW ifd \in Offsets, NEW n \in Words, EntriesOutside(ifd, n) PROVE IInv'
    BY <1>1, <1>6 DEF EntriesOutside
<1>7. ASSUME NEW v \in 0..9, OrientationEntry(v) PROVE IInv'
    BY <1>1, <1>7, EntryInside DEF OrientationEntry, ValidOrientation, TakeEntry
<1>8. CASE OtherEntry
    BY <1>1, <1>8, EntryInside DEF OtherEntry, TakeEntry
<1>9. CASE OrientationType
    BY <1>1, <1>9, EntryInside DEF OrientationType, TakeEntry
<1>10. CASE NoOrientation
    BY <1>1, <1>10 DEF NoOrientation
<1> QED BY <1>2, <1>3, <1>4, <1>5, <1>6, <1>7, <1>8, <1>9, <1>10 DEF TiffWalk

\* Scaling and turning.
LEMMA FinishStep == ASSUME IInv, Finish PROVE IInv'
<1>1. LimitsHeld'
    BY LimitsKept DEF IInv, Finish
<1>2. img.w \in Nat /\ img.h \in Nat /\ orient \in 1..8
    BY InputAssumption DEF IInv, ProcessTypeOK
<1>3. scaledSize(img.w, img.h) \in [w : Nat, h : Nat]
    BY <1>2, ScaledSizeType
<1>4. out' \in [w : Nat, h : Nat]
    BY <1>2, <1>3, TurnedTwice DEF Finish
<1>5. Result'
    BY DEF Finish, Result
<1> QED BY <1>1, <1>4, <1>5 DEF IInv, ProcessTypeOK, Steps, EntriesInside, InBounds, Finish

\* Every step keeps the invariant.
LEMMA Inductive == IInv /\ [ProcessNext]_processVars => IInv'
<1> SUFFICES ASSUME IInv, [ProcessNext]_processVars PROVE IInv'
    OBVIOUS
<1>1. CASE Header BY <1>1, HeaderStep
<1>2. CASE Walk BY <1>2, WalkStep
<1>3. CASE TiffWalk BY <1>3, TiffStep
<1>4. CASE Finish BY <1>4, FinishStep
<1>5. CASE DecodeFails
    BY <1>5 DEF IInv, ProcessTypeOK, Steps, EntriesInside, InBounds, Result, LimitsHeld, DecodeFails, Refuse
<1>6. CASE UNCHANGED processVars
    BY <1>6 DEF IInv, ProcessTypeOK, EntriesInside, InBounds, Result, LimitsHeld, processVars
<1> QED BY <1>1, <1>2, <1>3, <1>4, <1>5, <1>6 DEF ProcessNext

\* The invariant holds throughout.
LEMMA Invariant == ProcessSpec => []IInv
BY Initially, Inductive, PTL DEF ProcessSpec
-------------------------------------------------------------------------------
(* What follows from it.                                                   *)

\* Whatever the bytes of the upload say, orientation and tiffOrientation take
\* no slice that ends beyond its array: "no input can make it panic".
THEOREM WalkInBounds == ProcessSpec => [](ProcessTypeOK /\ InBounds)
BY Invariant, PTL DEF IInv

\* scaledSize, for every size a header may declare: the long side becomes
\* MaxEdge, the other the nearest integer or 1, and nothing is enlarged.
THEOREM AspectKept == ProcessSpec => []KeepsAspect
<1>1. ASSUME IInv PROVE KeepsAspect
    <2> SUFFICES ASSUME at = "done" PROVE KeepsAspect
        BY DEF KeepsAspect
    <2> DEFINE long == Larger(img.w, img.h)
               s == scaledSize(img.w, img.h)
    <2>1. img.w \in Nat /\ img.h \in Nat /\ orient \in 1..8
        BY <1>1, InputAssumption DEF IInv, ProcessTypeOK
    <2>2. Stored = s
        BY <1>1, <2>1, ScaledSizeType, TurnedTwice DEF IInv, Result, Stored
    <2>3. long \in Nat /\ img.w <= long /\ img.h <= long /\ (img.w = long \/ img.h = long)
        BY <2>1 DEF Larger
    <2>4. CASE long <= MaxEdge
        BY <2>2, <2>3, <2>4, LimitAssumption DEF KeepsAspect, scaledSize
    <2>5. CASE ~(long <= MaxEdge)
        <3>1. long > MaxEdge /\ long > 0
            BY <2>3, <2>5, LimitAssumption
        <3>2. s = [w |-> Fitted(img.w, long), h |-> Fitted(img.h, long)]
            BY <3>1 DEF scaledSize
        <3> DEFINE fw == Fitted(img.w, long)
                   fh == Fitted(img.h, long)
        <3>3. /\ fw \in Nat /\ fw >= 1 /\ (Nearest(fw, img.w, long) \/ fw = 1)
              /\ fh \in Nat /\ fh >= 1 /\ (Nearest(fh, img.h, long) \/ fh = 1)
            BY <2>1, <2>3, <3>1, FittedNearest
        <3>4. /\ fw <= MaxEdge /\ (img.w = long => fw = MaxEdge)
              /\ fh <= MaxEdge /\ (img.h = long => fh = MaxEdge)
            BY <2>1, <2>3, <3>1, FittedEdge
        <3>5. Stored.w = fw /\ Stored.h = fh
            BY <2>2, <3>2
        <3> HIDE DEF fw, fh, s
        <3>6. Larger(Stored.w, Stored.h) = MaxEdge
            BY <2>3, <3>3, <3>4, <3>5, LimitAssumption DEF Larger
        <3>7. \A t \in {<<Stored.w, img.w>>, <<Stored.h, img.h>>} :
                  t[1] >= 1 /\ (Nearest(t[1], t[2], long) \/ t[1] = 1)
            BY <3>3, <3>5
        <3> QED BY <2>5, <3>6, <3>7 DEF KeepsAspect
    <2> QED BY <2>4, <2>5
<1> QED BY <1>1, Invariant, PTL

\* Two factors within a bound have a product within its square.
LEMMA ProductWithin ==
    ASSUME NEW a \in Nat, NEW b \in Nat, NEW n \in Nat, a <= n, b <= n
    PROVE  a * b \in Nat /\ a * b <= n * n
<1>1. a * b \in Nat /\ a * n \in Nat /\ n * n \in Nat
    OBVIOUS
<1>2. PICK d \in Nat : n = b + d
    <2>1. n - b \in Nat /\ n = b + (n - b)
        OBVIOUS
    <2> QED BY <2>1
<1>3. PICK e \in Nat : n = a + e
    <2>1. n - a \in Nat /\ n = a + (n - a)
        OBVIOUS
    <2> QED BY <2>1
<1>4. a * n = a * b + a * d /\ a * d \in Nat
    BY <1>2
<1>5. n * n = a * n + e * n /\ e * n \in Nat
    BY <1>3
<1> QED BY <1>1, <1>4, <1>5

\* Every colour model has its bytes per pixel.
LEMMA PixelBytes == \A m \in Models : bytesPerPixel[m] \in Nat
<1> SUFFICES ASSUME NEW m \in Models PROVE bytesPerPixel[m] \in Nat
    OBVIOUS
<1>1. m \in {"rgba64", "rgba", "ycbcr", "gray16", "gray", "unknown"}
    BY ModelAssumption
<1>2. CASE m = "rgba64" BY <1>2 DEF bytesPerPixel
<1>3. CASE m = "rgba" BY <1>3 DEF bytesPerPixel
<1>4. CASE m = "ycbcr" BY <1>4 DEF bytesPerPixel
<1>5. CASE m = "gray16" BY <1>5 DEF bytesPerPixel
<1>6. CASE m = "gray" BY <1>6 DEF bytesPerPixel
<1>7. CASE m = "unknown" BY <1>7 DEF bytesPerPixel
<1> QED BY <1>1, <1>2, <1>3, <1>4, <1>5, <1>6, <1>7

\* The pixels that decoding, scaling and turning hold stay within MaxDecodeBytes and
\* two output images, for every header that Process lets through.
THEOREM MemoryWithinLimits == ProcessSpec => []MemoryBounded
<1>1. ASSUME IInv PROVE MemoryBounded
    <2> SUFFICES ASSUME at \in {"decode", "done"}
                 PROVE Held <= MaxDecodeBytes + 2 * (4 * MaxEdge * MaxEdge)
        BY DEF MemoryBounded
    <2> DEFINE s == scaledSize(img.w, img.h)
               decoded == img.w * img.h * bytesPerPixel[img.model]
               buffer == s.w * img.h * ScalerCellBytes
               area == s.w * s.h
               edge == MaxEdge * MaxEdge
    <2>1. img.w \in Nat /\ img.h \in Nat /\ img.model \in Models
        BY <1>1, InputAssumption DEF IInv, ProcessTypeOK
    <2>2. s.w \in Nat /\ s.h \in Nat /\ s.w <= MaxEdge /\ s.h <= MaxEdge
        BY <2>1, ScaledSizeType, ScaledWithinEdge
    <2>3. area \in Nat /\ edge \in Nat /\ area <= edge
        <3> HIDE DEF s
        <3> QED BY <2>2, ProductWithin, LimitAssumption
    <2>4. bytesPerPixel[img.model] \in Nat
        BY <2>1, PixelBytes
    <2>5. decoded \in Nat /\ buffer \in Nat
        <3> HIDE DEF s
        <3> QED BY <2>1, <2>2, <2>4, LimitAssumption
    <2>6. decoded + buffer <= MaxDecodeBytes
        BY <1>1 DEF IInv, LimitsHeld, WithinLimits, estimatedPeak
    <2>7. 4 * s.w * s.h = 4 * area /\ 4 * MaxEdge * MaxEdge = 4 * edge
        <3> HIDE DEF s
        <3> QED BY <2>2, LimitAssumption
    <2>8. Held = decoded + buffer + 2 * (4 * s.w * s.h)
        BY DEF Held
    <2>9. Held = decoded + buffer + 2 * (4 * area)
        <3> HIDE DEF s, decoded, buffer, area, edge
        <3> QED BY <2>7, <2>8
    <2> HIDE DEF s, decoded, buffer, area, edge
    <2> QED BY <2>3, <2>5, <2>6, <2>7, <2>9, LimitAssumption
<1> QED BY <1>1, Invariant, PTL

\* scaledSize and the limits together: what is written has the proportions of what was
\* sent, and what was held on the way fits in memory.
THEOREM ScaledWithinLimits == ProcessSpec => []Scaled
<1>1. KeepsAspect /\ MemoryBounded => Scaled BY DEF Scaled
<1> QED BY <1>1, AspectKept, MemoryWithinLimits, PTL

\* orient8 for every size: it reads inside the image and its pixel is seen
\* where the tag puts it.
LEMMA SourceSeen ==
    ASSUME NEW o \in 1..8, NEW w \in Nat, NEW h \in Nat,
           NEW x \in 0..(Turned(o, [w |-> w, h |-> h]).w - 1),
           NEW y \in 0..(Turned(o, [w |-> w, h |-> h]).h - 1)
    PROVE  LET d == Turned(o, [w |-> w, h |-> h])
               s == Source(o, w, h, x, y)
           IN  /\ s[1] \in 0..(w - 1) /\ s[2] \in 0..(h - 1)
               /\ SeenX(o, d.w, s[1], s[2]) = x /\ SeenY(o, d.h, s[1], s[2]) = y
<1>1. CASE o = 1 BY <1>1 DEF Turned, Source, SeenX, SeenY, VisualSides
<1>2. CASE o = 2 BY <1>2 DEF Turned, Source, SeenX, SeenY, VisualSides
<1>3. CASE o = 3 BY <1>3 DEF Turned, Source, SeenX, SeenY, VisualSides
<1>4. CASE o = 4 BY <1>4 DEF Turned, Source, SeenX, SeenY, VisualSides
<1>5. CASE o = 5 BY <1>5 DEF Turned, Source, SeenX, SeenY, VisualSides
<1>6. CASE o = 6 BY <1>6 DEF Turned, Source, SeenX, SeenY, VisualSides
<1>7. CASE o = 7 BY <1>7 DEF Turned, Source, SeenX, SeenY, VisualSides
<1>8. CASE o = 8 BY <1>8 DEF Turned, Source, SeenX, SeenY, VisualSides
<1>9. o \in {1, 2, 3, 4, 5, 6, 7, 8} OBVIOUS
<1> QED BY <1>1, <1>2, <1>3, <1>4, <1>5, <1>6, <1>7, <1>8, <1>9

\* Every pixel of every finished photo is where its orientation tag says.
THEOREM PixelsUpright == ProcessSpec => []Upright
<1>1. ASSUME IInv PROVE Upright
    <2> SUFFICES ASSUME at = "done",
                        NEW x \in 0..(out.w - 1), NEW y \in 0..(out.h - 1)
                 PROVE  LET s == Source(orient, Stored.w, Stored.h, x, y)
                        IN  /\ s[1] \in 0..(Stored.w - 1) /\ s[2] \in 0..(Stored.h - 1)
                            /\ SeenX(orient, out.w, s[1], s[2]) = x
                            /\ SeenY(orient, out.h, s[1], s[2]) = y
        BY DEF Upright
    <2>1. img.w \in Nat /\ img.h \in Nat /\ orient \in 1..8
        BY <1>1, InputAssumption DEF IInv, ProcessTypeOK
    <2>2. PICK t \in [w : Nat, h : Nat] : out = Turned(orient, t) /\ Stored = t
        BY <1>1, <2>1, ScaledSizeType, TurnedTwice DEF IInv, Result, Stored
    <2>3. t = [w |-> t.w, h |-> t.h] /\ t.w \in Nat /\ t.h \in Nat
        OBVIOUS
    <2>4. out = Turned(orient, [w |-> t.w, h |-> t.h])
        BY <2>2, <2>3
    <2> DEFINE s == Source(orient, t.w, t.h, x, y)
               d == Turned(orient, [w |-> t.w, h |-> t.h])
    <2>5. x \in 0..(d.w - 1) /\ y \in 0..(d.h - 1)
        BY <2>4
    <2>6. /\ s[1] \in 0..(t.w - 1) /\ s[2] \in 0..(t.h - 1)
          /\ SeenX(orient, d.w, s[1], s[2]) = x /\ SeenY(orient, d.h, s[1], s[2]) = y
        BY <2>1, <2>3, <2>5, SourceSeen
    <2> QED BY <2>2, <2>4, <2>6
<1> QED BY <1>1, Invariant, PTL
===============================================================================
