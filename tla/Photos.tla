-------------------------------- MODULE Photos --------------------------------
(***************************************************************************)
(* The photo of an account: a row in users that names a file on disk.      *)
(*                                                                         *)
(* A worker is one HTTP request: handlePhotoUpload, handlePhotoRemove or   *)
(* handleAccountDelete.  SetPhoto and RemovePhoto are one statement each,  *)
(* DeleteAccount holds the row from its first read to its commit, so each  *)
(* is one step here (Accounts has the statements of DeleteAccount).  The   *)
(* file system is a directory whose entries are durable only once it has   *)
(* been synced.  Time is the application's clock; a day is DayLength long. *)
(*                                                                         *)
(* Data left out: the bytes of a photo, its size, and how it is processed. *)
(***************************************************************************)
EXTENDS Integers, FiniteSets

CONSTANTS
    Worker,      \* concurrent requests
    User,        \* account ids
    Key,         \* keys photostore.NewKey can return, each at most once
    None,
    DayLength,
    Faults,      \* what may go wrong: "io", "crash", "powercut", "lostreply"
    MaxClock     \* bound on the clock, for TLC

ASSUME NoneAssumption == None \notin Key /\ None \notin User
ASSUME DayAssumption == DayLength \in Nat \ {0} /\ MaxClock \in Nat

VARIABLES
    clock,
    account,     \* users rows that exist
    allowed,     \* users.can_upload_photos
    photoKey,    \* users.photo_key
    uploadedAt,  \* users.photo_uploaded_at, -1 for NULL
    files,       \* keys with a file in the directory
    durable,     \* what the directory held when it was last synced
    photoSlot,   \* the channel of capacity one: how many values it holds
    pc,          \* where each worker is
    who,         \* the account the request is signed in as
    now,         \* s.now(), read once per request
    key,         \* the key of the new photo
    old          \* the key the statement returned, for the file to remove

\* History: kept for the properties.
VARIABLES
    uploadsOn,   \* committed uploads stamped with each day
    lost         \* keys a failure made the server forget

rowVars  == <<account, allowed, photoKey, uploadedAt>>
diskVars == <<files, durable>>
jobVars  == <<who, now, key, old>>
histVars == <<uploadsOn, lost>>
vars     == <<clock, rowVars, diskVars, photoSlot, pc, jobVars, histVars>>

PC == {"idle", "slot", "process", "save", "syncDir", "setPhoto", "undo",
       "removePhoto", "deleteAccount", "cleanup"}

Day(t) == t \div DayLength
dayStart(t) == Day(t) * DayLength

TypeOK ==
    /\ clock \in Nat
    /\ account \subseteq User /\ allowed \subseteq User
    /\ photoKey \in [User -> Key \cup {None}]
    /\ uploadedAt \in [User -> Int]
    /\ files \subseteq Key /\ durable \subseteq Key
    /\ photoSlot \in 0..1
    /\ pc \in [Worker -> PC]
    /\ who \in [Worker -> User \cup {None}]
    /\ now \in [Worker -> Nat]
    /\ key \in [Worker -> Key \cup {None}]
    /\ old \in [Worker -> Key \cup {None}]
    /\ uploadsOn \in [User -> [0..Day(MaxClock) -> Nat]]
    /\ lost \subseteq Key

Init ==
    /\ clock = 0
    /\ account = User /\ allowed = User
    /\ photoKey = [u \in User |-> None]
    /\ uploadedAt = [u \in User |-> -1]
    /\ files = {} /\ durable = {}
    /\ photoSlot = 0
    /\ pc = [w \in Worker |-> "idle"]
    /\ who = [w \in Worker |-> None]
    /\ now = [w \in Worker |-> 0]
    /\ key = [w \in Worker |-> None]
    /\ old = [w \in Worker |-> None]
    /\ uploadsOn = [u \in User |-> [d \in 0..Day(MaxClock) |-> 0]]
    /\ lost = {}

Goto(w, label) == pc' = [pc EXCEPT ![w] = label]

\* The response is sent.
Done(w) ==
    /\ Goto(w, "idle")
    /\ who' = [who EXCEPT ![w] = None]
    /\ now' = [now EXCEPT ![w] = 0]
    /\ key' = [key EXCEPT ![w] = None]
    /\ old' = [old EXCEPT ![w] = None]

\* A request from a signed-in account; CurrentUser has just read its row.
Arrive(w, u, label) ==
    /\ pc[w] = "idle"
    /\ u \in account
    /\ Goto(w, label)
    /\ who' = [who EXCEPT ![w] = u]
    /\ now' = [now EXCEPT ![w] = clock]
    /\ UNCHANGED <<clock, rowVars, diskVars, photoSlot, key, old, histVars>>

Named == {photoKey[u] : u \in account} \ {None}
-------------------------------------------------------------------------------
(* handlePhotoUpload.                                                      *)

UploadedPhotoOn(u, t) == uploadedAt[u] # -1 /\ Day(uploadedAt[u]) = Day(t)

BeginUpload(w, u) ==
    /\ u \in allowed
    /\ ~UploadedPhotoOn(u, clock)
    /\ Arrive(w, u, "slot")

TakeSlot(w) ==
    /\ pc[w] = "slot"
    /\ photoSlot = 0
    /\ photoSlot' = 1
    /\ Goto(w, "process")
    /\ UNCHANGED <<clock, rowVars, diskVars, jobVars, histVars>>

\* The timer fired, or the client went away.
SlotTimeout(w) ==
    /\ pc[w] = "slot"
    /\ Done(w)
    /\ UNCHANGED <<clock, rowVars, diskVars, photoSlot, histVars>>

\* photo.Process returns, and the deferred receive gives the slot back.
ProcessDone(w) ==
    /\ pc[w] = "process"
    /\ photoSlot' = photoSlot - 1
    /\ Goto(w, "save")
    /\ UNCHANGED <<clock, rowVars, diskVars, jobVars, histVars>>

\* Defect: a panic skips the receive.
ProcessFailedHolding(w) ==
    /\ pc[w] = "process"
    /\ Done(w)
    /\ UNCHANGED <<clock, rowVars, diskVars, photoSlot, histVars>>

\* It refuses the photo, or panics; the slot is given back all the same.
ProcessFailed(w) ==
    /\ pc[w] = "process"
    /\ photoSlot' = photoSlot - 1
    /\ Done(w)
    /\ UNCHANGED <<clock, rowVars, diskVars, histVars>>

\* NewKey, and Save up to the rename: the whole file is in place.
SaveRename(w, k) ==
    /\ pc[w] = "save"
    /\ k \notin Named \cup files \cup durable \cup lost
    /\ \A v \in Worker : k \notin {key[v], old[v]}
    /\ files' = files \cup {k}
    /\ key' = [key EXCEPT ![w] = k]
    /\ Goto(w, "syncDir")
    /\ UNCHANGED <<clock, rowVars, durable, photoSlot, who, now, old, histVars>>

\* Save fails before the rename, and leaves nothing behind.
SaveFailed(w) ==
    /\ "io" \in Faults
    /\ pc[w] = "save"
    /\ Done(w)
    /\ UNCHANGED <<clock, rowVars, diskVars, photoSlot, histVars>>

\* Defect: Save returns after the rename.
SaveSkipSync(w) ==
    /\ pc[w] = "syncDir"
    /\ Goto(w, "setPhoto")
    /\ UNCHANGED <<clock, rowVars, diskVars, photoSlot, jobVars, histVars>>

\* Save syncs the directory: its entries, the removed ones too, are durable.
SaveSync(w) ==
    /\ pc[w] = "syncDir"
    /\ durable' = files
    /\ Goto(w, "setPhoto")
    /\ UNCHANGED <<clock, rowVars, files, photoSlot, jobVars, histVars>>

\* The sync fails: the upload does too, and nobody removes the file.
SyncFailed(w) ==
    /\ "io" \in Faults
    /\ pc[w] = "syncDir"
    /\ lost' = lost \cup {key[w]}
    /\ Done(w)
    /\ UNCHANGED <<clock, rowVars, diskVars, photoSlot, uploadsOn>>

\* Defect: the day is the one the statement runs on, not the request's.
MaySetLater(w) ==
    LET u == who[w] IN
    /\ u \in account
    /\ u \in allowed
    /\ uploadedAt[u] = -1 \/ uploadedAt[u] < dayStart(clock)

\* The WHERE of SetPhoto.
MaySet(w) ==
    LET u == who[w] IN
    /\ u \in account
    /\ u \in allowed
    /\ uploadedAt[u] = -1 \/ uploadedAt[u] < dayStart(now[w])

\* The statement has written the row; reply tells whether the server hears of it.
WritePhoto(w, reply) ==
    LET u == who[w] IN
    /\ pc[w] = "setPhoto"
    /\ MaySet(w)
    /\ photoKey' = [photoKey EXCEPT ![u] = key[w]]
    /\ uploadedAt' = [uploadedAt EXCEPT ![u] = now[w]]
    /\ uploadsOn' = [uploadsOn EXCEPT ![u][Day(now[w])] = @ + 1]
    /\ old' = [old EXCEPT ![w] = IF reply THEN photoKey[u] ELSE None]
    /\ lost' = IF reply THEN lost ELSE lost \cup ({photoKey[u], key[w]} \ {None})
    /\ Goto(w, IF reply THEN "cleanup" ELSE "undo")
    /\ UNCHANGED <<clock, account, allowed, diskVars, photoSlot, who, now, key>>

SetPhoto(w) == WritePhoto(w, TRUE)

\* The connection is lost, or the request cancelled, after the commit.
SetPhotoLostReply(w) ==
    /\ "lostreply" \in Faults
    /\ WritePhoto(w, FALSE)

\* ErrPhotoNotAllowed, or a statement that failed.
SetPhotoRefused(w) ==
    /\ pc[w] = "setPhoto"
    /\ ~MaySet(w) \/ "io" \in Faults
    /\ Goto(w, "undo")
    /\ UNCHANGED <<clock, rowVars, diskVars, photoSlot, jobVars, histVars>>

\* removePhotoFile logs a failure and carries on.
RemoveFile(w, k) ==
    /\ \/ /\ files' = files \ {k}
          /\ UNCHANGED lost
       \/ /\ "io" \in Faults
          /\ lost' = lost \cup ({k} \ {None})
          /\ UNCHANGED files
    /\ Done(w)
    /\ UNCHANGED <<clock, rowVars, durable, photoSlot, uploadsOn>>

Undo(w) ==
    /\ pc[w] = "undo"
    /\ RemoveFile(w, key[w])

Cleanup(w) ==
    /\ pc[w] = "cleanup"
    /\ RemoveFile(w, old[w])
-------------------------------------------------------------------------------
(* handlePhotoRemove and handleAccountDelete.                              *)

BeginRemove(w, u) == Arrive(w, u, "removePhoto")

BeginDelete(w, u) == Arrive(w, u, "deleteAccount")

\* The row stops naming its file.  When the reply is lost the file is, too.
Forget(w, reply) ==
    LET k == photoKey[who[w]] IN
    /\ who[w] \in account
    /\ photoKey' = [photoKey EXCEPT ![who[w]] = None]
    /\ IF reply
       THEN /\ old' = [old EXCEPT ![w] = k]
            /\ Goto(w, "cleanup")
            /\ UNCHANGED <<who, now, key, lost>>
       ELSE /\ Done(w)
            /\ lost' = lost \cup ({k} \ {None})
    /\ UNCHANGED <<clock, allowed, uploadedAt, diskVars, photoSlot, uploadsOn>>

RemovePhoto(w) ==
    /\ pc[w] = "removePhoto"
    /\ \E reply \in {TRUE} \cup {"lostreply" \notin Faults} : Forget(w, reply)
    /\ UNCHANGED account

DeleteAccount(w) ==
    /\ pc[w] = "deleteAccount"
    /\ \E reply \in {TRUE} \cup {"lostreply" \notin Faults} : Forget(w, reply)
    /\ account' = account \ {who[w]}

\* The statement failed, or the account is gone.
ForgetRefused(w) ==
    /\ pc[w] \in {"removePhoto", "deleteAccount"}
    /\ who[w] \notin account \/ "io" \in Faults
    /\ Done(w)
    /\ UNCHANGED <<clock, rowVars, diskVars, photoSlot, histVars>>
-------------------------------------------------------------------------------
(* The operator's SQL, time and failures.                                  *)

SetAllowed(u) ==
    /\ allowed' = IF u \in allowed THEN allowed \ {u} ELSE allowed \cup {u}
    /\ UNCHANGED <<clock, account, photoKey, uploadedAt, diskVars, photoSlot, pc,
                   jobVars, histVars>>

Tick ==
    /\ clock < MaxClock
    /\ clock' = clock + 1
    /\ UNCHANGED <<rowVars, diskVars, photoSlot, pc, jobVars, histVars>>

\* Every request under way stops where it is; what it was going to remove stays.
Stop ==
    /\ pc' = [w \in Worker |-> "idle"]
    /\ who' = [w \in Worker |-> None]
    /\ now' = [w \in Worker |-> 0]
    /\ key' = [w \in Worker |-> None]
    /\ old' = [w \in Worker |-> None]
    /\ photoSlot' = 0
    /\ UNCHANGED <<clock, rowVars, durable, uploadsOn>>

Crash ==
    /\ "crash" \in Faults
    /\ \E w \in Worker : pc[w] # "idle"
    /\ Stop
    /\ lost' = lost \cup (files \ Named)
    /\ UNCHANGED files

\* What was not synced may be undone: a new entry, or a removal.
PowerCut ==
    /\ "powercut" \in Faults
    /\ \E lose \in SUBSET (files \ durable), back \in SUBSET (durable \ files) :
          /\ files' = (files \ lose) \cup back
          /\ lost' = lost \cup (files' \ Named)
    /\ Stop
-------------------------------------------------------------------------------
Step(w) ==
    \/ TakeSlot(w) \/ SlotTimeout(w) \/ ProcessDone(w) \/ ProcessFailed(w)
    \/ \E k \in Key : SaveRename(w, k)
    \/ SaveFailed(w) \/ SaveSync(w) \/ SyncFailed(w)
    \/ SetPhoto(w) \/ SetPhotoLostReply(w) \/ SetPhotoRefused(w)
    \/ Undo(w) \/ Cleanup(w)
    \/ RemovePhoto(w) \/ DeleteAccount(w) \/ ForgetRefused(w)

Next ==
    \/ \E w \in Worker, u \in User :
          BeginUpload(w, u) \/ BeginRemove(w, u) \/ BeginDelete(w, u)
    \/ \E w \in Worker : Step(w)
    \/ \E u \in User : SetAllowed(u)
    \/ Tick \/ Crash \/ PowerCut

Spec == Init /\ [][Next]_vars
-------------------------------------------------------------------------------
(* Properties.                                                             *)

\* Save and the order of handlePhotoUpload: a row never names a missing file,
\* whatever uploads, removals, deletions and power cuts overlap, as long as the
\* server hears of the commit.
RowNamesFile == Named \ lost \subseteq files

\* No file is left behind unless something failed: it is named by a row, or a
\* request under way is about to name or remove it.
NoFileLeaked ==
    files \subseteq Named \cup lost \cup {key[w] : w \in Worker} \cup {old[w] : w \in Worker}

\* SetPhoto: one upload per account and calendar day, however long requests
\* take, across midnight, and after a removal.
OneUploadPerDay ==
    \A u \in User, d \in 0..Day(MaxClock) : uploadsOn[u][d] <= 1

\* processLocked: the slot is taken exactly while a photo is being processed,
\* and only one is.
SlotHeldWhileProcessing == photoSlot = Cardinality({w \in Worker : pc[w] = "process"})

\* handlePhotoUpload, Save and SetPhoto keep two stores in step that share no
\* transaction: every row finds its file and every file has a use.
RowsAndFiles == TypeOK /\ RowNamesFile /\ NoFileLeaked
===============================================================================
