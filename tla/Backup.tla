-------------------------------- MODULE Backup --------------------------------
(***************************************************************************)
(* deploy/backup.sh: two encrypted files a night, published by rename,     *)
(* copied to the remote without overwriting, and pruned by age in both     *)
(* places.  Runs may overlap; every step may fail, and the process may be  *)
(* killed.  DayLength ticks of the clock make a day, and Slack ticks the   *)
(* hour by which files are pruned early.                                   *)
(***************************************************************************)
EXTENDS Naturals

CONSTANTS
    Proc,        \* processes that may run the script
    DayLength,   \* ticks in a day
    KeepDays,    \* BACKUP_KEEP_DAYS
    Slack,       \* ticks in the hour of the prune limits
    RunTicks,    \* bound: ticks a run takes, less than Slack
    MaxClock,    \* bound: the clock
    MaxRuns,     \* bound: runs that get as far as a dump
    Nil          \* no value

ASSUME DurationAssumption ==
    /\ {DayLength, KeepDays, Slack, RunTicks, MaxClock, MaxRuns} \subseteq Nat
    /\ KeepDays > 0 /\ RunTicks < Slack /\ Slack < DayLength
\* The default is 7 days; with one, a run may prune the upload its day's rerun kept.
ASSUME KeepAssumption == DayLength + 2 * RunTicks < KeepDays * DayLength - Slack
ASSUME NilAssumption == Nil \notin Nat /\ Nil \notin Proc

VARIABLES
    clock,       \* the clock
    lock,        \* who holds flock on BACKUP_DIR/.lock
    proc,        \* each process: the step, the run, its start, its files, its day
    runs,        \* runs so far
    local,       \* BACKUP_DIR: the published file of each kind and day
    stray,       \* temporary files nobody will remove
    remote,      \* BACKUP_REMOTE
    lastOK       \* start of the last run that succeeded

\* History: whether every run so far began at the hour of the nightly one.
VARIABLE nightly

backupVars == <<clock, lock, proc, runs, local, stray, remote, lastOK, nightly>>
places == <<local, stray, remote, lastOK>>
started == <<runs, nightly>>

Kinds == {"db", "photos"}
Day(t) == t \div DayLength
Name == Kinds \X (0..Day(MaxClock))
File == [made : 0..MaxClock, run : 1..MaxRuns]
Idle == [at |-> "idle", run |-> Nil, start |-> Nil, tmp |-> [k \in Kinds |-> Nil], day |-> Nil]
RunSteps == {"idle", "dump", "archive", "verify", "publishDb", "publishPhotos", "copy",
          "pruneLocal", "pruneRemote", "ping"}

BackupTypeOK ==
    /\ clock \in 0..MaxClock /\ lock \in Proc \cup {Nil} /\ runs \in 0..MaxRuns
    /\ proc \in [Proc ->
          [at : RunSteps, run : 1..MaxRuns \cup {Nil}, start : 0..MaxClock \cup {Nil},
           tmp : [Kinds -> File \cup {Nil}], day : 0..Day(MaxClock) \cup {Nil}]]
    /\ local \in [Name -> File \cup {Nil}]
    /\ remote \in [Name -> File \cup {Nil}]
    /\ stray \subseteq File
    /\ lastOK \in 0..MaxClock \cup {Nil} /\ nightly \in BOOLEAN

BackupInit ==
    /\ clock = 0 /\ lock = Nil /\ runs = 0
    /\ proc = [p \in Proc |-> Idle]
    /\ local = [n \in Name |-> Nil]
    /\ remote = [n \in Name |-> Nil]
    /\ stray = {} /\ lastOK = Nil /\ nightly = TRUE
-------------------------------------------------------------------------------
(* Prerequisites and the lock.                                             *)

MayStart(p) == proc[p] = Idle /\ runs < MaxRuns

\* Defect: no lock.
LockFreeAlways == TRUE

LockFree == lock = Nil

\* A run that misses a tool, a volume or the lock ends before it did anything.
Start(p) ==
    /\ MayStart(p) /\ LockFree
    /\ lock' = p /\ runs' = runs + 1
    /\ proc' = [proc EXCEPT ![p] = [Idle EXCEPT !.at = "dump", !.run = runs + 1, !.start = clock]]
    /\ nightly' = (nightly /\ clock % DayLength = 0)
    /\ UNCHANGED <<clock, places>>

Proceed(p, step) == proc' = [proc EXCEPT ![p].at = step]

\* Exit, with the trap's cleanup and the lock released.
Exit(p) ==
    /\ proc' = [proc EXCEPT ![p] = Idle]
    /\ lock' = IF lock = p THEN Nil ELSE lock
    /\ UNCHANGED <<clock, started>>

\* die: from the dump on, any step may fail.
Die(p) == proc[p].at # "idle" /\ Exit(p) /\ UNCHANGED places

\* The process is killed or the power fails: the kernel releases the lock, but
\* the trap does not run.
Killed(p) ==
    /\ proc[p].at # "idle" /\ Exit(p)
    /\ stray' = stray \cup ({proc[p].tmp[k] : k \in Kinds} \ {Nil})
    /\ UNCHANGED <<local, remote, lastOK>>
-------------------------------------------------------------------------------
(* Dump, archive, verify, publish.                                         *)

Write(p, kind, at, next) ==
    /\ proc[p].at = at
    /\ proc' = [proc EXCEPT ![p].at = next, ![p].tmp[kind] = [made |-> clock, run |-> proc[p].run]]
    /\ UNCHANGED <<clock, lock, started, places>>

Dump(p) == Write(p, "db", "dump", "archive")

Archive(p) == Write(p, "photos", "archive", "verify")

PublishDay == Day(clock)

Verify(p) ==
    /\ proc[p].at = "verify" /\ \A k \in Kinds : proc[p].tmp[k] # Nil
    /\ proc' = [proc EXCEPT ![p].at = "publishDb", ![p].day = PublishDay]
    /\ UNCHANGED <<clock, lock, started, places>>

Publish(p, kind, at, next) ==
    /\ proc[p].at = at
    /\ local' = [local EXCEPT ![<<kind, proc[p].day>>] = proc[p].tmp[kind]]
    /\ proc' = [proc EXCEPT ![p].at = next, ![p].tmp[kind] = Nil]
    /\ UNCHANGED <<clock, lock, started, stray, remote, lastOK>>

PublishDb(p) == Publish(p, "db", "publishDb", "publishPhotos")

PublishPhotos(p) == Publish(p, "photos", "publishPhotos", "copy")
-------------------------------------------------------------------------------
(* rclone copy --ignore-existing: file by file, with its modification time. *)

Missing == {n \in Name : local[n] # Nil /\ remote[n] = Nil}

CopyFile(p) ==
    /\ proc[p].at = "copy"
    /\ \E n \in Missing : remote' = [remote EXCEPT ![n] = local[n]]
    /\ UNCHANGED <<clock, lock, proc, started, local, stray, lastOK>>

\* Defect: an error of rclone is ignored.
CopyDoneAnyway(p) ==
    /\ proc[p].at = "copy" /\ Proceed(p, "pruneLocal")
    /\ UNCHANGED <<clock, lock, started, places>>

CopyDone(p) ==
    /\ proc[p].at = "copy" /\ Missing = {} /\ Proceed(p, "pruneLocal")
    /\ UNCHANGED <<clock, lock, started, places>>
-------------------------------------------------------------------------------
(* Prune, then ping.                                                       *)

Limit == KeepDays * DayLength - Slack

\* find -mmin +N: older than the limit.
ExpiredLocal(dir) == {n \in Name : dir[n] # Nil /\ clock - dir[n].made > Limit}

\* rclone delete --min-age: at least as old as the limit.
ExpiredRemote(dir) == {n \in Name : dir[n] # Nil /\ clock - dir[n].made >= Limit}

Without(dir, S) == [n \in Name |-> IF n \in S THEN Nil ELSE dir[n]]

PruneLocal(p) ==
    /\ proc[p].at = "pruneLocal" /\ Proceed(p, "pruneRemote")
    /\ local' = Without(local, ExpiredLocal(local))
    /\ UNCHANGED <<clock, lock, started, stray, remote, lastOK>>

PruneRemote(p) ==
    /\ proc[p].at = "pruneRemote" /\ Proceed(p, "ping")
    /\ remote' = Without(remote, ExpiredRemote(remote))
    /\ UNCHANGED <<clock, lock, started, local, stray, lastOK>>

\* A prune that fails has deleted some of the files.
PruneFails(p) ==
    /\ \/ /\ proc[p].at = "pruneLocal"
          /\ \E n \in ExpiredLocal(local) : local' = Without(local, {n})
          /\ UNCHANGED remote
       \/ /\ proc[p].at = "pruneRemote"
          /\ \E n \in ExpiredRemote(remote) : remote' = Without(remote, {n})
          /\ UNCHANGED local
    /\ Exit(p) /\ UNCHANGED <<stray, lastOK>>

Ping(p) ==
    /\ proc[p].at = "ping" /\ lastOK' = proc[p].start
    /\ Exit(p) /\ UNCHANGED <<local, stray, remote>>
-------------------------------------------------------------------------------
ClockTicks ==
    /\ clock < MaxClock
    /\ \A p \in Proc : proc[p].at # "idle" => clock - proc[p].start < RunTicks
    /\ clock' = clock + 1
    /\ UNCHANGED <<lock, proc, started, places>>

Step(p) ==
    \/ Start(p) \/ Dump(p) \/ Archive(p) \/ Verify(p) \/ PublishDb(p) \/ PublishPhotos(p)
    \/ CopyFile(p) \/ CopyDone(p) \/ PruneLocal(p) \/ PruneRemote(p) \/ Ping(p)

BackupNext == ClockTicks \/ \E p \in Proc : Step(p) \/ Die(p) \/ Killed(p) \/ PruneFails(p)

BackupSpec == BackupInit /\ [][BackupNext]_backupVars
-------------------------------------------------------------------------------
Pair(dir, d) == \A k \in Kinds : dir[<<k, d>>] # Nil

\* "Nothing old is deleted ... unless every step before pruning worked": after the
\* first success there is a database and a photo archive of one day to restore
\* from in both places, through failures, kills and prunes that stop half way.
NeverWithoutBackup ==
    lastOK # Nil => \A dir \in {local, remote} : \E d \in 0..Day(MaxClock) : Pair(dir, d)

\* "7 daily copies, none older than 7 days": with the nightly schedule and no run by
\* hand, while the last successful run is at most a day old, no published file is
\* older than BACKUP_KEEP_DAYS, but for the time a run takes.
DailyRetention ==
    nightly /\ lastOK # Nil /\ clock <= lastOK + DayLength + RunTicks =>
        \A dir \in {local, remote}, n \in Name :
            dir[n] # Nil => clock - dir[n].made <= KeepDays * DayLength + RunTicks

\* "Only a full success reaches here": a ping says that the database and the
\* photos of this very run are in BACKUP_DIR under one date, and that the
\* remote has both files of that date too.
PingHonest ==
    [][\A p \in Proc : proc[p].at = "ping" /\ lastOK' = proc[p].start /\ proc'[p] = Idle =>
          /\ \A k \in Kinds : /\ local[<<k, proc[p].day>>] # Nil
                              /\ local[<<k, proc[p].day>>].run = proc[p].run
          /\ Pair(remote, proc[p].day)
      ]_backupVars

\* Through failures, kills and overlapping runs there is a pair to restore from, and
\* files leave when the header says they do.
BackupsKept == BackupTypeOK /\ NeverWithoutBackup /\ DailyRetention
===============================================================================
