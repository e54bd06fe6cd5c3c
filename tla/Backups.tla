------------------------------- MODULE Backups -------------------------------
(***************************************************************************)
(* Backups, restore drills and remote copies (internal/backupjob): one       *)
(* runner, which holds an advisory lock, works through the jobs that it and  *)
(* the operators queue, and may die at any step.  Time is counted in days.   *)
(***************************************************************************)
EXTENDS Naturals, FiniteSets

CONSTANTS
  BackupIds,        \* backup_job rows of kind "backup"
  Retention,        \* days that a directory is kept
  RemoteRetention,  \* days that a remote copy is kept
  MaxAttempts,      \* attempts that may fail: three in the code
  MaxCrashes,       \* bound on crashes of the runner
  MaxDays

ASSUME BackupsAssumption ==
  /\ BackupIds \subseteq Nat \ {0} /\ MaxDays \in Nat \ {0}
  /\ Retention \in Nat /\ RemoteRetention \in Nat /\ MaxAttempts \in Nat /\ MaxCrashes \in Nat

VARIABLES
  backup,           \* backup_job of kind "backup": status, scheduledDate (0: manual), finished_at
  dir,              \* its directory, and the day of the directory's last change
  push,             \* its remote_push jobs
  copy,             \* its remote copy, and the day of the archive
  drill,            \* the restore_drill job that waits or runs: one at a time here
  runner,
  today,
  crashes

backupVars == <<backup, dir, push, copy, drill, runner, today, crashes>>

Waiting == {"queued", "running"}
NoDirectory == [is |-> "none", day |-> 0]
NoStep == [at |-> "down", kind |-> "none", id |-> 0, victim |-> 0]

BackupTypeOK ==
  /\ backup \in [BackupIds -> [st : {"none", "complete", "failed", "expired"} \cup Waiting,
                               date : 0 .. MaxDays, done : 0 .. MaxDays]]
  /\ dir \in [BackupIds -> [is : {"none", "whole", "ruined"}, day : 0 .. MaxDays]]
  /\ push \in [BackupIds -> [st : {"none", "complete", "failed"} \cup Waiting, fails : 0 .. MaxAttempts]]
  /\ copy \in [BackupIds -> [is : {"none", "archive", "whole"}, day : 0 .. MaxDays]]
  /\ drill \in [st : {"none"} \cup Waiting, of : BackupIds \cup {0}]
  /\ runner \in [at : {"down", "starting", "cleaning", "cleaned", "enqueue", "push", "claim",
                       "run", "writing", "copied", "finish"},
                 kind : {"none", "backup", "push", "drill"}, id : BackupIds \cup {0},
                 victim : BackupIds \cup {0}]
  /\ today \in 1 .. MaxDays
  /\ crashes \in 0 .. MaxCrashes

BackupInit ==
  /\ backup = [b \in BackupIds |-> [st |-> "none", date |-> 0, done |-> 0]]
  /\ dir = [b \in BackupIds |-> NoDirectory]
  /\ push = [b \in BackupIds |-> [st |-> "none", fails |-> 0]]
  /\ copy = [b \in BackupIds |-> [is |-> "none", day |-> 0]]
  /\ drill = [st |-> "none", of |-> 0]
  /\ runner = NoStep /\ today = 1 /\ crashes = 0

-----------------------------------------------------------------------------
(* Operators and time *)

\* createBackup (ops): at most three backups wait.
RequestBackup(b) ==
  /\ backup[b].st = "none" /\ (\A a \in BackupIds : a < b => backup[a].st # "none")
  /\ Cardinality({a \in BackupIds : backup[a].st \in Waiting}) < 3
  /\ backup' = [backup EXCEPT ![b] = [st |-> "queued", date |-> 0, done |-> 0]]
  /\ UNCHANGED <<dir, push, copy, drill, runner, today, crashes>>

\* createRestoreDrill (ops)
RequestDrill(b) ==
  /\ backup[b].st = "complete" /\ drill.st = "none"
  /\ drill' = [st |-> "queued", of |-> b]
  /\ UNCHANGED <<backup, dir, push, copy, runner, today, crashes>>

\* An operator moves or removes a directory.
LoseDirectory(b) ==
  /\ dir[b].is # "none"
  /\ dir' = [dir EXCEPT ![b] = NoDirectory]
  /\ UNCHANGED <<backup, push, copy, drill, runner, today, crashes>>

TimePasses ==
  /\ today < MaxDays /\ runner.at # "finish"    \* a backup in place is soon recorded
  /\ today' = today + 1
  /\ UNCHANGED <<backup, dir, push, copy, drill, runner, crashes>>

-----------------------------------------------------------------------------
(* The runner *)

RunnerAt(at) == runner' = [runner EXCEPT !.at = at]

\* Run: jobs of a runner that died are queued again.
StartRunner ==
  /\ runner.at = "down"
  /\ backup' = [b \in BackupIds |-> [backup[b] EXCEPT !.st = IF @ = "running" THEN "queued" ELSE @]]
  /\ push' = [b \in BackupIds |-> [push[b] EXCEPT !.st = IF @ = "running" THEN "queued" ELSE @]]
  /\ drill' = [drill EXCEPT !.st = IF @ = "running" THEN "queued" ELSE @]
  /\ RunnerAt("starting")
  /\ UNCHANGED <<dir, copy, today, crashes>>

\* A slip: a day early.
AgedEarly(b) == dir[b].is # "none" /\ dir[b].day + Retention <= today + 1

Aged(b) == dir[b].is # "none" /\ dir[b].day + Retention <= today

\* cleanupExpired, in every tick and after every backup.  os.RemoveAll takes the entries of
\* the directory one after another, which may set its date ...
RemoveBegin(b) ==
  /\ runner.at \in {"cleaning", "finish"} /\ (runner.at = "finish" => runner.kind = "backup")
  /\ runner.victim = 0 /\ Aged(b)
  /\ \E day \in {dir[b].day, today} : dir' = [dir EXCEPT ![b] = [is |-> "ruined", day |-> day]]
  /\ runner' = [runner EXCEPT !.victim = b]
  /\ UNCHANGED <<backup, push, copy, drill, today, crashes>>

\* ... then the directory itself ...
RemoveEnd ==
  /\ runner.victim # 0 /\ dir[runner.victim].is = "ruined"
  /\ dir' = [dir EXCEPT ![runner.victim] = NoDirectory]
  /\ UNCHANGED <<backup, push, copy, drill, runner, today, crashes>>

\* ... then the row is marked.
MarkExpired ==
  /\ runner.victim # 0 /\ dir[runner.victim].is = "none"
  /\ backup' = [backup EXCEPT ![runner.victim].st = IF @ = "complete" THEN "expired" ELSE @]
  /\ runner' = [runner EXCEPT !.victim = 0]
  /\ UNCHANGED <<dir, push, copy, drill, today, crashes>>

\* createBackup ignores that cleaning up fails; a tick ends with it (RunnerCrash).
CleanupFails ==
  /\ runner.at = "finish" /\ runner.victim # 0
  /\ runner' = [runner EXCEPT !.victim = 0]
  /\ UNCHANGED <<backup, dir, push, copy, drill, today, crashes>>

CleanupDone ==
  /\ runner.at = "cleaning" /\ runner.victim = 0 /\ \A b \in BackupIds : ~Aged(b)
  /\ RunnerAt("cleaned")
  /\ UNCHANGED <<backup, dir, push, copy, drill, today, crashes>>

\* reconcileCatalog.  A complete backup without a directory is to be marked as failed, but
\* allowedBackupPath resolves the path first, which fails where there is none, and the row is
\* passed over (runner.go:597, 679): no row changes.  (A directory without a row would be
\* registered; here every directory has its row.)
Reconcile ==
  /\ runner.at \in {"starting", "cleaned"}
  /\ RunnerAt(IF runner.at = "starting" THEN "cleaning" ELSE "enqueue")
  /\ UNCHANGED <<backup, dir, push, copy, drill, today, crashes>>

OfToday(b, sts) == backup[b].date = today /\ backup[b].st \in sts

\* A slip: a job that still waits is not counted.
DueUnlessDone ==
  /\ \A b \in BackupIds : ~OfToday(b, {"running", "complete"})
  /\ Cardinality({b \in BackupIds : OfToday(b, {"failed"})}) < MaxAttempts

\* The day has no backup yet, fewer than MaxAttempts have failed.  (The half
\* hour between two attempts is left out: an attempt may always come later.)
DailyDue ==
  /\ \A b \in BackupIds : ~OfToday(b, Waiting \cup {"complete"})
  /\ Cardinality({b \in BackupIds : OfToday(b, {"failed"})}) < MaxAttempts

\* enqueueDaily, if automatic backups are on and the hour has come.
EnqueueDaily(on) ==
  /\ runner.at = "enqueue"
  /\ \/ /\ on /\ DailyDue
        /\ \E b \in BackupIds :
             /\ backup[b].st = "none" /\ (\A a \in BackupIds : a < b => backup[a].st # "none")
             /\ backup' = [backup EXCEPT ![b] = [st |-> "queued", date |-> today, done |-> 0]]
     \/ ~on /\ UNCHANGED backup
  /\ RunnerAt("push")
  /\ UNCHANGED <<dir, push, copy, drill, today, crashes>>

\* Fewer than MaxAttempts have failed, and none waits, runs or is complete.
MayPush(b) == push[b].st \in {"none", "failed"} /\ push[b].fails < MaxAttempts

\* enqueueRemotePush, for the complete backups of the last day.
EnqueuePush(on) ==
  /\ runner.at = "push"
  /\ push' = [b \in BackupIds |->
       IF on /\ backup[b].st = "complete" /\ backup[b].done = today
             /\ MayPush(b)
         THEN [push[b] EXCEPT !.st = "queued"] ELSE push[b]]
  /\ RunnerAt("claim")
  /\ UNCHANGED <<backup, dir, copy, drill, today, crashes>>

Backlog(kind) ==
  {b \in BackupIds : CASE kind = "backup" -> backup[b].st = "queued"
                       [] kind = "push"   -> push[b].st = "queued"
                       [] kind = "drill"  -> drill.st = "queued" /\ drill.of = b}

\* claim: drills first, then backups, then copies, the oldest of each.
ClaimBackup(kind, b) ==
  /\ runner.at = "claim" /\ b \in Backlog(kind) /\ (\A a \in Backlog(kind) : b <= a)
  /\ kind = "backup" => Backlog("drill") = {}
  /\ kind = "push" => Backlog("drill") \cup Backlog("backup") = {}
  /\ backup' = IF kind = "backup" THEN [backup EXCEPT ![b].st = "running"] ELSE backup
  /\ push' = IF kind = "push" THEN [push EXCEPT ![b].st = "running"] ELSE push
  /\ drill' = IF kind = "drill" THEN [drill EXCEPT !.st = "running"] ELSE drill
  /\ runner' = [runner EXCEPT !.at = "run", !.kind = kind, !.id = b]
  /\ UNCHANGED <<dir, copy, today, crashes>>

NextTick ==
  /\ runner.at = "claim" /\ \A k \in {"backup", "push", "drill"} : Backlog(k) = {}
  /\ runner' = [NoStep EXCEPT !.at = "cleaning"]
  /\ UNCHANGED <<backup, dir, push, copy, drill, today, crashes>>

\* createBackup removes what an earlier attempt has left and writes a directory of another
\* name (".partial", not modelled further).
WriteBackup ==
  /\ runner.at = "run" /\ runner.kind = "backup"
  /\ dir' = [dir EXCEPT ![runner.id] = NoDirectory]
  /\ RunnerAt("writing")
  /\ UNCHANGED <<backup, push, copy, drill, today, crashes>>

\* os.Rename, after the dump and the copies of all objects
RenameBackup ==
  /\ runner.at = "writing"
  /\ dir' = [dir EXCEPT ![runner.id] = [is |-> "whole", day |-> today]]
  /\ RunnerAt("finish")
  /\ UNCHANGED <<backup, push, copy, drill, today, crashes>>

\* pushRemote: the archive is uploaded and read back ...
CopyArchive ==
  /\ runner.at = "run" /\ runner.kind = "push"
  /\ backup[runner.id].st = "complete" /\ dir[runner.id].is # "none"
  /\ copy' = [copy EXCEPT ![runner.id] = [is |-> IF @.is = "whole" THEN "whole" ELSE "archive",
                                          day |-> today]]
  /\ RunnerAt("copied")
  /\ UNCHANGED <<backup, dir, push, drill, today, crashes>>

\* A slip: also the copies that are to be kept for one more day.
PruneOneMore(b) == copy[b].day + RemoteRetention <= today + 1

\* pruneRemote goes by the day of the archive.
Prunable(b) == copy[b].day + RemoteRetention <= today

\* ... the manifest follows, and copies that are too old are removed, which may fail
\* half-way.
CopyManifest(gone) ==
  /\ runner.at = "copied"
  /\ \A b \in gone : b # runner.id /\ copy[b].is # "none" /\ Prunable(b)
  /\ copy' = [b \in BackupIds |-> IF b = runner.id THEN [copy[b] EXCEPT !.is = "whole"]
                                  ELSE IF b \in gone THEN [copy[b] EXCEPT !.is = "none"]
                                  ELSE copy[b]]
  /\ RunnerAt("finish")
  /\ UNCHANGED <<backup, dir, push, drill, today, crashes>>

\* restoreDrill: manifest, dump and every object are verified, the dump is restored.
RestoreDrill ==
  /\ runner.at = "run" /\ runner.kind = "drill"
  /\ backup[runner.id].st = "complete" /\ dir[runner.id].is = "whole"
  /\ RunnerAt("finish")
  /\ UNCHANGED <<backup, dir, push, copy, drill, today, crashes>>

\* finish
FinishBackup(st) ==
  LET b == runner.id IN
  /\ \/ runner.at = "finish" /\ runner.victim = 0 /\ st = "complete"
     \/ runner.at \in {"run", "writing", "copied"} /\ st = "failed"
  /\ backup' = IF runner.kind = "backup" THEN [backup EXCEPT ![b].st = st, ![b].done = today]
                                         ELSE backup
  /\ push' = IF runner.kind = "push"
               THEN [push EXCEPT ![b].st = st, ![b].fails = IF st = "failed" THEN @ + 1 ELSE @]
               ELSE push
  /\ drill' = IF runner.kind = "drill" THEN [st |-> "none", of |-> 0] ELSE drill
  /\ runner' = [NoStep EXCEPT !.at = "claim"]
  /\ UNCHANGED <<dir, copy, today, crashes>>

\* The process dies, or a statement fails and Run returns.
RunnerCrash ==
  /\ runner.at # "down" /\ crashes < MaxCrashes /\ crashes' = crashes + 1
  /\ runner' = NoStep
  /\ UNCHANGED <<backup, dir, push, copy, drill, today>>

BackupNext ==
  \/ \E b \in BackupIds :
       \/ RequestBackup(b) \/ RequestDrill(b) \/ LoseDirectory(b)
       \/ RemoveBegin(b)
       \/ \E k \in {"backup", "push", "drill"} : ClaimBackup(k, b)
  \/ TimePasses \/ StartRunner \/ RemoveEnd \/ MarkExpired \/ CleanupFails
  \/ CleanupDone \/ Reconcile
  \/ \E on \in BOOLEAN : EnqueueDaily(on) \/ EnqueuePush(on)
  \/ \E gone \in SUBSET BackupIds : CopyManifest(gone)
  \/ NextTick \/ WriteBackup \/ RenameBackup \/ CopyArchive \/ RestoreDrill
  \/ FinishBackup("complete") \/ FinishBackup("failed") \/ RunnerCrash

BackupSpec == BackupInit /\ [][BackupNext]_backupVars

-----------------------------------------------------------------------------
(* Properties *)

\* Whatever fails, crashes or is retried, a day has at most one automatic backup that waits,
\* runs or is complete, and at most MaxAttempts that count (enqueueDaily).
DailyBudget ==
  \A d \in 1 .. MaxDays :
    LET of(sts) == {b \in BackupIds : backup[b].date = d /\ backup[b].st \in sts} IN
    /\ Cardinality(of(Waiting \cup {"complete"})) <= 1
    /\ Cardinality(of(Waiting \cup {"complete", "failed"})) <= MaxAttempts

\* Through its retention the directory of a backup that is listed as complete is whole, or an
\* operator has removed it as a whole: no retry, crash or clean-up leaves a part of it.
CompleteIsWhole ==
  \A b \in BackupIds :
    backup[b].st = "complete" /\ backup[b].done + Retention > today
      => dir[b].is # "ruined"

\* A remote copy that was reported complete is whole for as long as remote copies are kept,
\* however often the copying was retried and whatever later copies prune.
RemoteComplete ==
  \A b \in BackupIds :
    push[b].st = "complete" /\ copy[b].day + RemoteRetention > today => copy[b].is = "whole"

\* The runner and its crashes (backupjob/runner.go, runner_remote.go): a day is backed up once and
\* tried so many times, and what is reported complete is whole, here and at the remote store.
BackupInv == BackupTypeOK /\ DailyBudget /\ CompleteIsWhole /\ RemoteComplete
=============================================================================
