------------------------------- MODULE Backup -------------------------------
(***************************************************************************)
(* The snapshots of the SQLite store (src/src/secfin/storage/backup.py),   *)
(* taken every day by src/deploy/scripts/run-backup.sh, and the restore    *)
(* from them (src/src/secfin/storage/restore.py).                          *)
(*                                                                         *)
(* A backup run writes a dated snapshot, copies it over secfin-latest.db   *)
(* and prunes the oldest.  None of this is atomic: the disk may fill up    *)
(* and the run be killed (TimeoutStartSec=900) at any step.  The database  *)
(* is the number of its commits; a file that holds a copy is whole when it *)
(* has its Size units.  An empty file is, for SQLite, a database too: one  *)
(* without commits.  A restore never overlaps a backup run: "restoring     *)
(* into a file another process already has open is not supported".         *)
(***************************************************************************)
EXTENDS Integers, Sequences, SequencesExt

CONSTANTS Keep,        \* --keep; 0 prunes nothing
          Size,        \* disk units of a whole copy
          Room,        \* disk units of the backup directory
          MaxCommits,  \* bound: commits per behaviour
          MaxFiles,    \* bound: no run starts on so many dated snapshots
          MaxMishaps   \* bound: kills, lost volumes and restores per behaviour

ASSUME BackupAssumption ==
  /\ Keep \in Nat /\ Size \in Nat \ {0} /\ Room \in Nat
  /\ MaxCommits \in Nat /\ MaxFiles \in Nat /\ MaxMishaps \in Nat

VARIABLES
  dated,     \* the files secfin-YYYYmmddTHHMMSSZ.db, by their names
  latest,    \* secfin-latest.db
  phase,     \* how far the backup run is
  live,      \* secfin.db
  wal,       \* its -wal: none, its own, or of a database it has replaced
  up,        \* whether the API is up
  restore,   \* how far the restore is
  source,    \* the file it copies
  saved,     \* history: the snapshot the last completed run took
  commits, mishaps

backup == <<dated, latest, saved>>
volume == <<live, wal, up, restore, source>>
backupVars == <<backup, volume, phase, commits, mishaps>>

File(ver, size) == [ver |-> ver, size |-> size]
Absent == File(-1, 0)
Blank == File(0, 0)
Whole(f) == f.size = Size

Newest == dated[Len(dated)]
Grown(f) == [f EXCEPT !.size = @ + 1]

Used == FoldLeft(LAMBDA n, f : n + f.size, latest.size, dated)
Full == Used >= Room

\* What a copy can be taken of: anything else is malformed, and raises.
Readable(f) == Whole(f) \/ f = Blank

\* snapshots[keep:] of the newest-first list: the first to go is at this place
FirstStaleOldestKept == Keep + 1
FirstStale == Len(dated) - Keep
TooManyNever == FALSE
TooMany == Keep > 0 /\ Len(dated) > Keep

\* restore_db: -wal and -shm are unlinked before the copy
SidecarsLeft(w) == w
Sidecars(w) == "none"

BackupInit ==
  /\ dated = <<>> /\ latest = Absent /\ saved = Absent
  /\ phase = "idle" /\ live = File(0, Size) /\ wal = "none" /\ up = TRUE
  /\ restore = "none" /\ source = Absent /\ commits = 0 /\ mishaps = 0

----------------------------------------------------------------------------
(* The stack and its database.                                             *)

Commit ==
  /\ up /\ commits < MaxCommits /\ commits' = commits + 1
  /\ Whole(live) /\ live' = [live EXCEPT !.ver = @ + 1] /\ wal' = "own"
  /\ UNCHANGED <<backup, up, restore, source, phase, mishaps>>

(* docker compose down; what the -wal held may have been checkpointed. *)
StackDown ==
  /\ up /\ up' = FALSE
  /\ wal' \in {wal, "none"}
  /\ UNCHANGED <<backup, live, restore, source, phase, commits, mishaps>>

(* docker compose up: on an absent or empty file the schema is created. *)
StackUp ==
  /\ ~up /\ restore = "none" /\ up' = TRUE
  /\ live' = IF live \in {Absent, Blank} THEN File(0, Size) ELSE live
  /\ UNCHANGED <<backup, wal, restore, source, phase, commits, mishaps>>

----------------------------------------------------------------------------
(* backup_db and prune_backups.                                            *)

Mishap == mishaps < MaxMishaps /\ mishaps' = mishaps + 1

(* sqlite3.connect(dest) creates the file.  A run that starts on a full    *)
(* disk, or on a database it will not be able to read, counts as a fault.  *)
BackupStart ==
  /\ phase = "idle" /\ live # Absent /\ restore = "none" /\ Len(dated) < MaxFiles
  /\ dated' = Append(dated, Blank)
  /\ phase' = "copying"
  /\ IF Readable(live) /\ ~Full THEN UNCHANGED mishaps ELSE Mishap
  /\ UNCHANGED <<latest, saved, volume, commits>>

(* Connection.backup copies all pages in one read transaction, so it is    *)
(* of the database as it was at the first.                                 *)
CopyPages ==
  /\ phase = "copying" /\ ~Full /\ Whole(live) /\ ~Whole(Newest)
  /\ dated' = [dated EXCEPT ![Len(dated)] =
                 Grown(IF Newest = Blank THEN File(live.ver, 0) ELSE Newest)]
  /\ UNCHANGED <<latest, saved, phase, volume, commits, mishaps>>

CopyEnd ==
  /\ phase = "copying" /\ Readable(live) /\ Newest.size = live.size
  /\ phase' = "copied"
  /\ UNCHANGED <<backup, volume, commits, mishaps>>

(* shutil.copyfile first truncates secfin-latest.db, then fills it. *)
TruncateLatest ==
  /\ phase = "copied"
  /\ latest' = [Newest EXCEPT !.size = 0] /\ phase' = "pointing"
  /\ UNCHANGED <<dated, saved, volume, commits, mishaps>>

FillLatest ==
  /\ phase = "pointing" /\ latest # Newest /\ ~Full
  /\ latest' = Grown(latest)
  /\ UNCHANGED <<dated, saved, phase, volume, commits, mishaps>>

FillEnd ==
  /\ phase = "pointing" /\ latest = Newest
  /\ saved' = Newest /\ phase' = "pruning"
  /\ UNCHANGED <<dated, latest, volume, commits, mishaps>>

(* No room, or a source that is not a database: an exception, a partial    *)
(* file left where it is, and nothing pruned.                              *)
BackupFails ==
  /\ \/ phase = "copying" /\ Full /\ Newest.size # live.size
     \/ phase = "copying" /\ ~Readable(live)
     \/ phase = "pointing" /\ Full /\ latest # Newest
  /\ phase' = "idle"
  /\ UNCHANGED <<backup, volume, commits, mishaps>>

PruneOne ==
  /\ phase = "pruning" /\ TooMany
  /\ dated' = RemoveAt(dated, FirstStale)
  /\ UNCHANGED <<latest, saved, volume, phase, commits, mishaps>>

PruneEnd ==
  /\ phase = "pruning" /\ ~TooMany
  /\ phase' = "idle"
  /\ UNCHANGED <<backup, volume, commits, mishaps>>

BackupStep ==
  \/ CopyPages \/ CopyEnd \/ TruncateLatest \/ FillLatest \/ FillEnd
  \/ BackupFails \/ PruneOne \/ PruneEnd

----------------------------------------------------------------------------
(* restore_db, of secfin-latest.db or of a dated snapshot, before the API  *)
(* is started.                                                             *)

(* What only the -wal held of the database to be replaced goes with it.    *)
RestoreStart ==
  /\ restore = "none" /\ ~up /\ phase = "idle" /\ Mishap
  /\ source' \in {latest} \cup Range(dated) /\ source' # Absent
  /\ wal' = Sidecars(wal)
  /\ live' \in {live} \cup
       {[live EXCEPT !.ver = v] : v \in IF wal = "own" THEN 0..live.ver ELSE {}}
  /\ restore' = "ready"
  /\ UNCHANGED <<backup, up, phase, commits>>

\* shutil.copyfile truncates secfin.db ...
RestoreTruncate ==
  /\ restore = "ready"
  /\ live' = Blank
  /\ wal' = IF wal = "own" THEN "foreign" ELSE wal
  /\ restore' = "filling"
  /\ UNCHANGED <<backup, up, source, phase, commits, mishaps>>

\* ... then fills it with what its source has, be it whole or not.
RestoreFill ==
  /\ restore = "filling" /\ live.size < source.size
  /\ live' = [source EXCEPT !.size = live.size + 1]
  /\ UNCHANGED <<backup, wal, up, restore, source, phase, commits, mishaps>>

RestoreEnd ==
  /\ restore = "filling" /\ live.size = source.size
  /\ restore' = "none" /\ source' = Absent
  /\ UNCHANGED <<backup, live, wal, up, phase, commits, mishaps>>

----------------------------------------------------------------------------
RestoreStep == RestoreTruncate \/ RestoreFill \/ RestoreEnd

(* A backup run or a restore is killed where it stands. *)
BackupKilled ==
  /\ phase # "idle" /\ Mishap
  /\ phase' = "idle"
  /\ UNCHANGED <<backup, volume, commits>>

RestoreKilled ==
  /\ restore # "none" /\ Mishap
  /\ restore' = "none" /\ source' = Absent
  /\ UNCHANGED <<backup, live, wal, up, phase, commits>>

(* docker compose down -v: the volume is gone, the backups are not. *)
VolumeLost ==
  /\ restore = "none" /\ phase = "idle" /\ Mishap
  /\ live' = Absent /\ wal' = "none" /\ up' = FALSE
  /\ UNCHANGED <<backup, restore, source, phase, commits>>

BackupNext ==
  \/ Commit \/ StackDown \/ StackUp
  \/ BackupStart \/ BackupStep
  \/ RestoreStart \/ RestoreStep
  \/ BackupKilled \/ RestoreKilled \/ VolumeLost

(* The timer starts a run every day; a run, and a restore once begun, goes *)
(* on to its end.                                                          *)
BackupFairness == WF_backupVars(BackupStart) /\ WF_backupVars(BackupStep) /\ WF_backupVars(RestoreStep)

BackupSpec == BackupInit /\ [][BackupNext]_backupVars /\ BackupFairness

----------------------------------------------------------------------------
(* Once a run has completed, the snapshot it took, a whole copy (or that   *)
(* of an empty file), is there until a later run has completed: no failed  *)
(* run, kill or pruning takes the last restore point away.                 *)
RestorePoint ==
  saved # Absent => Readable(saved) /\ \E i \in 1..Len(dated) : dated[i] = saved

(* No restored database ever meets the -wal of the one it replaces, which  *)
(* "SQLite would replay against the restored file's (unrelated) page       *)
(* contents" (restore.py:33-34), wherever the restore is killed.           *)
NoForeignWal == wal # "foreign"

(* With room for one copy more than --keep and the latest, the backups go  *)
(* on and the latest comes to hold every commit, unless the database is    *)
(* never whole again or a fault's leftovers have filled the disk for good. *)
BackupsKeepUp ==
  \/ []<>(latest = File(live.ver, Size))
  \/ <>[](Full /\ mishaps > 0)
  \/ <>[]~Whole(live)
=============================================================================
