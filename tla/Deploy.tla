------------------------------- MODULE Deploy -------------------------------
(***************************************************************************)
(* deploy/yuiolink-update.bash, started by its timer or by hand, with the  *)
(* snapshots of yuiolink-backup.bash.  Between two steps the run may be    *)
(* stopped or the machine restarted; the next run begins from the files.   *)
(* One run at a time, which systemd sees to unless somebody starts the     *)
(* script by hand.                                                         *)
(*                                                                         *)
(* Times matter only through `ls -1t`, so the list of binary backups is    *)
(* kept in its order: newest first, equal times by name, which is the      *)
(* older stamp first.  A backup has the time of the binary it copies.      *)
(***************************************************************************)
EXTENDS Integers, Sequences

CONSTANTS
  LastRelease, \* bound: the releases are 1..LastRelease
  Schema,     \* per release: the last migration it carries
  Broken,     \* the releases that fail their health check
  Keep,       \* KEEP of yuiolink-backup.bash
  KeepBaks,   \* how many backups the prune leaves (3)
  MaxFaults   \* bound: stops, lost answers, withdrawn releases, changes to yuiolink-backup

Releases == 1..LastRelease
None     == 0        \* no file, no release, a service that is down
Torn     == -1       \* a file whose copy was cut off

ASSUME DeployAssumption ==
  /\ LastRelease \in Nat \ {0} /\ Keep \in Nat \ {0} /\ MaxFaults \in Nat
  /\ KeepBaks \in Nat \ {0}
  /\ Schema \in [Releases -> Nat \ {0}]
  /\ \A r, s \in Releases : r <= s => Schema[r] <= Schema[s]
  /\ Broken \subseteq Releases

VARIABLES
  latest,     \* what GitHub calls the latest release
  dest,       \* the binary at DEST
  running,    \* the release that serves
  schema,     \* the migrations the database has had; 0: there is none
  baks,       \* the backups of DEST, in the order of ls -1t
  record,     \* the STATE file
  snaps,      \* the snapshots, by their schema, newest first
  pc,         \* what the run does next
  target,     \* the release it installs
  crowded,    \* whether the script runs where there are other files
  equipped,   \* whether yuiolink-backup is installed
  lost,       \* history: whether it has removed one of those
  was,        \* history: the binary this run found
  since,      \* history: snapshots taken since the last migration, to Keep
  before,     \* history: the schema before that migration
  bare,       \* history: whether a run went on with no snapshot of the schema in
              \* place, and no migration had one since
  faults,     \* how many there were
  stops,      \* how many of them stopped a run
  yanked,     \* history: whether a release was withdrawn
  reworked,   \* history: whether a --force over the same release was stopped
  slipped     \* history: whether the old binary migrated after a run's snapshot

box    == <<dest, running, schema, baks, record, snaps>>
ghosts == <<lost, was, since, before, bare>>
site   == <<crowded, equipped>>
env    == <<faults, stops, yanked, reworked, slipped>>
vars   == <<latest, box, pc, target, site, ghosts, env>>

\* A fresh machine, with whatever the current directory happens to hold;
\* droplet-user-data.bash has installed yuiolink-backup.
Init ==
  /\ latest = None /\ dest = None /\ running = None /\ schema = 0
  /\ baks = <<>> /\ record = None /\ snaps = <<>>
  /\ pc = "idle" /\ target = None /\ crowded \in BOOLEAN /\ equipped = TRUE
  /\ lost = FALSE /\ was = None /\ since = 0 /\ before = 0 /\ bare = FALSE
  /\ faults = 0 /\ stops = 0 /\ yanked = FALSE /\ reworked = FALSE /\ slipped = FALSE

-----------------------------------------------------------------------------
(***************************************************************************)
(* What a step does to the files and to the service.                       *)
(***************************************************************************)
\* Migrations go forward only, and a binary without one that the database
\* has had does not start; one that fails its check may have migrated.
Start(d) ==
  \E up \in {d, None}, s \in {schema} \cup (IF d \in Releases THEN {Schema[d]} ELSE {}) :
    /\ running' = up /\ schema' = s
    /\ d \notin Releases => up = None
    /\ d \in Releases /\ Schema[d] < schema => up = None /\ s = schema
    /\ d \in Releases /\ Schema[d] >= schema /\ d \notin Broken => up = d /\ s = Schema[d]
    /\ d \in Broken => up = None
    /\ IF s = schema THEN UNCHANGED <<since, before, bare>>
                     ELSE since' = 0 /\ before' = schema /\ bare' = (bare /\ since = 0)

Older(list) == [i \in DOMAIN list |-> [list[i] EXCEPT !.age = "older"]]

Install(d) == dest' = d /\ baks' = Older(baks)

\* A copy of DEST goes behind the newer and the equally old, which were stamped before.
BackUp ==
  \E k \in 0..Len(baks) :
    /\ \A i \in 1..Len(baks) : i <= k <=> baks[i].age # "older"
    /\ baks' = SubSeq(baks, 1, k) \o <<[rel |-> dest, age |-> "same", mine |-> TRUE]>>
                                \o SubSeq(baks, k + 1, Len(baks))

TornBak == [rel |-> Torn, age |-> "newer", mine |-> FALSE]

Mine == {i \in DOMAIN baks : baks[i].mine}

\* The run is over: it no longer knows which backup was its own.
End == /\ pc' = "idle"
       /\ was' = None

Disown(list) == [i \in DOMAIN list |-> [list[i] EXCEPT !.mine = FALSE]]

\* What tail -n +4 leaves of a list.
Newest(n, list) == IF Len(list) <= n THEN list ELSE SubSeq(list, 1, n)

\* Mutated: one backup too many goes.
PruneHard(list) == Newest(KeepBaks - 1, list)

Prune(list) == Newest(KeepBaks, list)

Counted == IF since < Keep THEN since + 1 ELSE Keep

\* yuiolink-backup: one snapshot more, and the newest Keep survive.
Snapshot ==
  IF schema = 0
    THEN UNCHANGED <<snaps, since>>
    ELSE /\ snaps' = Newest(Keep, <<schema>> \o snaps)
         /\ since' = Counted

-----------------------------------------------------------------------------
(***************************************************************************)
(* One run of yuiolink-update.                                             *)
(***************************************************************************)
\* Mutated: a release that was tried is not tried again.
BeginOnce(force) ==
  /\ pc = "idle" /\ latest # None
  /\ latest # target \/ force
  /\ target' = latest /\ pc' = "snapshot" /\ was' = dest
  /\ UNCHANGED <<latest, box, site, lost, since, before, bare, env>>

\* The tag is resolved, and the binary downloaded and verified.
Begin(force) ==
  /\ pc = "idle" /\ latest # None
  /\ latest # record \/ force
  /\ target' = latest /\ pc' = "snapshot" /\ was' = dest
  /\ UNCHANGED <<latest, box, site, lost, since, before, bare, env>>

\* Where yuiolink-backup is not installed, the run warns and does without.
Warn ==
  /\ bare' = (bare \/ (schema # 0 /\ since = 0))
  /\ UNCHANGED <<snaps, since>>

\* Mutated: a backup that fails does not keep the run from going on.
TakeOrNot ==
  /\ pc = "snapshot" /\ pc' = "copy"
  /\ IF equipped THEN (Snapshot \/ UNCHANGED <<snaps, since>>) /\ UNCHANGED bare ELSE Warn
  /\ UNCHANGED <<latest, dest, running, schema, baks, record, target, site, lost, was, before, env>>

TakeSnapshot ==
  /\ pc = "snapshot" /\ pc' = "copy"
  /\ IF equipped THEN Snapshot /\ UNCHANGED bare ELSE Warn
  /\ UNCHANGED <<latest, dest, running, schema, baks, record, target, site, lost, was, before, env>>

CopyDest ==
  /\ pc = "copy" /\ pc' = "prune"
  /\ IF dest = None THEN UNCHANGED baks ELSE BackUp
  /\ UNCHANGED <<latest, dest, running, schema, record, snaps, target, site, ghosts, env>>

\* With nullglob and no backup at all, ls lists the current directory; rm
\* refuses a directory, which ends the run.
PruneBackups ==
  /\ pc = "prune"
  /\ \/ /\ baks # <<>> \/ ~ crowded
        /\ pc' = "install" /\ baks' = Prune(baks)
        /\ UNCHANGED <<lost, was>>
     \/ /\ baks = <<>> /\ crowded
        /\ lost' = TRUE
        /\ \/ pc' = "install" /\ UNCHANGED was
           \/ End
        /\ UNCHANGED baks
  /\ UNCHANGED <<latest, dest, running, schema, record, snaps, target, site, since, before, bare, env>>

\* Mutated: the release is recorded as soon as it is in place.
InstallRecorded ==
  /\ pc = "install" /\ pc' = "restart"
  /\ Install(target) /\ record' = target
  /\ UNCHANGED <<latest, running, schema, snaps, target, site, ghosts, env>>

InstallTarget ==
  /\ pc = "install" /\ pc' = "restart"
  /\ Install(target)
  /\ UNCHANGED <<latest, running, schema, record, snaps, target, site, ghosts, env>>

RestartService ==
  /\ pc = "restart" /\ pc' = "check"
  /\ Start(dest)
  /\ UNCHANGED <<latest, dest, baks, record, snaps, target, site, lost, was, env>>

\* /healthz is asked five times; a slow machine may leave all five unanswered.
HealthCheck ==
  /\ pc = "check"
  /\ \/ running = target /\ pc' = "record" /\ UNCHANGED faults
     \/ running # target /\ pc' = "rollback" /\ UNCHANGED faults
     \/ running = target /\ pc' = "rollback" /\ faults < MaxFaults /\ faults' = faults + 1
  /\ UNCHANGED <<latest, box, target, site, ghosts, stops, yanked, reworked, slipped>>

Record ==
  /\ pc = "record" /\ End
  /\ record' = target /\ baks' = Disown(baks)
  /\ UNCHANGED <<latest, dest, running, schema, snaps, target, site, lost, since, before, bare, env>>

\* Mutated: the service is left as it is.
RollBackOnly ==
  /\ pc = "rollback" /\ Mine # {} /\ End
  /\ \E i \in Mine : dest' = baks[i].rel
  /\ baks' = Disown(Older(baks))
  /\ UNCHANGED <<latest, running, schema, record, snaps, target, site, lost, since, before, bare, env>>

RollBack ==
  /\ pc = "rollback" /\ Mine # {} /\ pc' = "revert"
  /\ \E i \in Mine : Install(baks[i].rel)
  /\ UNCHANGED <<latest, running, schema, record, snaps, target, site, ghosts, env>>

\* There was no binary before, or its backup is gone.
CannotRollBack ==
  /\ pc = "rollback" /\ Mine = {} /\ End
  /\ UNCHANGED <<latest, box, target, site, lost, since, before, bare, env>>

Revert ==
  /\ pc = "revert" /\ End
  /\ Start(dest) /\ baks' = Disown(baks)
  /\ UNCHANGED <<latest, dest, record, snaps, target, site, lost, env>>

-----------------------------------------------------------------------------
(***************************************************************************)
(* What goes on around it.                                                 *)
(***************************************************************************)
Publish ==
  /\ latest < LastRelease /\ latest' = latest + 1
  /\ UNCHANGED <<box, pc, target, site, ghosts, env>>

Withdraw ==
  /\ latest # None /\ faults < MaxFaults
  /\ latest' = latest - 1 /\ faults' = faults + 1 /\ yanked' = TRUE
  /\ UNCHANGED <<box, pc, target, site, ghosts, stops, reworked, slipped>>

\* yuiolink-backup is taken away, or put in place again.
Refit ==
  /\ faults < MaxFaults /\ faults' = faults + 1
  /\ equipped' = ~ equipped
  /\ UNCHANGED <<latest, box, pc, target, crowded, ghosts, stops, yanked, reworked, slipped>>

\* The nightly timer of yuiolink-backup.
Nightly ==
  /\ equipped /\ schema # 0 /\ Snapshot
  /\ UNCHANGED <<latest, dest, running, schema, baks, record, pc, target, site, lost, was, before, bare, env>>

\* A service that is down is tried again (Restart=on-failure).
Respawn ==
  /\ running = None /\ dest # None /\ Start(dest)
  /\ slipped' = (slipped \/ (schema' # schema /\ pc \in {"copy", "prune", "install"}))
  /\ UNCHANGED <<latest, dest, baks, record, snaps, pc, target, site, lost, was,
                 faults, stops, yanked, reworked>>

\* The run is stopped or fails, perhaps in the middle of writing a file.
Cut ==
  /\ pc # "idle" /\ faults < MaxFaults /\ End
  /\ faults' = faults + 1 /\ stops' = stops + 1
  /\ reworked' = (reworked \/ target = record)
  /\ \/ UNCHANGED <<dest, record, snaps>> /\ baks' = Disown(baks)
     \/ /\ pc = "snapshot" /\ equipped /\ schema # 0 /\ snaps' = <<Torn>> \o snaps
        /\ UNCHANGED <<dest, record, baks>>
     \/ /\ pc = "copy" /\ dest # None /\ baks' = <<TornBak>> \o baks
        /\ UNCHANGED <<dest, record, snaps>>
     \/ /\ pc = "install" \/ (pc = "rollback" /\ Mine # {})
        /\ dest' = Torn /\ baks' = Disown(Older(baks)) /\ UNCHANGED <<record, snaps>>
     \/ /\ pc = "record" /\ record' = None /\ baks' = Disown(baks)
        /\ UNCHANGED <<dest, snaps>>
  /\ UNCHANGED <<latest, target, site, lost, yanked, slipped>>

Stop ==
  /\ Cut /\ UNCHANGED <<running, schema, before, bare>>
  /\ since' = IF snaps' = snaps THEN since ELSE Counted

\* The machine restarts, and the service with it.
Reboot ==
  /\ Cut /\ snaps' = snaps
  /\ Start(dest')

Update ==
  \/ Begin(FALSE) \/ TakeSnapshot \/ CopyDest \/ PruneBackups \/ InstallTarget
  \/ RestartService \/ HealthCheck \/ Record \/ RollBack \/ CannotRollBack \/ Revert

Next ==
  \/ Update \/ Begin(TRUE)
  \/ Publish \/ Withdraw \/ Refit \/ Nightly \/ Respawn \/ Stop \/ Reboot

\* The timer comes round every five minutes and the script does not block.
Spec == Init /\ [][Next]_vars /\ WF_vars(Update)
-----------------------------------------------------------------------------
(***************************************************************************)
(* The invariant of the proofs, in named parts.                            *)
(***************************************************************************)
Whole == Releases \cup {None}
Files == Whole \cup {Torn}
Under == {"prune", "install", "restart", "check", "record", "rollback", "revert"}

TypeOK ==
  /\ latest \in Whole /\ dest \in Files /\ running \in Whole /\ schema \in Nat
  /\ baks \in Seq([rel : Files, age : {"newer", "same", "older"}, mine : BOOLEAN])
  /\ record \in Whole /\ snaps \in Seq(Nat \cup {Torn})
  /\ pc \in Under \cup {"idle", "snapshot", "copy"}
  /\ target \in Whole /\ (pc # "idle" => target # None)
  /\ was \in Files /\ since \in 0..Keep /\ before \in Nat
  /\ faults \in Nat /\ stops \in Nat
  /\ crowded \in BOOLEAN /\ lost \in BOOLEAN /\ yanked \in BOOLEAN /\ reworked \in BOOLEAN
  /\ slipped \in BOOLEAN /\ equipped \in BOOLEAN /\ bare \in BOOLEAN

\* The run's own backup is of the binary it found; none is left from an earlier run.
OwnBackup ==
  /\ pc \in {"snapshot", "copy"} => was = dest
  /\ \A i \in 1..Len(baks) : baks[i].mine => pc \in Under /\ baks[i].rel = was

InPlace == pc \in {"restart", "check", "record", "rollback"} => dest = target

\* A run over the recorded release found it and leaves it, whatever becomes of it.
Settled ==
  ~ yanked =>
    /\ record <= latest /\ target <= latest
    /\ record # None /\ record = latest /\ ~ reworked =>
         /\ dest = record
         /\ pc # "idle" => target = record /\ was = record

IInv == TypeOK /\ OwnBackup /\ InPlace /\ Settled

\* The backups that are not older than the binary come first: one of each
\* stopped run at most, and the one of the run under way until it installs.
Young(k) == \A i \in 1..Len(baks) : i <= k <=> baks[i].age # "older"
InOrder == \E k \in 0..Len(baks) :
  Young(k) /\ k <= stops + (IF pc \in {"prune", "install"} THEN 1 ELSE 0)

\* So the prune does not reach the run's own.
OwnKept ==
  was # None /\ stops < KeepBaks =>
    /\ pc = "prune" => \E i \in Mine : i <= stops + 1
    /\ pc \in Under \ {"prune"} => Mine # {}

\* What is recorded was seen to run, and runs unless the database has moved on.
Serves(r) == running = r \/ schema > Schema[r]
Served ==
  /\ running # None => running \notin Broken
  /\ pc = "record" => running = target
  /\ stops = 0 => dest \in Whole /\ was \in Whole
  /\ stops = 0 /\ record # None =>
       /\ record \notin Broken
       /\ pc # "idle" => was = record
       /\ pc \in {"idle", "snapshot", "copy", "prune", "install", "revert"} => dest = record
       /\ pc \in {"idle", "snapshot", "copy", "prune", "install"} => Serves(record)

\* A binary that has yet to migrate the database was put there after a snapshot.
Covered ==
  /\ ~ yanked => dest <= latest /\ (pc # "idle" => was <= target)
  /\ stops = 0 /\ ~ yanked /\ ~ slipped =>
       /\ since > 0 => snaps # <<>> /\ snaps[1] = schema
       /\ ~ bare =>
            /\ schema # 0 /\ dest \in Releases /\ Schema[dest] > schema => since > 0
            /\ schema # 0 /\ pc \in {"copy", "prune", "install"} => since > 0
            /\ before # 0 /\ since < Keep => Len(snaps) > since /\ snaps[since + 1] = before

Recoverable == InOrder /\ OwnKept /\ Served /\ Covered
-----------------------------------------------------------------------------
(***************************************************************************)
(* The next run never takes a binary for installed that is not (a run that *)
(* finds its release recorded does nothing): what STATE names as the       *)
(* latest release is what is in place, whole.  The exceptions are those of *)
(* the script: a release that GitHub no longer lists, and --force stopped  *)
(* while it put the same release there again.                              *)
(***************************************************************************)
UpToDateIsTrue ==
  pc = "idle" /\ record # None /\ record = latest /\ ~ yanked /\ ~ reworked => dest = record

(***************************************************************************)
(* Unless a run was stopped, the machine serves the recorded release again *)
(* after a failed update; but if the failed release migrated the database, *)
(* then it serves nothing.                                                 *)
(***************************************************************************)
ServesUnlessMigrated ==
  pc = "idle" /\ stops = 0 /\ record # None =>
    /\ dest = record
    /\ running = record \/ schema > Schema[record]

(***************************************************************************)
(* A failed update finds the binary it replaced, unless KeepBaks runs were *)
(* stopped before (their copies of the same binary have the same time, and *)
(* the prune then removes the newest).                                     *)
(***************************************************************************)
BackupAtHand ==
  pc = "rollback" /\ stops < KeepBaks /\ was # None => \E i \in Mine : baks[i].rel = was

(***************************************************************************)
(* The snapshot from before the last migration is the one behind those     *)
(* taken since, until Keep later ones (retries and nightly) push it out.   *)
(* The exceptions: a run was stopped, a release withdrawn, a first install *)
(* that failed made its database only when the next run had looked for     *)
(* one, or a run found yuiolink-backup missing and no snapshot of the      *)
(* schema in place, and went on without (lines 108-109, against "no        *)
(* snapshot, no update"); the last ends with a migration that has one.     *)
(***************************************************************************)
SnapshotBeforeMigration ==
  before # 0 /\ since < Keep /\ stops = 0 /\ ~ yanked /\ ~ slipped /\ ~ bare =>
    Len(snaps) > since /\ snaps[since + 1] = before

(***************************************************************************)
(* A healthy latest release is installed in the end, whatever was stopped, *)
(* if the database can be used with it; but not on a machine where the     *)
(* first install dies in its prune.                                        *)
(***************************************************************************)
Installable ==
  /\ latest \in Releases \ Broken /\ schema <= Schema[latest]
  /\ crowded => dest # None
  /\ ~ yanked /\ ~ reworked

EventuallyCurrent == <>[] Installable => <>[] (record = latest /\ running = latest)

(***************************************************************************)
(* "Keep only the newest three binary backups" (line 117), whose names     *)
(* are "our own <dest>.<UTC-stamp>.bak": nothing else is removed.          *)
(***************************************************************************)
OnlyBackupsPruned == ~ lost
=============================================================================
