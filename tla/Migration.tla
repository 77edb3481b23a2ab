----------------------------- MODULE Migration -----------------------------
(***************************************************************************)
(* Migrations of one test suite to one output directory: migrate() of      *)
(* src/testenix/migration_service.py over migration_fs.py, and the command *)
(* that runs it and writes its report (_migrate_command of cli.py).        *)
(*                                                                         *)
(* Several processes may migrate the same sources to the same output while *)
(* others edit the sources, create the output or a report, and any of them *)
(* may be interrupted or killed.  The filesystem is shared; each of its    *)
(* operations is one action.                                               *)
(*                                                                         *)
(* Contents are version numbers: an edit gives a file a new version, or    *)
(* one it had before, for contents are only ever compared by their hashes. *)
(* A file that is absent is one more version of it.                        *)
(***************************************************************************)
EXTENDS Integers, Sequences

CONSTANTS
  Migrations,  \* the processes that migrate
  Modes,       \* Modes[m]: how m may have been started
  ReportPath,  \* ReportPath[m]: where the report of m goes, or "none"
  Files,       \* the number of source files
  MaxTroubles  \* bound: acts of others, and faults

ASSUME ConstantsAssumption ==
  /\ Modes \in [Migrations -> SUBSET {"dry-run", "check", "publish"}]
  /\ ReportPath \in [Migrations -> STRING]
  /\ Files \in Nat \ {0} /\ MaxTroubles \in Nat
  /\ "absent" \notin Migrations /\ "someone" \notin Migrations

VARIABLES
  history,   \* the sources, file by file, as they were after each edit
  output,    \* whose suite the output directory holds
  whole,     \* whether it holds all of that suite
  lock,      \* who created the publication lock
  reports,   \* who wrote the report at each path
  acts,      \* how often others acted: edited, or created a path
  faults,    \* how many interruptions, kills and failing calls there were
  spoiled,   \* who was stopped, or failed, in doing what about its own files
  pc,        \* the place of each migration
  read,      \* what it has read of the sources in the present scan
  snapshot,  \* source_files: what it read in the first
  ran,       \* the sources each of its validation runs was given
  staged,    \* its transaction directory
  verdict,   \* what it is going to report
  result,    \* the MigrationReport
  exit       \* the exit code of the command

environment == <<history, output, whole, lock, reports, acts>>
own == <<spoiled, pc, read, snapshot, ran, staged, verdict, result, exit>>
vars == <<environment, faults, own>>

Absent == "absent"
Someone == "someone"
Paths == {ReportPath[m] : m \in Migrations} \ {"none"}
NoReport == [status |-> "none", modified |-> FALSE, published |-> FALSE]
Running == -1

source == history[Len(history)]

Init ==
  /\ history = <<[f \in 1..Files |-> 0]>>
  /\ output = Absent /\ whole = FALSE
  /\ lock = Absent
  /\ reports = [p \in Paths |-> Absent]
  /\ acts = 0 /\ faults = 0 /\ spoiled = {}
  /\ pc = [m \in Migrations |-> "starting"]
  /\ read = [m \in Migrations |-> << >>]
  /\ snapshot = [m \in Migrations |-> << >>]
  /\ ran = [m \in Migrations |-> << >>]
  /\ staged = [m \in Migrations |-> "none"]
  /\ verdict = [m \in Migrations |-> "none"]
  /\ result = [m \in Migrations |-> NoReport]
  /\ exit = [m \in Migrations |-> Running]

-----------------------------------------------------------------------------
(***************************************************************************)
(* Others.                                                                 *)
(***************************************************************************)
Calm == acts + faults < MaxTroubles

Act == Calm /\ acts' = acts + 1

\* A new version of f, or the return to an earlier one.
Versions(f) ==
  ({Len(history)} \union {history[k][f] : k \in DOMAIN history}) \ {source[f]}

Edit(f) ==
  /\ Act
  /\ \E v \in Versions(f) : history' = Append(history, [source EXCEPT ![f] = v])
  /\ UNCHANGED <<output, whole, lock, reports, faults, own>>

CreateOutput ==
  /\ Act /\ output = Absent /\ output' = Someone
  /\ UNCHANGED <<history, whole, lock, reports, faults, own>>

CreateReport(p) ==
  /\ Act /\ reports[p] = Absent
  /\ reports' = [reports EXCEPT ![p] = Someone]
  /\ UNCHANGED <<history, output, whole, lock, faults, own>>

-----------------------------------------------------------------------------
(***************************************************************************)
(* Steps of a migration.                                                   *)
(***************************************************************************)
At(m, place) == pc[m] = place

Goto(m, place) ==
  /\ pc' = [pc EXCEPT ![m] = place]
  /\ read' = [read EXCEPT ![m] = << >>]

Unfinished(m) == exit[m] = Running

Fault == Calm /\ faults' = faults + 1

Staged(m, payload) == staged' = [staged EXCEPT ![m] = payload]

Decide(m, status) == verdict' = [verdict EXCEPT ![m] = status]

Spoil(m, doing) == spoiled' = spoiled \union {<<m, doing>>}

\* Refuse: report status, unless a last look finds the sources changed.
Refuse(m, status) ==
  Goto(m, "refusing") /\ Decide(m, status)

Return(m, status) ==
  /\ Goto(m, "reporting")
  /\ result' = [result EXCEPT ![m] = [status |-> status, modified |-> FALSE,
                                      published |-> status = "PUBLISHED"]]

SourceChanged(m) ==
  /\ Goto(m, "reporting")
  /\ result' = [result EXCEPT ![m] = [status |-> "SAFETY_ERROR",
                                      modified |-> TRUE, published |-> FALSE]]

Exit(m, code) ==
  /\ Goto(m, "ended")
  /\ exit' = [exit EXCEPT ![m] = code]

\* _migrate_command, before the migration.
Precheck(m) ==
  /\ At(m, "starting")
  /\ IF ReportPath[m] = "none" THEN Goto(m, "preflight") /\ UNCHANGED exit
     ELSE IF reports[ReportPath[m]] # Absent THEN Exit(m, 3)
     ELSE IF output # Absent THEN Exit(m, 2)
     ELSE Goto(m, "preflight") /\ UNCHANGED exit
  /\ UNCHANGED <<environment, faults, spoiled, snapshot, ran, staged, verdict,
                 result>>

\* validate_migration_paths
Preflight(m) ==
  /\ At(m, "preflight")
  /\ IF output = Absent THEN Goto(m, "snapshotting") /\ UNCHANGED result
     ELSE Return(m, "SAFETY_ERROR")
  /\ UNCHANGED <<environment, faults, spoiled, snapshot, ran, staged, verdict,
                 exit>>

\* snapshot_source_files and copy_project_to_shadow, one file after another.
Scanning == {"snapshotting", "copying", "checking", "rechecking", "refusing"}

ReadFile(m) ==
  /\ pc[m] \in Scanning /\ Len(read[m]) + 1 < Files
  /\ read' = [read EXCEPT ![m] = Append(@, source[Len(@) + 1])]
  /\ UNCHANGED <<environment, faults, spoiled, pc, snapshot, ran, staged,
                 verdict, result, exit>>

\* The scan that ends at place, with the last file, and what it has read.
Scanned(m, place) == At(m, place) /\ Len(read[m]) + 1 = Files

Seen(m) == Append(read[m], source[Files])

\* A file cannot be read, or changes while it is read.
ReadFails(m) ==
  /\ pc[m] \in Scanning /\ Fault
  /\ \/ /\ At(m, "snapshotting")
        /\ Return(m, "SAFETY_ERROR") /\ UNCHANGED verdict
     \/ At(m, "copying") /\ Refuse(m, "SAFETY_ERROR") /\ UNCHANGED result
     \/ /\ At(m, "rechecking") /\ Goto(m, "cleaning") /\ UNCHANGED result
        /\ Decide(m, "CHANGED") \/ Decide(m, "SAFETY_ERROR")
     \/ /\ At(m, "checking") \/ At(m, "refusing")
        /\ SourceChanged(m) /\ UNCHANGED verdict
  /\ UNCHANGED <<environment, spoiled, snapshot, ran, staged, exit>>

\* A bare OSError of a scan, be it that a copy cannot be written, is caught by
\* the command alone; that of the recheck counts among the above.
BreaksOff(m) ==
  /\ pc[m] \in Scanning \ {"rechecking"} /\ Fault /\ Exit(m, 3)
  /\ UNCHANGED <<environment, spoiled, snapshot, ran, staged, verdict, result>>

\* The snapshot is converted in memory; in which mode m was started shows only
\* where the mode matters.
Convert(m) ==
  /\ Scanned(m, "snapshotting")
  /\ snapshot' = [snapshot EXCEPT ![m] = Seen(m)]
  /\ \/ Refuse(m, "UNSUPPORTED")
     \/ "dry-run" \in Modes[m] /\ Goto(m, "checking") /\ UNCHANGED verdict
     \/ Modes[m] \ {"dry-run"} # {} /\ Goto(m, "copying") /\ UNCHANGED verdict
  /\ UNCHANGED <<environment, faults, spoiled, ran, staged, result, exit>>

-----------------------------------------------------------------------------
(***************************************************************************)
(* Validation: the originals, then the candidate serially and in parallel, *)
(* each in a copy of the project of its own.                               *)
(***************************************************************************)
Validated(m) == Len(ran[m]) = 2

\* The run is green, in time, and agrees with the earlier ones, or it is not.
Validate(m) ==
  /\ Scanned(m, "copying")
  /\ ran' = [ran EXCEPT ![m] = Append(@, Seen(m))]
  /\ \/ Refuse(m, "VALIDATION_FAILED")
     \/ /\ Goto(m, IF Validated(m) THEN "checking" ELSE "copying")
        /\ UNCHANGED verdict
  /\ UNCHANGED <<environment, faults, spoiled, snapshot, staged, result, exit>>

\* Mutant: the files are only counted.
SameFiles(m) == Len(Seen(m)) = Len(snapshot[m])

\* verify_source_snapshot
Unchanged(m) == Seen(m) = snapshot[m]

Check(m) ==
  /\ Scanned(m, "checking")
  /\ \/ ~Unchanged(m) /\ SourceChanged(m)
     \/ Unchanged(m) /\ ran[m] = << >> /\ Return(m, "ANALYZED")
     \/ /\ Unchanged(m) /\ ran[m] # << >> /\ "check" \in Modes[m]
        /\ Return(m, "VALIDATED")
     \/ /\ Unchanged(m) /\ ran[m] # << >> /\ "publish" \in Modes[m]
        /\ Goto(m, "staging") /\ UNCHANGED result
  /\ UNCHANGED <<environment, faults, spoiled, snapshot, ran, staged, verdict,
                 exit>>

\* _verified_terminal_report
Refused(m) ==
  /\ Scanned(m, "refusing")
  /\ IF Unchanged(m) THEN Return(m, verdict[m]) ELSE SourceChanged(m)
  /\ UNCHANGED <<environment, faults, spoiled, snapshot, ran, staged, verdict,
                 exit>>

-----------------------------------------------------------------------------
(***************************************************************************)
(* Publication.                                                            *)
(***************************************************************************)
\* create_publish_staging; a failure removes what was created.
Stage(m) ==
  /\ At(m, "staging")
  /\ \/ /\ Staged(m, "empty") /\ Goto(m, "writing")
        /\ UNCHANGED <<faults, verdict>>
     \/ Fault /\ Refuse(m, "SAFETY_ERROR") /\ UNCHANGED staged
  /\ UNCHANGED <<environment, spoiled, snapshot, ran, result, exit>>

\* write_staged_artifacts
Write(m) ==
  /\ At(m, "writing")
  /\ \/ Staged(m, "whole") /\ Goto(m, "rechecking")
        /\ UNCHANGED <<faults, verdict>>
     \/ Fault /\ Staged(m, "partial") /\ Goto(m, "cleaning")
        /\ Decide(m, "SAFETY_ERROR")
  /\ UNCHANGED <<environment, spoiled, snapshot, ran, result, exit>>

Recheck(m) ==
  /\ Scanned(m, "rechecking")
  /\ IF Unchanged(m) THEN Goto(m, "publishing") /\ UNCHANGED verdict
     ELSE Goto(m, "cleaning") /\ Decide(m, "CHANGED")
  /\ UNCHANGED <<environment, faults, spoiled, snapshot, ran, staged, result,
                 exit>>

\* atomic_publish, step by step: the output must not exist ...
Publish(m) ==
  /\ At(m, "publishing")
  /\ IF output = Absent THEN Goto(m, "locking") /\ UNCHANGED verdict
     ELSE Goto(m, "cleaning") /\ Decide(m, "SAFETY_ERROR")
  /\ UNCHANGED <<environment, faults, spoiled, snapshot, ran, staged, result,
                 exit>>

\* Mutant: wait until the lock is free.
ContendPatiently(m) ==
  /\ lock = Absent /\ lock' = m
  /\ Goto(m, "noting") /\ UNCHANGED verdict

\* ... nor the lock, which is created ...
Contend(m) ==
  IF lock = Absent
    THEN lock' = m /\ Goto(m, "noting") /\ UNCHANGED verdict
    ELSE Goto(m, "cleaning") /\ Decide(m, "SAFETY_ERROR") /\ UNCHANGED lock

Lock(m) ==
  /\ At(m, "locking") /\ Contend(m)
  /\ UNCHANGED <<history, output, whole, reports, acts, faults, spoiled,
                 snapshot, ran, staged, result, exit>>

\* ... and written and synced, not yet under the protection that removes it:
\* failing which it is left where it is.
Note(m) ==
  /\ At(m, "noting")
  /\ \/ Goto(m, "renaming") /\ UNCHANGED <<faults, spoiled, verdict>>
     \/ /\ Fault /\ Spoil(m, "writing-lock")
        /\ Goto(m, "cleaning") /\ Decide(m, "SAFETY_ERROR")
  /\ UNCHANGED <<environment, snapshot, ran, staged, result, exit>>

\* Mutant: the rename replaces.
Replaceable == TRUE

Free == output = Absent

\* The rename, which fails if anything is there.
Rename(m) ==
  /\ At(m, "renaming")
  /\ IF Free
       THEN /\ output' = m /\ whole' = (staged[m] = "whole")
            /\ Staged(m, "moved") /\ Goto(m, "syncing") /\ UNCHANGED verdict
       ELSE /\ Goto(m, "unlocking") /\ Decide(m, "SAFETY_ERROR")
            /\ UNCHANGED <<output, whole, staged>>
  /\ UNCHANGED <<history, lock, reports, acts, faults, spoiled, snapshot, ran,
                 result, exit>>

\* Another call of the filesystem fails on the way to the renamed directory.
PublishFails(m) ==
  /\ Fault /\ Decide(m, "SAFETY_ERROR")
  /\ \/ pc[m] \in {"publishing", "locking"} /\ Goto(m, "cleaning")
     \/ At(m, "renaming") /\ Goto(m, "unlocking")
  /\ UNCHANGED <<environment, spoiled, snapshot, ran, staged, result, exit>>

\* Mutant: what may not last was not published.
NotDurable == "SAFETY_ERROR"

\* PublishedOutputDurabilityError: what is renamed is published.
Unsynced == "PUBLISHED"

Sync(m) ==
  /\ At(m, "syncing")
  /\ Goto(m, "unlocking")
  /\ \/ Decide(m, "PUBLISHED") /\ UNCHANGED faults
     \/ Fault /\ Decide(m, Unsynced)
  /\ UNCHANGED <<environment, spoiled, snapshot, ran, staged, result, exit>>

\* Mutant: only a publication releases its lock.
ReleasesPublished(m) == lock = m /\ verdict[m] = "PUBLISHED"

\* _unlink_owned_lock_at: only one's own lock is removed.  That the unlink fails
\* is ignored; that the stat() before it fails takes the place of whatever the
\* publication came to, a success or an interruption included.
Releases(m) == lock = m

Unlock(m) ==
  /\ At(m, "unlocking") /\ Goto(m, "cleaning")
  /\ \/ /\ lock' = IF Releases(m) THEN Absent ELSE lock
        /\ UNCHANGED <<faults, spoiled, verdict>>
     \/ /\ Fault /\ UNCHANGED lock
        /\ \/ Spoil(m, "removing-lock") /\ UNCHANGED verdict
           \/ Spoil(m, "finding-lock") /\ Decide(m, "SAFETY_ERROR")
  /\ UNCHANGED <<history, output, whole, reports, acts, snapshot, ran, staged,
                 result, exit>>

\* cleanup_publish_staging, and what follows from how the publication ended.
Conclude(m) ==
  \/ /\ verdict[m] = "PUBLISHED"
     /\ Return(m, "PUBLISHED") /\ UNCHANGED exit
  \/ verdict[m] = "CHANGED" /\ SourceChanged(m) /\ UNCHANGED exit
  \/ /\ verdict[m] = "SAFETY_ERROR"
     /\ Goto(m, "refusing") /\ UNCHANGED <<result, exit>>
  \/ verdict[m] = "INTERRUPTED" /\ Exit(m, 130) /\ UNCHANGED result

Clean(m) ==
  /\ At(m, "cleaning") /\ Conclude(m)
  /\ \/ Staged(m, "none") /\ UNCHANGED <<faults, spoiled>>
     \/ Fault /\ Spoil(m, "removing-staging") /\ UNCHANGED staged
  /\ UNCHANGED <<environment, snapshot, ran, verdict>>

-----------------------------------------------------------------------------
(***************************************************************************)
(* The report: write_migration_report and the exit of _migrate_command.    *)
(***************************************************************************)
ExitOf(status) ==
  CASE status \in {"ANALYZED", "VALIDATED", "PUBLISHED"} -> 0
    [] status = "VALIDATION_FAILED" -> 1
    [] status = "SAFETY_ERROR" -> 2
    [] status = "UNSUPPORTED" -> 4

\* An OSError is caught; the MigrationFilesystemError of a path that is taken
\* when the report is to be written is not, and ends the interpreter.
Unwritable(m) == IF result[m].published THEN ExitOf(result[m].status) ELSE 3

Taken == 1

Report(m) ==
  /\ At(m, "reporting")
  /\ \/ /\ ReportPath[m] = "none"
        /\ Exit(m, ExitOf(result[m].status))
     \/ /\ ReportPath[m] # "none"
        /\ IF reports[ReportPath[m]] = Absent
             THEN Goto(m, "linking") /\ UNCHANGED exit
             ELSE Exit(m, Taken)
  /\ UNCHANGED <<environment, faults, spoiled, snapshot, ran, staged, verdict,
                 result>>

Link(m) ==
  /\ At(m, "linking")
  /\ IF reports[ReportPath[m]] = Absent
       THEN /\ reports' = [reports EXCEPT ![ReportPath[m]] = m]
            /\ Exit(m, ExitOf(result[m].status))
       ELSE Exit(m, Unwritable(m)) /\ UNCHANGED reports
  /\ UNCHANGED <<history, output, whole, lock, acts, faults, spoiled, snapshot,
                 ran, staged, verdict, result>>

LinkFails(m) ==
  /\ At(m, "linking") /\ Fault /\ Exit(m, Unwritable(m))
  /\ UNCHANGED <<environment, spoiled, snapshot, ran, staged, verdict, result>>

-----------------------------------------------------------------------------
\* What the transaction directory is removed after, if no lock is held.
Staging == {"writing", "rechecking", "publishing", "locking"}

\* KeyboardInterrupt, through the finally blocks between here and main().
Interrupt(m) ==
  /\ Unfinished(m) /\ ~At(m, "killed") /\ Fault
  /\ \/ /\ pc[m] \in Staging
        /\ Goto(m, "cleaning") /\ Decide(m, "INTERRUPTED")
        /\ UNCHANGED <<spoiled, exit>>
     \/ /\ pc[m] \in {"renaming", "syncing"}
        /\ Goto(m, "unlocking") /\ Decide(m, "INTERRUPTED")
        /\ UNCHANGED <<spoiled, exit>>
     \/ /\ At(m, "noting") /\ Spoil(m, "writing-lock")
        /\ Goto(m, "cleaning") /\ Decide(m, "INTERRUPTED")
        /\ UNCHANGED exit
     \/ /\ At(m, "unlocking") /\ Spoil(m, "removing-lock")
        /\ Goto(m, "cleaning") /\ Decide(m, "INTERRUPTED")
        /\ UNCHANGED exit
     \/ /\ At(m, "cleaning") /\ Spoil(m, "removing-staging")
        /\ Exit(m, 130) /\ UNCHANGED verdict
     \/ /\ pc[m] \notin Staging \union {"noting", "renaming", "syncing",
                                      "unlocking", "cleaning"}
        /\ Exit(m, 130) /\ UNCHANGED <<spoiled, verdict>>
  /\ UNCHANGED <<environment, snapshot, ran, staged, result>>

\* The process is gone at once.
Kill(m) ==
  /\ Unfinished(m) /\ ~At(m, "killed") /\ Fault
  /\ Goto(m, "killed") /\ Spoil(m, "killed")
  /\ UNCHANGED <<environment, snapshot, ran, staged, verdict, result, exit>>

Step(m) ==
  \/ Precheck(m) \/ Preflight(m)
  \/ ReadFile(m) \/ Convert(m) \/ Validate(m) \/ Check(m) \/ Refused(m)
  \/ Stage(m) \/ Write(m) \/ Recheck(m)
  \/ Publish(m) \/ Lock(m) \/ Note(m) \/ Rename(m) \/ Sync(m)
  \/ Unlock(m) \/ Clean(m) \/ Report(m) \/ Link(m)

Failure(m) ==
  \/ ReadFails(m) \/ BreaksOff(m) \/ PublishFails(m) \/ LinkFails(m)
  \/ Interrupt(m) \/ Kill(m)

Others ==
  \/ \E f \in 1..Files : Edit(f)
  \/ CreateOutput
  \/ \E p \in Paths : CreateReport(p)

AllOver == \A m \in Migrations : ~Unfinished(m) \/ At(m, "killed")

Over == AllOver /\ UNCHANGED vars

Next ==
  \/ \E m \in Migrations : Step(m) \/ Failure(m)
  \/ Others \/ Over

Spec == Init /\ [][Next]_vars

-----------------------------------------------------------------------------
Places ==
  Scanning \union
  {"starting", "preflight", "staging", "writing", "publishing", "locking",
   "noting", "renaming", "syncing", "unlocking", "cleaning", "reporting", "linking",
   "ended", "killed"}

Reported ==
  {"ANALYZED", "VALIDATED", "PUBLISHED", "UNSUPPORTED", "VALIDATION_FAILED",
   "SAFETY_ERROR"}

Owners == Migrations \union {Absent, Someone}

Doings ==
  {"killed", "writing-lock", "finding-lock", "removing-lock",
   "removing-staging"}

TypeOK ==
  /\ history \in Seq([1..Files -> Nat]) /\ history # << >>
  /\ output \in Owners /\ whole \in BOOLEAN
  /\ lock \in Migrations \union {Absent}
  /\ reports \in [Paths -> Owners]
  /\ acts \in Nat /\ faults \in Nat /\ acts + faults <= MaxTroubles
  /\ spoiled \in SUBSET (Migrations \X Doings)
  /\ pc \in [Migrations -> Places]
  /\ read \in [Migrations -> Seq(Nat)]
  /\ snapshot \in [Migrations -> Seq(Nat)]
  /\ ran \in [Migrations -> Seq(Seq(Nat))]
  /\ \A m \in Migrations :
       Len(read[m]) < Files /\ Len(snapshot[m]) \in {0, Files} /\ Len(ran[m]) <= 3
  /\ staged \in [Migrations -> {"none", "empty", "partial", "whole", "moved"}]
  /\ verdict \in [Migrations -> Reported \union
                                {"none", "CHANGED", "INTERRUPTED"}]
  /\ result \in [Migrations ->
       [status : Reported \union {"none"}, modified : BOOLEAN,
        published : BOOLEAN]]
  /\ exit \in [Migrations -> {Running, 0, 1, 2, 3, 4, 130}]

\* The files whose contents never came back after they had changed.
Settled ==
  {f \in 1..Files :
     \A j, l \in DOMAIN history :
       j < l /\ history[j][f] = history[l][f] =>
         \A k \in j..l : history[k][f] = history[j][f]}

\* The scan is of the sources as they all were at one moment: at least of those
\* no edit of which was undone.
OfOneMoment(scan) ==
  \E k \in DOMAIN history : \A f \in Settled : scan[f] = history[k][f]

\* What is published was validated, whole: the suite was made of the sources
\* as they all were at one moment, and all three runs were of these very ones.
\* An edit that is undone before the next look goes unnoticed, even if a run
\* was of what it had made: verify_source_snapshot compares hashes, and the
\* copies that are run are not compared with anything.
PublishedWasValidated ==
  [][output' # output /\ output' \in Migrations =>
       /\ whole'
       /\ OfOneMoment(snapshot[output'])
       /\ Len(ran[output']) = 3
       /\ \A k \in 1..3 : \A f \in Settled :
            ran[output'][k][f] = snapshot[output'][f]]_vars

\* A report tells the truth: what it calls published is; what is published is
\* called so, whatever failed, save when the lock could not be looked at again;
\* success means that the suite was made of sources of one moment; and sources
\* called modified were, after they had been read, unless a call failed.
ReportsAreTrue ==
  \A m \in Migrations :
    result[m] # NoReport =>
      /\ result[m].published => output = m
      /\ output = m => \/ result[m].published
                       \/ <<m, "finding-lock">> \in spoiled
      /\ ExitOf(result[m].status) = 0 => OfOneMoment(snapshot[m])
      /\ result[m].modified =>
           \/ \E f \in 1..Files : \E j, l \in DOMAIN history :
                /\ j < l /\ history[j][f] = snapshot[m][f]
                /\ history[l][f] # snapshot[m][f]
           \/ faults > 0

\* An output, or a report, is never replaced or removed by anyone.
NothingIsReplaced ==
  [][/\ output # Absent => output' = output /\ whole' = whole
     /\ \A p \in Paths : reports[p] # Absent => reports'[p] = reports[p]]_vars

\* The lock is there only while its owner publishes, and the staging directory
\* of a migration that has ended is not.  Excepted is a migration that was
\* killed, or was interrupted or failed while it wrote its lock, looked at the
\* lock or removed what it had created; whatever else fails or is interrupted,
\* both are removed.
NothingIsLeftBehind ==
  \A m \in Migrations :
    /\ lock = m => \/ pc[m] \in {"noting", "renaming", "syncing", "unlocking"}
                   \/ \E doing \in Doings \ {"removing-staging"} :
                        <<m, doing>> \in spoiled
    /\ ~Unfinished(m) => \/ staged[m] = "none"
                          \/ <<m, "removing-staging">> \in spoiled

\* No migration ever waits for another, not even for one that was killed while
\* it held the lock: it can always go on, or fail.
NobodyIsWaitedFor ==
  \A m \in Migrations : Unfinished(m) /\ ~At(m, "killed") => ENABLED Step(m)
=============================================================================
