------------------------------- MODULE Tuning -------------------------------
(***************************************************************************)
(* testenix tune: _tune_command of cli.py, run_tuning of tuning.py and     *)
(* write_worker_recommendation of config.py.  A session loads the          *)
(* configuration, measures the suite with several numbers of workers in    *)
(* one process tree after another (ProcessTree), recommends one, and with  *)
(* --write puts it into the configuration file.  Meanwhile anybody may     *)
(* edit the sources and the file.                                          *)
(*                                                                         *)
(* Of the bytes of the file three things matter: the profile the           *)
(* measurements depend on, the number of workers, and the rest.  Sources   *)
(* have contents and an identity (inode, times) that no edit restores.     *)
(***************************************************************************)
EXTENDS Scheduling, ProcessTree

CONSTANTS
  Warmups, Repeats,   \* rounds
  Requested,          \* --candidates, {} for the automatic sweep
  Capacity,           \* the processors there are
  Shardable,          \* the files the probe reports as divisible
  Times,              \* profile -> what is measured: [probe, samples]
  Contents,           \* what the sources may be edited to
  Files,              \* what the configuration file may be edited to
  InitialFile,
  CommandLines,       \* [override, write]: a profile or "none", and --write
  MaxTroubles         \* edits, new processes and strangers

Configs == [profile : {"modules", "sharding"}, workers : Nat, rest : Nat]

\* The execution units the cost model sees.
Divisible(profile) == IF profile = "sharding" THEN Shardable ELSE {}
UnitCount(profile) ==
  Cardinality(ExecutionUnits(Tests, Times[profile].probe, Divisible(profile)))

ASSUME TuningAssumption ==
  /\ Warmups \in Nat /\ Repeats \in Nat \ {0} /\ Capacity \in Nat \ {0}
  /\ IsFiniteSet(Requested) /\ Requested \subseteq Nat \ {0}
  /\ Contents # {}
  /\ InitialFile \in Configs /\ Files \subseteq Configs
  /\ CommandLines \subseteq [override : {"none", "modules", "sharding"}, write : BOOLEAN]
  /\ MaxTroubles \in Nat

\* The probe times every test; a sample has a time for each round.
ASSUME TimesAssumption ==
  /\ IsFiniteSet(Tests)
  /\ \A profile \in {"modules", "sharding"} :
       /\ Times[profile].probe \in [Tests -> Nat]
       /\ \A w \in 1 .. Max({1, UnitCount(profile)}) :
            Times[profile].samples[w] \in [1 .. Repeats -> Nat]

VARIABLES
  pc,
  file,          \* the configuration file: [profile, workers, rest]
  sources,       \* [contents, identity]
  override, write,   \* the command line
  loaded, snapshot, fingerprint,
  plan,          \* the measurements to make, known after the probe
  ran,           \* those made: [kind, workers, sources, outcome]
  recommended,
  temporary,     \* is there a temporary file beside the configuration?
  editedAt,      \* the places at which the file was edited
  troubles

fileVars == <<file, sources, editedAt>>
commandLine == <<override, write>>
sessionVars == <<loaded, snapshot, fingerprint, plan, ran, recommended, temporary>>
vars == <<pc, fileVars, commandLine, sessionVars, troubles, treeVars>>

-----------------------------------------------------------------------------
(***************************************************************************)
(* The measurements.                                                       *)
(***************************************************************************)
Profile == IF override = "none" THEN loaded.profile ELSE override

Ascending(S) == Sorted(S, LAMBDA a, b : a < b)

SelectedCandidates(profile) ==
  LET units == UnitCount(profile)
      model == AdaptiveWorkers(Tests, Times[profile].probe, Divisible(profile), Capacity)
  IN Ascending(IF Requested = {} THEN Candidates(units, model, Capacity)
               ELSE {Min({w, Max({1, units})}) : w \in Requested})

\* A round: the candidates in their order, pytest after them or, in every other
\* round, before them.
Round(kind, order, number) ==
  LET native == [i \in DOMAIN order |-> [kind |-> kind, workers |-> order[i]]]
      pytest == <<[kind |-> kind, workers |-> 0]>>
  IN IF number % 2 = 1 THEN pytest \o native ELSE native \o pytest

\* The candidates are reversed in every other round that is recorded.
MeasurementPlan(profile) ==
  LET selected == SelectedCandidates(profile)
      Order(number) == IF number % 2 = 1 THEN Reverse(selected) ELSE selected
  IN FlattenSeq([n \in 1 .. Warmups |-> Round("warmup", selected, n - 1)])
       \o FlattenSeq([n \in 1 .. Repeats |-> Round("sample", Order(n - 1), n - 1)])

Probe == [kind |-> "probe", workers |-> 1]
Following == IF ran = << >> THEN Probe ELSE plan[Len(ran)]

\* The least number of workers whose median is near the best.
Recommendation ==
  LET measured == {m.workers : m \in {plan[i] : i \in DOMAIN plan}} \ {0}
      MedianOf(w) == Median(Times[Profile].samples[w])
      best == Min({MedianOf(w) : w \in measured})
  IN Min({w \in measured : NearBest(MedianOf(w), best)})

-----------------------------------------------------------------------------
Init ==
  /\ pc = "load"
  /\ file = InitialFile
  /\ sources = [contents |-> CHOOSE c \in Contents : TRUE, identity |-> 0]
  /\ \E line \in CommandLines : override = line.override /\ write = line.write
  /\ loaded = file /\ snapshot = file /\ fingerprint = sources
  /\ plan = << >> /\ ran = << >>
  /\ recommended = 0
  /\ temporary = FALSE
  /\ editedAt = {}
  /\ troubles = 0
  /\ TreeInit

Session(from, to) ==
  /\ pc = from /\ pc' = to
  /\ UNCHANGED <<sources, editedAt, commandLine, troubles, treeVars>>

\* A profile given on the command line is not what the file would describe.
LoadConfig ==
  /\ Session("load", IF write /\ override \notin {"none", file.profile}
                       THEN "refused" ELSE "snapshot")
  /\ loaded' = file
  /\ UNCHANGED <<file, snapshot, fingerprint, plan, ran, recommended, temporary>>

ReadSnapshot ==
  /\ Session("snapshot", "fingerprint")
  /\ snapshot' = IF write THEN file ELSE snapshot
  /\ UNCHANGED <<file, loaded, fingerprint, plan, ran, recommended, temporary>>

Fingerprint ==
  /\ Session("fingerprint", "measure")
  /\ fingerprint' = sources
  /\ UNCHANGED <<file, loaded, snapshot, plan, ran, recommended, temporary>>

Measure ==
  /\ pc = "measure" /\ pc' = "running"
  /\ Launch
  /\ ran' = Append(ran, [kind |-> Following.kind, workers |-> Following.workers,
                         sources |-> sources, outcome |-> "unknown"])
  /\ UNCHANGED <<fileVars, commandLine, loaded, snapshot, fingerprint, plan, recommended,
                 temporary, troubles>>

\* With a configuration of its own, and history disabled.
MeasureNative == Measure /\ Following.workers # 0

MeasurePytest == Measure /\ Following.workers = 0

\* A deadline or an interrupt ends the session.
CommandOver ==
  /\ pc = "running"
  /\ pc' = IF ending = "returned" THEN "check" ELSE "failed"
  /\ Leave
  /\ UNCHANGED <<fileVars, commandLine, sessionVars, troubles>>

\* Mutant: the sources are compared by what they hold.
SameContents(one, other) == one.contents = other.contents

\* _source_identity_fingerprint
SameSources(one, other) == one = other

RequireUnchangedSources ==
  /\ Session("check", IF SameSources(sources, fingerprint) THEN "judge" ELSE "failed")
  /\ UNCHANGED <<file, sessionVars>>

\* _require_green, _require_matching: a measurement is as green as the probe, with
\* the same tests and outcomes, of which pytest's are not known.  The probe says
\* what to measure next.
Judge ==
  LET measurements == IF plan = << >> THEN MeasurementPlan(Profile) ELSE plan
      this == Len(ran)
  IN \E outcome \in {"same", "different", "red"} :
       /\ outcome = "different" => this > 1 /\ ran[this].workers # 0
       /\ Session("judge", IF outcome # "same" THEN "failed"
                           ELSE IF this = Len(measurements) + 1 THEN "recommend"
                           ELSE "measure")
       /\ ran' = [ran EXCEPT ![this].outcome = outcome]
       /\ plan' = measurements
       /\ UNCHANGED <<file, loaded, snapshot, fingerprint, recommended, temporary>>

Recommend ==
  /\ Session("recommend", IF write THEN "compare" ELSE "reported")
  /\ recommended' = Recommendation
  /\ UNCHANGED <<file, loaded, snapshot, fingerprint, plan, ran, temporary>>

-----------------------------------------------------------------------------
(***************************************************************************)
(* The configuration file.  It is looked at three times: by the command,   *)
(* by write_worker_recommendation, and once more when the new text is      *)
(* ready in a temporary file.                                              *)
(***************************************************************************)
Updated == [snapshot EXCEPT !.workers = recommended]

CompareConfig ==
  /\ Session("compare", IF file = snapshot THEN "read" ELSE "failed")
  /\ UNCHANGED <<file, sessionVars>>

ReadConfig ==
  /\ Session("read", IF file # snapshot THEN "failed"
                     ELSE IF Updated = snapshot THEN "keep" ELSE "prepare")
  /\ UNCHANGED <<file, sessionVars>>

\* The file says so already, if it is still that file.
KeepConfig ==
  /\ Session("keep", IF file = snapshot THEN "kept" ELSE "failed")
  /\ UNCHANGED <<file, sessionVars>>

PrepareConfig ==
  /\ Session("prepare", "look")
  /\ temporary' = TRUE
  /\ UNCHANGED <<file, loaded, snapshot, fingerprint, plan, ran, recommended>>

\* Mutant: what was read is not looked at again.
NoLastLook ==
  /\ Session("look", "rename")
  /\ temporary' = TRUE
  /\ UNCHANGED <<file, loaded, snapshot, fingerprint, plan, ran, recommended>>

LastLook ==
  /\ Session("look", IF file = snapshot THEN "rename" ELSE "failed")
  /\ temporary' = (file = snapshot)
  /\ UNCHANGED <<file, loaded, snapshot, fingerprint, plan, ran, recommended>>

RenameConfig ==
  /\ Session("rename", "written")
  /\ file' = Updated
  /\ temporary' = FALSE
  /\ UNCHANGED <<loaded, snapshot, fingerprint, plan, ran, recommended>>

\* A call fails, or the command is killed, which leaves the temporary file.
WriteFails ==
  /\ pc \in {"prepare", "look", "rename"}
  /\ \E how \in {"failed", "killed"} :
       /\ Session(pc, how)
       /\ temporary' = (temporary /\ how = "killed")
  /\ UNCHANGED <<file, loaded, snapshot, fingerprint, plan, ran, recommended>>

-----------------------------------------------------------------------------
Ended == pc \in {"refused", "failed", "killed", "reported", "kept", "written"}

EditConfig ==
  /\ ~Ended
  /\ \E contents \in Files \ {file} : file' = contents
  /\ editedAt' = editedAt \union {pc}
  /\ UNCHANGED sources

EditSources ==
  /\ ~Ended
  /\ \E contents \in Contents :
       sources' = [contents |-> contents, identity |-> sources.identity + 1]
  /\ UNCHANGED <<file, editedAt>>

Edit ==
  /\ troubles < MaxTroubles /\ troubles' = troubles + 1
  /\ EditConfig \/ EditSources
  /\ UNCHANGED <<pc, commandLine, sessionVars, treeVars>>

\* The processes of the measurement that is running, and everybody else's.
TreeStep ==
  /\ pc = "running"
  /\ TreeNext
  /\ troubles' = troubles + Cardinality(Births)
  /\ troubles' <= MaxTroubles
  /\ UNCHANGED <<pc, fileVars, commandLine, sessionVars>>

Next ==
  \/ LoadConfig \/ ReadSnapshot \/ Fingerprint
  \/ MeasureNative \/ MeasurePytest \/ TreeStep \/ CommandOver \/ RequireUnchangedSources \/ Judge \/ Recommend
  \/ CompareConfig \/ ReadConfig \/ KeepConfig
  \/ PrepareConfig \/ LastLook \/ RenameConfig \/ WriteFails
  \/ Edit
  \/ Ended /\ UNCHANGED vars

Spec == Init /\ [][Next]_vars

-----------------------------------------------------------------------------
(***************************************************************************)
(* Properties.                                                             *)
(***************************************************************************)
\* Every variable keeps its type.
TypeOK ==
  /\ TreeTypeOK
  /\ pc \in {"load", "snapshot", "fingerprint", "measure", "running", "check", "judge", "recommend",
             "compare", "read", "keep", "prepare", "look", "rename",
             "refused", "failed", "killed", "reported", "kept", "written"}
  /\ {file, loaded, snapshot} \subseteq Configs
  /\ {sources, fingerprint} \subseteq [contents : Contents, identity : 0 .. MaxTroubles]
  /\ recommended \in Nat
  /\ temporary \in BOOLEAN
  /\ troubles \in 0 .. MaxTroubles
  /\ stage = "idle" <=> pc # "running"

\* The places in ran of the recorded samples of a candidate, or of pytest (0).
Taken(w) == Ascending({i \in DOMAIN ran : ran[i].kind = "sample" /\ ran[i].workers = w})

\* In how many rounds w was measured before v.
Ahead(w, v) == Cardinality({k \in 1 .. Repeats : Taken(w)[k] < Taken(v)[k]})

\* A recommendation rests on complete and comparable measurements: all of them,
\* the probe and the warmups included, ran the very same sources with the same
\* outcomes (an edit that is undone between two measurements counts); whatever
\* was measured after the probe has all its samples; none profits from its place in the rounds, as
\* each comes before each other in half of them; and no candidate is better than
\* the recommended one by more than the tolerance (run_tuning).
Comparable ==
  recommended # 0 =>
    \A i \in DOMAIN ran : ran[i].sources = ran[1].sources /\ ran[i].outcome = "same"

RecommendationIsEarned ==
  /\ Comparable
  /\ recommended # 0 =>
    LET measured == {ran[i].workers : i \in DOMAIN ran \ {1}} IN
    /\ \A w \in measured : Len(Taken(w)) = Repeats
    /\ \A w, v \in measured : w # v => 2 * Ahead(w, v) \in Repeats - 1 .. Repeats + 1
    /\ \A w \in measured \ {0} :
         NearBest(Median(Times[Profile].samples[recommended]), Median(Times[Profile].samples[w]))

\* The configuration file is changed by --write alone, and then in nothing but
\* the number of workers: whatever others did to it since it was loaded, the
\* recommendation is written, or found to be there, only into the file it was
\* measured for, with the profile it was measured with, and no edit is lost.
\* Two windows are left: between the last look and the rename, as documented, and
\* between loading the configuration and the first look at its bytes
\* (_tune_command, write_worker_recommendation, _atomic_write_text).
WrittenAsMeasured ==
  [][/\ file' # file => pc' = pc \/ (write /\ pc' = "written")
     /\ pc # pc' /\ pc' \in {"written", "kept"} /\ "rename" \notin editedAt =>
          /\ file' = [file EXCEPT !.workers = recommended]
          /\ file'.profile = Profile \/ "snapshot" \in editedAt]_vars
=============================================================================
