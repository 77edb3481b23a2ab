----------------------------- MODULE TrustedRun -----------------------------
(***************************************************************************)
(* A trusted collection manifest from the discovery it is built from to    *)
(* the run that believes it: build_trusted_collection_manifest and         *)
(* verify_trusted_collection_manifest of sharding.py, discovery.py, and    *)
(* the parts of runner.py that collect, hand out tests and import them     *)
(* again in worker processes, next to an editor of the sources.            *)
(*                                                                         *)
(* Two test files share a directory; one may import the other, and both    *)
(* may import helper, a module of the project root.  A shadow is a module  *)
(* of that name beside the tests, which is found first.                    *)
(***************************************************************************)
EXTENDS ShardingAnalysis

CONSTANTS
  Modules,      \* what the first test file may hold at the start
  Edited,       \* what it may be edited to; it is left alone if it is not one of these
  OtherModule,  \* what the second test file holds when it exists
  OtherImports, \* whether the second test file imports the first
  MaxEdits, MaxCrashes

ASSUME TrustedRunAssumption ==
  /\ Edited \subseteq Modules
  /\ OtherImports \in BOOLEAN
  /\ MaxEdits \in Nat /\ MaxCrashes \in Nat

First == "test_f"
Other == "test_g"
TestFiles == {First, Other}
Sources == TestFiles \cup {"helper", "shadow"}
SourceOrder == [helper |-> 1, shadow |-> 2, test_f |-> 3, test_g |-> 4]
Absent == << >>
NoManifest == [digests |-> << >>, tests |-> {}, eligible |-> {}]

VARIABLES
  disk,      \* the contents of the sources; a digest stands for the contents
  outside,   \* what a scope read from outside of the project says
  edits,     \* the edits made so far
  crashes,   \* the workers lost so far
  stage,     \* of the producer, then of the run
  loaded,    \* the test files as the collection process has imported them
  issues,    \* those it could not import
  manifest,  \* the manifest, if one could be made
  plan,      \* what the run goes by: a manifest, with no digests if it is not trusted
  jobs,      \* the worker processes
  imports,   \* the calls of code from elsewhere, made by importing workers
  edited,    \* the sources edited since the producer, or the run, has begun
  disturbed, \* those edited while the manifest was made
  unread,    \* the test files whose imports the producer has still to read
  due        \* the sources it has still to make a digest of

editVars == <<edited, disturbed>>
listVars == <<unread, due>>
vars == <<disk, outside, edits, crashes, stage, loaded, issues, manifest, plan, jobs, imports,
          editVars, listVars>>

-----------------------------------------------------------------------------
(***************************************************************************)
(* Sources on disk.                                                        *)
(***************************************************************************)
Present(files) == {s \in files : disk[s] # Absent}

\* enumerate_test_files: nothing but the names of the test files counts.
Inventory == Present(TestFiles)

ImportsHelper(module) ==
  \E s \in Statements(module) : s.kind = "star" \/ (s.kind = "from" /\ s.origin # "testenix")

\* What the test files hold can be a module, and a condition asks the helper.
ASSUME ModulesAssumption ==
  \A module \in Modules \cup {OtherModule} :
    /\ WellFormed(module)
    /\ OfKind(module, {"branch"}) # {} => ImportsHelper(module)

\* The directory of the test file comes first on the path of the imports.
HelperFile == IF disk["shadow"] # Absent THEN "shadow" ELSE "helper"

\* What the import of a test file reads: the file, and what it imports.
TestFilesRead(file) ==
  {file} \cup (IF file = Other /\ OtherImports THEN Present({First}) ELSE {})
Reads(file) ==
  TestFilesRead(file)
    \cup (IF \E f \in TestFilesRead(file) : ImportsHelper(disk[f]) THEN {HelperFile} ELSE {})

\* _local_import_candidates: every file an import may stand for that exists.
Dependencies(file) ==
  IF ImportsHelper(disk[file]) THEN Present({"helper", "shadow"}) ELSE {}

CanBeImported(file) == \A f \in TestFilesRead(file) : Parses(disk[f])
Load(file) == LoadModule(disk[file], disk[HelperFile][1], outside)

Ids(modules) == UNION {{<<file, n>> : n \in TestNames(modules[file])} : file \in DOMAIN modules}
FilesOf(tests) == {t[1] : t \in tests}

-----------------------------------------------------------------------------
(***************************************************************************)
(* The collection process, which the producer of the manifest and a run    *)
(* that has no valid manifest start alike.                                 *)
(***************************************************************************)
Init ==
  /\ disk \in {[test_f |-> f, test_g |-> g, helper |-> <<0>>, shadow |-> Absent] :
                 f \in Modules, g \in {OtherModule, Absent}}
  /\ disk[First] \notin Edited => disk[Other] # Absent
  /\ edits = IF disk[First] \in Edited THEN 0 ELSE MaxEdits
  /\ outside = "test"
  /\ crashes = 0
  /\ stage = "discover"
  /\ loaded = << >>
  /\ issues = {}
  /\ manifest = NoManifest
  /\ plan = NoManifest
  /\ jobs = {}
  /\ imports = [file \in TestFiles |-> 0]
  /\ edited = {} /\ disturbed = {}
  /\ unread = {} /\ due = {}

\* _discover: a file that cannot be imported is an issue.
Discover ==
  /\ stage \in {"discover", "collect"}
  /\ loaded' = [file \in {f \in Inventory : CanBeImported(f)} |-> Load(file)]
  /\ issues' = {f \in Inventory : ~CanBeImported(f)}
  /\ stage' = IF stage = "discover" THEN "fingerprint" ELSE "collected"
  /\ UNCHANGED <<disk, outside, edits, crashes, manifest, plan, jobs, imports, editVars, listVars>>

\* enumerate_test_files: the files are listed again.
ListFiles ==
  /\ stage = "fingerprint"
  /\ unread' = Inventory /\ due' = Inventory
  /\ stage' = "listing"
  /\ UNCHANGED <<disk, outside, edits, crashes, loaded, issues, manifest, plan, jobs, imports,
                 editVars>>

\* _local_import_dependencies reads them for what they import, in any order.
ReadImports(file) ==
  /\ stage = "listing"
  /\ unread' = unread \ {file}
  /\ due' = due \cup Dependencies(file)
  /\ UNCHANGED <<disk, outside, edits, crashes, stage, loaded, issues, manifest, plan, jobs, imports,
                 editVars>>

NextInOrder(sources) == CHOOSE s \in sources : \A u \in sources : SourceOrder[s] <= SourceOrder[u]

\* _hash_source: then each source is read again by itself, for its digest.
Digest(source) ==
  /\ disk[source] # Absent
  /\ manifest' = [manifest EXCEPT !.digests =
                    [s \in DOMAIN @ \cup {source} |-> IF s = source THEN disk[s] ELSE @[s]]]
  /\ due' = due \ {source}
  /\ stage' = IF due = {source} THEN "assess" ELSE stage
  /\ UNCHANGED <<disk, outside, edits, crashes, loaded, issues, plan, jobs, imports, editVars, unread>>

\* It is gone, and no manifest is made.
DigestFails(source) ==
  /\ disk[source] = Absent
  /\ manifest' = NoManifest
  /\ due' = {}
  /\ disturbed' = edited
  /\ stage' = "built"
  /\ loaded' = << >>
  /\ UNCHANGED <<disk, outside, edits, crashes, issues, plan, jobs, imports, edited, unread>>

Fingerprint ==
  /\ stage = "listing"
  /\ unread = {} /\ due # {}
  /\ LET source == NextInOrder(due) IN Digest(source) \/ DigestFails(source)

\* assess_collection_sharding reads the sources of the collected tests once more.
EligibleFiles ==
  {file \in FilesOf(Ids(loaded)) : disk[file] # Absent /\ Eligible(disk[file], loaded[file])}

\* trusted_collection_manifest_from_dict, and the refusal of issues.
Acceptable(made) ==
  /\ issues = {}
  /\ FilesOf(made.tests) \subseteq DOMAIN made.digests

Assess ==
  /\ stage = "assess"
  /\ LET made == [manifest EXCEPT !.tests = Ids(loaded), !.eligible = EligibleFiles]
     IN manifest' = IF Acceptable(made) THEN made ELSE NoManifest
  /\ disturbed' = edited
  /\ stage' = "built"
  /\ loaded' = << >>
  /\ UNCHANGED <<disk, outside, edits, crashes, issues, plan, jobs, imports, edited, listVars>>

\* verify_trusted_collection_manifest.
Verified ==
  /\ manifest # NoManifest
  /\ Inventory \subseteq DOMAIN manifest.digests
  /\ \A s \in DOMAIN manifest.digests : disk[s] = manifest.digests[s]

\* _verified_trusted_collection: the manifest, or else the ordinary collection.
Start ==
  /\ stage = "built"
  /\ edited' = {}
  /\ IF Verified
       THEN plan' = manifest /\ stage' = "dispatch"
       ELSE plan' = plan /\ stage' = "collect"
  /\ UNCHANGED <<disk, outside, edits, crashes, loaded, issues, manifest, jobs, imports, disturbed,
                 listVars>>

\* _discover_manifest, with the sharding policy.
AssessForRun ==
  /\ stage = "collected"
  /\ plan' = [digests |-> << >>, tests |-> Ids(loaded), eligible |-> EligibleFiles]
  /\ stage' = "dispatch"
  /\ loaded' = << >>
  /\ UNCHANGED <<disk, outside, edits, crashes, issues, manifest, jobs, imports, editVars, listVars>>

Trusted == plan.digests # << >>

-----------------------------------------------------------------------------
(***************************************************************************)
(* The workers.  A job is a worker process with the tests it was given.    *)
(***************************************************************************)
\* A plausible slip: only the file of the test itself is looked at.
OwnSourceOnly(file) == IF Trusted THEN {file} ELSE {}

\* _locator: the test's own file, and the files with a digest and without a test.
ExpectedSources(file) ==
  IF Trusted THEN {file} \cup (DOMAIN plan.digests \ FilesOf(plan.tests)) ELSE {}

Job(unit, retry) ==
  LET file == (CHOOSE t \in unit : TRUE)[1]
  IN [file |-> file, names |-> {t[2] : t \in unit}, retry |-> retry, stage |-> "checking",
      unchecked |-> ExpectedSources(file), read |-> << >>, edited |-> {}, results |-> << >>]

\* _execution_units: the tests of an eligible file are units of their own.
Units(tests, eligible) ==
  {{t} : t \in {u \in tests : u[1] \in eligible}}
    \cup {{t \in tests : t[1] = file} : file \in FilesOf(tests) \ eligible}

Dispatch ==
  /\ stage = "dispatch"
  /\ jobs' = {Job(unit, FALSE) : unit \in Units(plan.tests, plan.eligible)}
  /\ stage' = "running"
  /\ UNCHANGED <<disk, outside, edits, crashes, loaded, issues, manifest, plan, imports, editVars,
                 listVars>>

Become(job, next) ==
  /\ jobs' = (jobs \ {job}) \cup {next}
  /\ UNCHANGED <<disk, outside, edits, crashes, stage, loaded, issues, manifest, plan, editVars, listVars>>

\* _verify_locator_sources: one source after the other, in the order of their paths.
Check(job) ==
  /\ job.stage = "checking" /\ job.unchecked # {}
  /\ LET source == NextInOrder(job.unchecked)
     IN Become(job, IF disk[source] = plan.digests[source]
                    THEN [job EXCEPT !.unchecked = @ \ {source}]
                    ELSE [job EXCEPT !.stage = "refused", !.unchecked = {}])
  /\ UNCHANGED imports

\* discover_selected: the file is imported again, with whatever it holds now, and
\* the tests are looked up by their names.
Import(job) ==
  /\ job.stage = "checking" /\ job.unchecked = {}
  /\ IF disk[job.file] = Absent \/ ~CanBeImported(job.file)
       THEN Become(job, [job EXCEPT !.stage = "failed"]) /\ UNCHANGED imports
       ELSE LET module == Load(job.file)
                calls == imports[job.file] + module.effects
                found == job.names \subseteq TestNames(module)
                seen == ResultsOf(module, job.names)
            IN /\ imports' = [imports EXCEPT ![job.file] = calls]
               /\ Become(job, [job EXCEPT
                    !.stage = IF found THEN "running" ELSE "failed",
                    !.read = [s \in Reads(job.file) |-> disk[s]],
                    !.results = IF found
                                THEN [n \in job.names |-> [observed |-> seen[n], calls |-> calls]]
                                ELSE << >>])

Report(job) ==
  /\ job.stage = "running"
  /\ Become(job, [job EXCEPT !.stage = "done"])
  /\ UNCHANGED imports

\* The process ends before it has reported.
Lose(job) ==
  /\ crashes < MaxCrashes
  /\ job.stage \in {"checking", "running"}
  /\ crashes' = crashes + 1
  /\ jobs' = (jobs \ {job}) \cup {[job EXCEPT !.stage = "lost", !.unchecked = {}]}
  /\ UNCHANGED <<disk, outside, edits, stage, loaded, issues, manifest, plan, imports, editVars,
                 listVars>>

Ended(job) == job.stage \in {"done", "refused", "failed", "lost"}
ToRetry == {job \in jobs : job.stage # "done" /\ ~job.retry}

\* When all processes have ended, each test that has no result is given to a process
\* of its own, once (_should_retry, _execute_retry_attempts).
Retry ==
  /\ stage = "running"
  /\ \A job \in jobs : Ended(job)
  /\ ToRetry # {}
  /\ jobs' = (jobs \ ToRetry)
               \cup UNION {{Job({<<job.file, n>>}, TRUE) : n \in job.names} : job \in ToRetry}
  /\ UNCHANGED <<disk, outside, edits, crashes, stage, loaded, issues, manifest, plan, imports,
                 editVars, listVars>>

Over ==
  /\ stage = "running"
  /\ \A job \in jobs : Ended(job)
  /\ ToRetry = {}
  /\ stage' = "over"
  /\ UNCHANGED <<disk, outside, edits, crashes, loaded, issues, manifest, plan, jobs, imports,
                 editVars, listVars>>

-----------------------------------------------------------------------------
(***************************************************************************)
(* Everyone else: an editor of the sources, and the world outside.         *)
(***************************************************************************)
Contents(source) ==
  CASE source = First -> Edited
    [] source = Other -> {OtherModule, Absent}
    [] source = "helper" -> {<<0>>, <<1>>}
    [] source = "shadow" -> {<<1>>, Absent}

Edit ==
  /\ edits < MaxEdits
  /\ stage # "over"
  /\ edits' = edits + 1
  /\ \E s \in Sources : \E contents \in Contents(s) \ {disk[s]} :
       /\ disk' = [disk EXCEPT ![s] = contents]
       /\ edited' = edited \cup {s}
       /\ jobs' = {[job EXCEPT !.edited = IF job.stage = "checking" THEN @ \cup {s} ELSE @] :
                     job \in jobs}
  /\ UNCHANGED <<outside, crashes, stage, loaded, issues, manifest, plan, imports, disturbed, listVars>>

Turn ==
  /\ stage \in {"built", "dispatch"}
  /\ outside = "test"
  /\ outside' = "module"
  /\ UNCHANGED <<disk, edits, crashes, stage, loaded, issues, manifest, plan, jobs, imports, editVars,
                 listVars>>

Next ==
  \/ Discover
  \/ ListFiles \/ (\E file \in unread : ReadImports(file)) \/ Fingerprint \/ Assess
  \/ Start \/ AssessForRun \/ Dispatch
  \/ \E job \in jobs : Check(job) \/ Import(job) \/ Report(job) \/ Lose(job)
  \/ Retry \/ Over
  \/ Edit \/ Turn

Spec == Init /\ [][Next]_vars

-----------------------------------------------------------------------------
(***************************************************************************)
(* Properties.                                                             *)
(***************************************************************************)
\* In a run that trusts a manifest, what a worker imports is what the manifest was
\* made from, except for a source that was edited, or whose importer was, while that
\* very worker was checking: a worker that replaces a lost one looks for itself, and
\* looks at what its tests import as well.  Four kinds of file escape: one that is
\* found before a file with a digest, another test file that is imported, what only
\* that other file imports, now that it has been edited, and a file without a digest
\* because it, or its importer, was edited while the manifest was made, whose sources
\* are read once for their imports and once more for their digests
\* (build_trusted_collection_manifest, _verify_locator_sources,
\* _resolve_locators_in_worker).
ImportedByOthers(job) ==
  \E file \in (TestFiles \ {job.file}) \cap DOMAIN job.read : ImportsHelper(job.read[file])

ChangedCodeIsRefused ==
  Trusted =>
    \A job \in jobs : \A s \in DOMAIN job.read :
      \/ s \in DOMAIN plan.digests /\ job.read[s] = plan.digests[s]
      \/ {s, job.file} \cap job.edited # {}
      \/ s = "shadow"
      \/ s \in TestFiles \ {job.file}
      \/ /\ s \notin DOMAIN plan.digests
         /\ ImportedByOthers(job) \/ {s, job.file} \cap disturbed # {}

\* The results of a run in which each file has one process, and no manifest is used.
OrdinaryResults ==
  LET files == {f \in Inventory : CanBeImported(f)}
  IN [file \in files |->
        LET module == Load(file)
            seen == ResultsOf(module, TestNames(module))
        IN [n \in TestNames(module) |-> [observed |-> seen[n], calls |-> module.effects]]]

\* What speaks against relying on the results of a test file.
Unreliable(file) ==
  \/ Undetected(disk[file])
  \/ RenamedFixtureDecorator(disk[file])

\* If nothing is edited while the manifest is made or the run goes on, and nothing
\* stands in the way of the helper, a run has the tests and the results it would
\* have if it used no manifest and divided no file: what has changed between the
\* two is noticed, and tests are run apart only where they cannot tell.  Results of
\* a retry are those of a test alone (build_trusted_collection_manifest,
\* verify_trusted_collection_manifest, assess_collection_sharding, _run).
TrustedRunsAreOrdinaryRuns ==
  (stage = "over" /\ edited = {} /\ (Trusted => disturbed = {}) /\ disk["shadow"] = Absent) =>
    LET done == {job \in jobs : job.stage = "done"}
        ordinary == OrdinaryResults
    IN /\ \A file \in DOMAIN ordinary : \A n \in DOMAIN ordinary[file] :
            \E job \in jobs : job.file = file /\ n \in job.names
       /\ \A job \in jobs : job.stage \in {"done", "lost"}
       /\ \A job \in done : \A n \in job.names :
            /\ job.file \in DOMAIN ordinary /\ n \in DOMAIN ordinary[job.file]
            /\ \/ job.results[n] = ordinary[job.file][n]
               \/ job.retry /\ job.file \notin plan.eligible
               \/ Unreliable(job.file)

\* What docs/guides/parallelism.md says of a file that was added: the manifest is
\* stale, and a stale selection is not executed.
StaleSelectionsAreNotRun ==
  (stage = "over" /\ edited = {} /\ Trusted /\ disturbed = {}) =>
    plan.tests = UNION {{<<file, n>> : n \in DOMAIN OrdinaryResults[file]} :
                          file \in DOMAIN OrdinaryResults}
=============================================================================
