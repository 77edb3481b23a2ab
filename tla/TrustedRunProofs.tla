-------------------------- MODULE TrustedRunProofs --------------------------
(***************************************************************************)
(* What is proved of TrustedRun, for any modules the test files may hold,  *)
(* any edits and any number of lost workers: a run that believes a         *)
(* manifest imports no changed code, but for the kinds of file that the    *)
(* property names; and a run during which nothing is edited has the tests  *)
(* and the results of an ordinary one, whether it believes a manifest or   *)
(* not and however it divides the files.                                   *)
(*                                                                         *)
(* The second rests on what the static analysis is worth, which is proved  *)
(* of the interpreter of ShardingAnalysis by going through a module        *)
(* statement by statement, and through a process test by test.             *)
(***************************************************************************)
EXTENDS TrustedRun, TLAPS, WellFoundedInduction, NaturalsInduction

-----------------------------------------------------------------------------
(***************************************************************************)
(* The inductive invariant.                                                *)
(***************************************************************************)
\* The helper can be edited, but not removed.
DiskIsThere == DOMAIN disk = Sources /\ disk["helper"] # Absent

OnlyTestFilesAreLoaded == DOMAIN loaded \subseteq TestFiles

OnlySourcesAreListed == due \in SUBSET Sources

\* What a test file with a digest imports has a digest as well, unless one of the two
\* was edited while the digests were made.
Closed(digests, changed) ==
  \A file \in TestFiles \cap DOMAIN digests :
    ImportsHelper(digests[file]) /\ {file, "helper"} \cap changed = {} =>
      "helper" \in DOMAIN digests

\* A manifest that may be believed, which one without digests may not.
Sound(made, changed) ==
  /\ Closed(made.digests, changed)
  /\ FilesOf(made.tests) \subseteq TestFiles \cap DOMAIN made.digests

Before == {"discover", "fingerprint"}
Making == {"listing", "assess"}
HasJobs == {"running", "over"}

\* What a file that was read for its imports imports is listed, or has its digest by
\* now, and a digest is that of the source as it is: unless it was edited.
Listed == due \cup DOMAIN manifest.digests

ListingIsSound ==
  stage = "listing" =>
    /\ \A file \in (TestFiles \cap Listed) \ unread :
         ImportsHelper(disk[file]) /\ {file, "helper"} \cap edited = {} => "helper" \in Listed
    /\ \A s \in DOMAIN manifest.digests : manifest.digests[s] = disk[s] \/ s \in edited

ManifestIsSound ==
  /\ stage \in Before => manifest = NoManifest
  /\ stage \in Making =>
       manifest = [digests |-> manifest.digests, tests |-> {}, eligible |-> {}]
  /\ stage = "assess" => Closed(manifest.digests, edited)
  /\ stage \notin Before \cup Making => Sound(manifest, disturbed)

PlanIsSound ==
  /\ Trusted => Sound(plan, disturbed)
  /\ Trusted => stage \notin Before \cup Making

NobodyIsEarly == stage \notin HasJobs => jobs = {}

IsJob(job) ==
  job = [file |-> job.file, names |-> job.names, retry |-> job.retry, stage |-> job.stage,
         unchecked |-> job.unchecked, read |-> job.read, edited |-> job.edited,
         results |-> job.results]

\* While a worker checks, it has read nothing, and each source it is to look at
\* is still to be looked at, as it was, or was edited meanwhile.
Checks(job) ==
  job.stage = "checking" =>
    /\ job.read = << >>
    /\ \A s \in ExpectedSources(job.file) :
         \/ s \in job.unchecked
         \/ disk[s] = plan.digests[s]
         \/ s \in job.edited

\* The property, of one worker.
Refuses(job) ==
  \A s \in DOMAIN job.read :
    \/ s \in DOMAIN plan.digests /\ job.read[s] = plan.digests[s]
    \/ {s, job.file} \cap job.edited # {}
    \/ s = "shadow"
    \/ s \in TestFiles \ {job.file}
    \/ /\ s \notin DOMAIN plan.digests
       /\ ImportedByOthers(job) \/ {s, job.file} \cap disturbed # {}

JobIsSound(job) ==
  /\ IsJob(job)
  /\ job.file \in FilesOf(plan.tests)
  /\ Trusted => Checks(job) /\ Refuses(job)

JobsAreSound == \A job \in jobs : JobIsSound(job)

Inv ==
  /\ DiskIsThere /\ OnlyTestFilesAreLoaded /\ OnlySourcesAreListed
  /\ ListingIsSound /\ ManifestIsSound /\ PlanIsSound
  /\ NobodyIsEarly /\ JobsAreSound


-----------------------------------------------------------------------------
(***************************************************************************)
(* The manifest and the plan.                                              *)
(***************************************************************************)
\* Init: there is nothing yet.
LEMMA InitHolds ==
  ASSUME Init
  PROVE  Inv
<1>1. DiskIsThere
  <2>1. PICK f \in Modules, g \in {OtherModule, Absent} :
          disk = [test_f |-> f, test_g |-> g, helper |-> <<0>>, shadow |-> Absent]
    BY DEF Init
  <2> QED BY <2>1 DEF DiskIsThere, Sources, TestFiles, First, Other, Absent
<1>2. Closed(<< >>, {})
  BY DEF Closed
<1>3. ~Trusted
  BY DEF Init, NoManifest, Trusted
<1> QED
  BY <1>1, <1>2, <1>3
  DEF Init, Inv, OnlyTestFilesAreLoaded, OnlySourcesAreListed, ListingIsSound, ManifestIsSound,
      PlanIsSound, NobodyIsEarly, JobsAreSound, Before, Making, HasJobs

\* Nothing is a manifest, and one that is sound.
LEMMA NothingIsSound ==
  ASSUME NEW changed
  PROVE  Sound(NoManifest, changed)
  BY DEF Sound, NoManifest, Closed, FilesOf

\* Tests are those of the files that are loaded.
LEMMA TestsAreOfFiles ==
  ASSUME NEW modules
  PROVE  FilesOf(Ids(modules)) \subseteq DOMAIN modules
  BY DEF FilesOf, Ids

\* _discover: what is loaded is a test file.
LEMMA DiscoverHolds ==
  ASSUME Inv, Discover
  PROVE  Inv'
<1>1. OnlyTestFilesAreLoaded'
  BY DEF Discover, OnlyTestFilesAreLoaded, Inventory, Present
<1>2. ManifestIsSound'
  BY DEF Inv, Discover, ManifestIsSound, Before, Making, editVars
<1>3. NobodyIsEarly'
  BY DEF Inv, Discover, NobodyIsEarly, HasJobs
<1>4. JobsAreSound'
  BY DEF Inv, Discover, NobodyIsEarly, HasJobs, JobsAreSound
<1>5. ListingIsSound' /\ PlanIsSound'
  BY DEF Inv, Discover, ListingIsSound, PlanIsSound, Trusted, Before, Making, editVars
<1> QED
  BY <1>1, <1>2, <1>3, <1>4, <1>5 DEF Inv, Discover, DiskIsThere, OnlySourcesAreListed,
      listVars

\* enumerate_test_files: nothing is read, and nothing has a digest.
LEMMA ListFilesHolds ==
  ASSUME Inv, ListFiles
  PROVE  Inv'
<1>1. manifest = NoManifest /\ UNCHANGED <<manifest, editVars, disk, plan>> /\ stage' = "listing"
  BY DEF Inv, ListFiles, ManifestIsSound, Before
<1>2. ListingIsSound' /\ ManifestIsSound'
  BY <1>1 DEF ListFiles, ListingIsSound, Listed, ManifestIsSound, Before, Making, NoManifest
<1>3. PlanIsSound'
  BY <1>1 DEF Inv, ListFiles, PlanIsSound, Trusted, Before, Making, editVars
<1>4. NobodyIsEarly' /\ JobsAreSound'
  BY DEF Inv, ListFiles, NobodyIsEarly, HasJobs, JobsAreSound
<1> QED
  BY <1>2, <1>3, <1>4
  DEF Inv, ListFiles, DiskIsThere, OnlyTestFilesAreLoaded, OnlySourcesAreListed, Inventory, Present,
      Sources

\* _local_import_dependencies: the helper is there, and listed for each file that
\* imports it.
LEMMA ReadImportsHolds ==
  ASSUME Inv, NEW file, ReadImports(file)
  PROVE  Inv'
<1>1. ListingIsSound'
  <2>1. "helper" \in Present({"helper", "shadow"})
    BY DEF Inv, DiskIsThere, Present
  <2>2. ImportsHelper(disk[file]) => "helper" \in due'
    BY <2>1 DEF ReadImports, Dependencies
  <2>3. Dependencies(file) \cap TestFiles = {}
    BY DEF Dependencies, Present, TestFiles, First, Other
  <2>4. TestFiles \cap Listed' = TestFiles \cap Listed /\ Listed \subseteq Listed'
    BY <2>3 DEF Listed, ReadImports
  <2>5. stage = "listing" /\ unread' = unread \ {file} /\ UNCHANGED <<disk, edited, manifest>>
    BY DEF ReadImports, editVars
  <2>6. "helper" \in due' => "helper" \in Listed'
    BY DEF Listed
  <2> QED
    BY <2>2, <2>4, <2>5, <2>6 DEF Inv, ListingIsSound
<1>2. ManifestIsSound' /\ PlanIsSound'
  BY DEF Inv, ReadImports, ManifestIsSound, PlanIsSound, Trusted, Before, Making, editVars
<1>3. NobodyIsEarly' /\ JobsAreSound'
  BY DEF Inv, ReadImports, NobodyIsEarly, HasJobs, JobsAreSound
<1> QED
  BY <1>1, <1>2, <1>3
  DEF Inv, ReadImports, DiskIsThere, OnlyTestFilesAreLoaded, OnlySourcesAreListed, Dependencies,
      Present, Sources

\* The next of some sources is one of them.
LEMMA NextIsDue ==
  ASSUME NEW sources \in SUBSET Sources, sources # {}
  PROVE  NextInOrder(sources) \in sources
<1>1. \E s \in sources : \A u \in sources : SourceOrder[s] <= SourceOrder[u]
  BY DEF Sources, SourceOrder, TestFiles, First, Other
<1> QED BY <1>1 DEF NextInOrder

\* _hash_source: one more digest.
LEMMA DigestHolds ==
  ASSUME Inv, stage = "listing", unread = {}, NEW source \in due, Digest(source)
  PROVE  Inv'
<1> PICK before : before = manifest.digests
  OBVIOUS
<1> PICK after : after = [s \in DOMAIN before \cup {source} |->
                           IF s = source THEN disk[s] ELSE before[s]]
  OBVIOUS
<1>1. manifest' = [digests |-> after, tests |-> {}, eligible |-> {}]
  <2>1. manifest = [digests |-> before, tests |-> {}, eligible |-> {}]
    BY DEF Inv, ManifestIsSound, Making
  <2>2. manifest' = [manifest EXCEPT !.digests = after]
    BY DEF Digest
  <2> QED BY <2>1, <2>2
<1>2. /\ due' = due \ {source} /\ stage' = IF due = {source} THEN "assess" ELSE stage
      /\ UNCHANGED <<disk, edited, disturbed, unread, plan, loaded, jobs>>
  BY DEF Digest, editVars
<1>3. Listed' = Listed
  BY <1>1, <1>2 DEF Listed
<1>4. \A s \in DOMAIN after : after[s] = disk[s] \/ s \in edited
  BY DEF Inv, ListingIsSound
<1>5. \A file \in TestFiles \cap Listed :
        ImportsHelper(disk[file]) /\ {file, "helper"} \cap edited = {} => "helper" \in Listed
  BY DEF Inv, ListingIsSound
<1>6. ListingIsSound'
  BY <1>1, <1>2, <1>3, <1>4, <1>5 DEF ListingIsSound
<1>7. stage' = "assess" => Closed(after, edited)
  <2> SUFFICES ASSUME stage' = "assess" PROVE Closed(after, edited)
    OBVIOUS
  <2>1. DOMAIN after = Listed
    BY <1>2 DEF Listed
  <2> QED BY <1>4, <1>5, <2>1 DEF Closed
<1>8. ManifestIsSound'
  BY <1>1, <1>2, <1>7 DEF ManifestIsSound, Before, Making, Closed
<1>9. PlanIsSound'
  BY <1>2 DEF Inv, PlanIsSound, Trusted, Before, Making
<1>10. NobodyIsEarly' /\ JobsAreSound'
  BY <1>2 DEF Inv, NobodyIsEarly, HasJobs, JobsAreSound
<1> QED
  BY <1>2, <1>6, <1>8, <1>9, <1>10
  DEF Inv, DiskIsThere, OnlyTestFilesAreLoaded, OnlySourcesAreListed

\* A source is gone: there is no manifest.
LEMMA DigestFailsHolds ==
  ASSUME Inv, stage = "listing", NEW source, DigestFails(source)
  PROVE  Inv'
<1>1. /\ manifest' = NoManifest /\ stage' = "built" /\ loaded' = << >>
      /\ UNCHANGED <<disk, plan, jobs>>
  BY DEF DigestFails
<1>2. Sound(manifest', disturbed')
  BY <1>1, NothingIsSound
<1>3. ListingIsSound' /\ ManifestIsSound'
  BY <1>1, <1>2 DEF ListingIsSound, ManifestIsSound, Before, Making, Sound
<1>4. ~Trusted /\ ~Trusted'
  BY <1>1 DEF Inv, PlanIsSound, Trusted, Before, Making
<1>5. NobodyIsEarly' /\ JobsAreSound'
  BY <1>1 DEF Inv, NobodyIsEarly, HasJobs, JobsAreSound
<1> QED
  BY <1>1, <1>3, <1>4, <1>5
  DEF Inv, DiskIsThere, OnlyTestFilesAreLoaded, OnlySourcesAreListed, PlanIsSound, DigestFails

LEMMA FingerprintHolds ==
  ASSUME Inv, Fingerprint
  PROVE  Inv'
<1>1. PICK source : /\ source = NextInOrder(due)
                    /\ Digest(source) \/ DigestFails(source)
  BY DEF Fingerprint
<1>2. CASE DigestFails(source)
  BY <1>2, DigestFailsHolds DEF Fingerprint
<1>3. CASE Digest(source)
  <2>1. source \in due
    BY <1>1, NextIsDue DEF Inv, OnlySourcesAreListed, Fingerprint
  <2> QED BY <1>3, <2>1, DigestHolds DEF Fingerprint
<1> QED BY <1>1, <1>2, <1>3

\* build_trusted_collection_manifest: a manifest whose tests have no digests is
\* not accepted.
LEMMA AssessHolds ==
  ASSUME Inv, Assess
  PROVE  Inv'
<1>1. ManifestIsSound'
  <2> PICK digests, tests, eligible :
        digests = manifest.digests /\ tests = Ids(loaded) /\ eligible = EligibleFiles
    OBVIOUS
  <2> DEFINE made == [digests |-> digests, tests |-> tests, eligible |-> eligible]
  <2>1. manifest' = IF Acceptable(made) THEN made ELSE NoManifest
    <3>1. manifest = [digests |-> digests, tests |-> {}, eligible |-> {}]
      BY DEF Inv, Assess, ManifestIsSound, Making
    <3>2. PICK filled : filled = [manifest EXCEPT !.tests = tests, !.eligible = eligible]
      OBVIOUS
    <3>3. filled = made
      BY <3>1, <3>2
    <3> QED BY <3>2, <3>3 DEF Assess
  <2>2. Closed(made.digests, edited) /\ FilesOf(made.tests) \subseteq TestFiles
    BY TestsAreOfFiles DEF Inv, Assess, ManifestIsSound, OnlyTestFilesAreLoaded
  <2>3. Acceptable(made) => Sound(made, edited)
    BY <2>2 DEF Acceptable, Sound
  <2>4. /\ manifest' \in {made, NoManifest}
        /\ manifest' = made => Sound(made, edited) \/ made = NoManifest
    BY <2>1, <2>3
  <2>5. Sound(manifest', disturbed')
    BY <2>4, NothingIsSound DEF Assess
  <2> QED
    BY <2>5 DEF Assess, ManifestIsSound, Before, Making, Sound
<1>2. NobodyIsEarly'
  BY DEF Inv, Assess, NobodyIsEarly, HasJobs
<1>3. JobsAreSound'
  BY DEF Inv, Assess, NobodyIsEarly, HasJobs, JobsAreSound
<1>4. OnlyTestFilesAreLoaded' /\ ListingIsSound'
  BY DEF Assess, OnlyTestFilesAreLoaded, ListingIsSound
<1>5. PlanIsSound'
  BY DEF Inv, Assess, PlanIsSound, Trusted, Before, Making
<1> QED
  BY <1>1, <1>2, <1>3, <1>4, <1>5 DEF Inv, Assess, DiskIsThere, OnlySourcesAreListed,
      listVars

\* _verified_trusted_collection: the plan is the manifest.
LEMMA StartHolds ==
  ASSUME Inv, Start
  PROVE  Inv'
<1>1. ManifestIsSound'
  BY DEF Inv, Start, ManifestIsSound, Before, Making, Sound
<1>2. PlanIsSound'
  <2>1. Sound(manifest, disturbed) /\ disturbed' = disturbed
        /\ stage' \notin Before \cup Making
    BY DEF Inv, Start, ManifestIsSound, Before, Making
  <2>2. plan' = manifest \/ plan' = plan
    BY DEF Start
  <2>3. CASE plan' = manifest
    BY <2>1, <2>3 DEF PlanIsSound, Sound
  <2>4. CASE plan' = plan
    BY <2>1, <2>4 DEF Inv, PlanIsSound, Sound, Trusted
  <2> QED BY <2>2, <2>3, <2>4
<1>3. NobodyIsEarly'
  BY DEF Inv, Start, NobodyIsEarly, HasJobs
<1>4. JobsAreSound'
  BY DEF Inv, Start, NobodyIsEarly, HasJobs, JobsAreSound
<1> QED
  BY <1>1, <1>2, <1>3, <1>4
  DEF Inv, Start, DiskIsThere, OnlyTestFilesAreLoaded, ListingIsSound, OnlySourcesAreListed,
      listVars

\* _discover_manifest: without a manifest nothing is trusted.
LEMMA AssessForRunHolds ==
  ASSUME Inv, AssessForRun
  PROVE  Inv'
<1>1. ~Trusted'
  BY DEF AssessForRun, Trusted
<1>2. ManifestIsSound'
  BY DEF Inv, AssessForRun, ManifestIsSound, Before, Making, Sound, editVars
<1>3. NobodyIsEarly'
  BY DEF Inv, AssessForRun, NobodyIsEarly, HasJobs
<1>4. JobsAreSound'
  BY DEF Inv, AssessForRun, NobodyIsEarly, HasJobs, JobsAreSound
<1>5. OnlyTestFilesAreLoaded'
  BY DEF AssessForRun, OnlyTestFilesAreLoaded
<1> QED
  BY <1>1, <1>2, <1>3, <1>4, <1>5
  DEF Inv, AssessForRun, DiskIsThere, PlanIsSound, ListingIsSound, OnlySourcesAreListed,
      listVars

-----------------------------------------------------------------------------
(***************************************************************************)
(* The workers.                                                            *)
(***************************************************************************)
\* What does not change while there are workers, and where the workers are.
LEMMA WorkersHold ==
  ASSUME Inv, stage \in HasJobs, stage' \in HasJobs,
         UNCHANGED <<disk, loaded, manifest, plan, editVars, listVars>>, JobsAreSound'
  PROVE  Inv'
<1>1. ManifestIsSound' /\ ListingIsSound'
  BY DEF Inv, ManifestIsSound, ListingIsSound, Before, Making, HasJobs, Sound, editVars
<1>2. NobodyIsEarly'
  BY DEF NobodyIsEarly
<1> QED
  BY <1>1, <1>2
  DEF Inv, DiskIsThere, OnlyTestFilesAreLoaded, OnlySourcesAreListed, PlanIsSound, Trusted, Before,
      Making, HasJobs, editVars, listVars

\* The soundness of a worker depends on nothing but the worker, the disk and the plan.
LEMMA SoundnessLasts ==
  ASSUME UNCHANGED <<disk, plan, disturbed>>, NEW job, JobIsSound(job)
  PROVE  JobIsSound(job)'
  BY DEF JobIsSound, IsJob, Checks, Refuses, Trusted, ExpectedSources, ImportedByOthers

\* _locator: a new worker has everything to look at.
LEMMA NewJobsAreSound ==
  ASSUME NEW unit, NEW retry, NEW file \in FilesOf(plan.tests), unit # {},
         \A t \in unit : t[1] = file
  PROVE  JobIsSound(Job(unit, retry))
<1> PICK job : job = Job(unit, retry)
  OBVIOUS
<1>1. (CHOOSE t \in unit : TRUE)[1] = file
  OBVIOUS
<1>2. job = [file |-> file, names |-> {t[2] : t \in unit}, retry |-> retry, stage |-> "checking",
             unchecked |-> ExpectedSources(file), read |-> << >>, edited |-> {},
             results |-> << >>]
  BY <1>1 DEF Job
<1>3. IsJob(job) /\ job.file = file
  BY <1>2 DEF IsJob
<1>4. Checks(job)
  BY <1>2 DEF Checks
<1>5. DOMAIN job.read = {}
  BY <1>2
<1>6. Refuses(job)
  BY <1>5 DEF Refuses
<1> QED BY <1>3, <1>4, <1>6 DEF JobIsSound

\* _execution_units: a unit has tests of one file.
LEMMA UnitsAreOfOneFile ==
  ASSUME NEW tests, NEW eligible, NEW unit \in Units(tests, eligible)
  PROVE  \E file \in FilesOf(tests) : unit # {} /\ \A t \in unit : t[1] = file
<1>1. CASE unit \in {{t} : t \in {u \in tests : u[1] \in eligible}}
  BY <1>1 DEF FilesOf
<1>2. CASE unit \in {{t \in tests : t[1] = file} : file \in FilesOf(tests) \ eligible}
  BY <1>2 DEF FilesOf
<1> QED BY <1>1, <1>2 DEF Units

LEMMA DispatchHolds ==
  ASSUME Inv, Dispatch
  PROVE  Inv'
<1>1. JobsAreSound'
  <2> SUFFICES ASSUME NEW job \in jobs' PROVE JobIsSound(job)'
    BY DEF JobsAreSound
  <2>1. PICK unit \in Units(plan.tests, plan.eligible) : job = Job(unit, FALSE)
    BY DEF Dispatch
  <2>2. JobIsSound(job)
    BY <2>1, UnitsAreOfOneFile, NewJobsAreSound
  <2> QED BY <2>2, SoundnessLasts DEF Dispatch, editVars
<1>2. ManifestIsSound'
  BY DEF Inv, Dispatch, ManifestIsSound, Before, Making, Sound, editVars
<1>3. NobodyIsEarly'
  BY DEF Dispatch, NobodyIsEarly, HasJobs
<1> QED
  BY <1>1, <1>2, <1>3
  DEF Inv, Dispatch, DiskIsThere, OnlyTestFilesAreLoaded, OnlySourcesAreListed, ListingIsSound,
      PlanIsSound, Trusted, Before, Making, editVars, listVars


\* A step of one worker, which leaves it sound.
LEMMA BecomeHolds ==
  ASSUME Inv, NEW job \in jobs, NEW next, JobIsSound(next),
         jobs' = (jobs \ {job}) \cup {next},
         UNCHANGED <<disk, stage, loaded, manifest, plan, editVars, listVars>>
  PROVE  Inv'
<1>1. stage \in HasJobs
  BY DEF Inv, NobodyIsEarly
<1>2. JobsAreSound'
  <2> SUFFICES ASSUME NEW other \in jobs' PROVE JobIsSound(other)'
    BY DEF JobsAreSound
  <2>1. other \in jobs \/ other = next
    OBVIOUS
  <2>2. JobIsSound(other)
    BY <2>1 DEF Inv, JobsAreSound
  <2> QED BY <2>2, SoundnessLasts DEF editVars
<1> QED BY <1>1, <1>2, WorkersHold

\* A worker that has stopped checking, and has not read anything since.
LEMMA StoppedIsSound ==
  ASSUME NEW job, JobIsSound(job), NEW next,
         IsJob(next), next.file = job.file, next.read = job.read, next.edited = job.edited,
         next.stage # "checking"
  PROVE  JobIsSound(next)
<1>1. Checks(next)
  BY DEF Checks
<1>2. Refuses(job) => Refuses(next)
  BY DEF Refuses, ImportedByOthers
<1> QED BY <1>1, <1>2 DEF JobIsSound

\* _verify_locator_sources: a source that is as it was need not be looked at again.
LEMMA CheckHolds ==
  ASSUME Inv, NEW job \in jobs, Check(job)
  PROVE  Inv'
<1>1. JobIsSound(job)
  BY DEF Inv, JobsAreSound
<1> PICK source : source = NextInOrder(job.unchecked)
  OBVIOUS
<1>2. CASE disk[source] = plan.digests[source]
  <2> PICK next : next = [job EXCEPT !.unchecked = @ \ {source}]
    OBVIOUS
  <2>1. /\ IsJob(next)
        /\ next.file = job.file /\ next.stage = "checking" /\ next.read = job.read
        /\ next.edited = job.edited /\ next.unchecked = job.unchecked \ {source}
    BY <1>1 DEF JobIsSound, IsJob, Check
  <2>2. Trusted => Checks(next)
    <3> SUFFICES ASSUME Trusted PROVE Checks(next)
      OBVIOUS
    <3>1. Checks(job)
      BY <1>1 DEF JobIsSound
    <3> QED BY <1>2, <2>1, <3>1 DEF Checks, Check
  <2>3. Trusted => Refuses(next)
    BY <1>1, <2>1 DEF JobIsSound, Refuses, ImportedByOthers
  <2>4. JobIsSound(next)
    BY <1>1, <2>1, <2>2, <2>3 DEF JobIsSound
  <2>5. Become(job, next)
    BY <1>2 DEF Check
  <2> QED BY <2>4, <2>5, BecomeHolds DEF Become
<1>3. CASE disk[source] # plan.digests[source]
  <2> PICK next : next = [job EXCEPT !.stage = "refused", !.unchecked = {}]
    OBVIOUS
  <2>1. /\ IsJob(next)
        /\ next.file = job.file /\ next.stage = "refused" /\ next.read = job.read
        /\ next.edited = job.edited
    BY <1>1 DEF JobIsSound, IsJob
  <2>2. JobIsSound(next)
    BY <1>1, <2>1, StoppedIsSound
  <2>3. Become(job, next)
    BY <1>3 DEF Check
  <2> QED BY <2>2, <2>3, BecomeHolds DEF Become
<1> QED BY <1>2, <1>3

\* What a test of the file may read as another: the other test file.
LEMMA OthersAreTestFiles ==
  ASSUME NEW file \in TestFiles
  PROVE  file \in TestFilesRead(file) /\ TestFilesRead(file) \subseteq TestFiles
  BY DEF TestFilesRead, Present, TestFiles

\* _resolve_locators_in_worker: a worker that has looked at everything reads it as
\* it was, unless it was edited since it looked.  The helper has a digest if the
\* file, as it was, imports it.
LEMMA ReadersRefuse ==
  ASSUME Trusted, Sound(plan, disturbed), NEW job, JobIsSound(job),
         job.stage = "checking", job.unchecked = {},
         NEW next, next.file = job.file, next.edited = job.edited,
         next.read = [s \in Reads(job.file) |-> disk[s]]
  PROVE  Refuses(next)
<1> DEFINE file == job.file
<1>1. file \in TestFiles /\ file \in DOMAIN plan.digests
  BY DEF JobIsSound, Sound
<1>2. \A s \in ExpectedSources(file) : disk[s] = plan.digests[s] \/ s \in job.edited
  BY DEF JobIsSound, Checks
<1>3. file \in ExpectedSources(file)
  BY DEF ExpectedSources
<1>4. DOMAIN next.read = Reads(file) /\ \A s \in Reads(file) : next.read[s] = disk[s]
  OBVIOUS
<1> SUFFICES ASSUME NEW s \in Reads(file)
             PROVE  \/ s \in DOMAIN plan.digests /\ disk[s] = plan.digests[s]
                    \/ {s, file} \cap job.edited # {}
                    \/ s = "shadow"
                    \/ s \in TestFiles \ {file}
                    \/ /\ s \notin DOMAIN plan.digests
                       /\ ImportedByOthers(next) \/ {s, file} \cap disturbed # {}
  BY <1>4 DEF Refuses
<1>5. CASE s \in TestFilesRead(file)
  <2>1. s = file \/ s \in TestFiles \ {file}
    BY <1>1, <1>5, OthersAreTestFiles
  <2> QED BY <1>1, <1>2, <1>3, <2>1
<1>6. CASE s = HelperFile /\ \E f \in TestFilesRead(file) : ImportsHelper(disk[f])
  <2>1. s = "shadow" \/ s = "helper"
    BY <1>6 DEF HelperFile
  <2>2. CASE s = "shadow"
    BY <2>2
  <2>3. CASE s = "helper" /\ s \in DOMAIN plan.digests
    <3>1. s \in ExpectedSources(file)
      BY <2>3 DEF ExpectedSources, Sound, TestFiles, First, Other
    <3> QED BY <1>2, <2>3, <3>1
  <2>4. CASE s = "helper" /\ s \notin DOMAIN plan.digests
    <3> PICK f \in TestFilesRead(file) : ImportsHelper(disk[f])
      BY <1>6
    <3>1. CASE f = file
      <4>1. disk[file] # plan.digests[file] \/ {s, file} \cap disturbed # {}
        BY <1>1, <2>4, <3>1 DEF Sound, Closed
      <4> QED BY <1>2, <1>3, <2>4, <4>1
    <3>2. CASE f # file
      <4>1. f \in TestFiles \ {file}
        BY <1>1, <3>2, OthersAreTestFiles
      <4>2. f \in DOMAIN next.read /\ ImportsHelper(next.read[f])
        BY <1>4 DEF Reads
      <4>3. ImportedByOthers(next)
        BY <4>1, <4>2 DEF ImportedByOthers
      <4> QED BY <2>4, <4>3
    <3> QED BY <3>1, <3>2
  <2> QED BY <2>1, <2>2, <2>3, <2>4
<1> QED BY <1>5, <1>6 DEF Reads


\* discover_selected: a worker whose file is not there, or cannot be imported, has
\* read nothing.
LEMMA ImportHolds ==
  ASSUME Inv, NEW job \in jobs, Import(job)
  PROVE  Inv'
<1>1. JobIsSound(job)
  BY DEF Inv, JobsAreSound
<1>2. CASE disk[job.file] = Absent \/ ~CanBeImported(job.file)
  <2> PICK next : next = [job EXCEPT !.stage = "failed"]
    OBVIOUS
  <2>1. /\ IsJob(next)
        /\ next.file = job.file /\ next.stage = "failed" /\ next.read = job.read
        /\ next.edited = job.edited
    BY <1>1 DEF JobIsSound, IsJob
  <2>2. JobIsSound(next)
    BY <1>1, <2>1, StoppedIsSound
  <2>3. Become(job, next)
    BY <1>2 DEF Import
  <2> QED BY <2>2, <2>3, BecomeHolds DEF Become
<1>3. CASE ~(disk[job.file] = Absent \/ ~CanBeImported(job.file))
  <2> DEFINE module == Load(job.file)
             found == job.names \subseteq TestNames(module)
             results == IF found
                        THEN [n \in job.names |->
                                [observed |-> ResultsOf(module, job.names)[n],
                                 calls |-> imports[job.file] + module.effects]]
                        ELSE << >>
  <2> PICK after, read, shown :
        /\ after = IF found THEN "running" ELSE "failed"
        /\ read = [s \in Reads(job.file) |-> disk[s]]
        /\ shown = results
    OBVIOUS
  <2> PICK next : next = [job EXCEPT !.stage = after, !.read = read, !.results = shown]
    OBVIOUS
  <2>4. Become(job, next)
    BY <1>3 DEF Import
  <2>1. /\ IsJob(next)
        /\ next.file = job.file /\ next.stage = after /\ next.read = read
        /\ next.edited = job.edited
    BY <1>1 DEF JobIsSound, IsJob
  <2>2. Trusted => Refuses(next)
    <3> SUFFICES ASSUME Trusted PROVE Refuses(next)
      OBVIOUS
    <3>1. Sound(plan, disturbed)
      BY DEF Inv, PlanIsSound
    <3>2. job.stage = "checking" /\ job.unchecked = {}
      BY DEF Import
    <3> QED BY <1>1, <2>1, <3>1, <3>2, ReadersRefuse
  <2>3. JobIsSound(next)
    BY <1>1, <2>1, <2>2 DEF JobIsSound, Checks
  <2> QED BY <2>3, <2>4, BecomeHolds DEF Become
<1> QED BY <1>2, <1>3

\* A worker reports what it has done.
LEMMA ReportHolds ==
  ASSUME Inv, NEW job \in jobs, Report(job)
  PROVE  Inv'
<1>1. JobIsSound(job)
  BY DEF Inv, JobsAreSound
<1> PICK next : next = [job EXCEPT !.stage = "done"]
  OBVIOUS
<1>2. /\ IsJob(next)
      /\ next.file = job.file /\ next.stage = "done" /\ next.read = job.read
      /\ next.edited = job.edited
  BY <1>1 DEF JobIsSound, IsJob
<1>3. JobIsSound(next)
  BY <1>1, <1>2, StoppedIsSound
<1> QED BY <1>3, BecomeHolds DEF Report, Become

\* A worker is lost.
LEMMA LoseHolds ==
  ASSUME Inv, NEW job \in jobs, Lose(job)
  PROVE  Inv'
<1>1. JobIsSound(job)
  BY DEF Inv, JobsAreSound
<1> PICK next : next = [job EXCEPT !.stage = "lost", !.unchecked = {}]
  OBVIOUS
<1>2. /\ IsJob(next)
      /\ next.file = job.file /\ next.stage = "lost" /\ next.read = job.read
      /\ next.edited = job.edited
  BY <1>1 DEF JobIsSound, IsJob
<1>3. JobIsSound(next)
  BY <1>1, <1>2, StoppedIsSound
<1> QED BY <1>3, BecomeHolds DEF Lose

\* _execute_retry_attempts: a test that is tried again is checked again.
LEMMA RetryHolds ==
  ASSUME Inv, Retry
  PROVE  Inv'
<1>1. JobsAreSound'
  <2> SUFFICES ASSUME NEW job \in jobs' PROVE JobIsSound(job)'
    BY DEF JobsAreSound
  <2>1. CASE job \in jobs
    BY <2>1, SoundnessLasts DEF Inv, JobsAreSound, Retry, editVars
  <2>2. CASE job \notin jobs
    <3>1. PICK old \in ToRetry : \E n \in old.names : job = Job({<<old.file, n>>}, TRUE)
      BY <2>2 DEF Retry
    <3> PICK n \in old.names : job = Job({<<old.file, n>>}, TRUE)
      BY <3>1
    <3>2. old.file \in FilesOf(plan.tests)
      BY DEF Inv, JobsAreSound, JobIsSound, ToRetry
    <3> PICK unit : unit = {<<old.file, n>>}
      OBVIOUS
    <3>3. unit # {} /\ \A t \in unit : t[1] = old.file
      OBVIOUS
    <3>4. JobIsSound(Job(unit, TRUE))
      BY <3>2, <3>3, NewJobsAreSound
    <3>5. JobIsSound(job)
      BY <3>4
    <3> QED BY <3>5, SoundnessLasts DEF Retry, editVars
  <2> QED BY <2>1, <2>2
<1> QED BY <1>1, WorkersHold DEF Retry, HasJobs

LEMMA OverHolds ==
  ASSUME Inv, Over
  PROVE  Inv'
<1>1. JobsAreSound'
  BY SoundnessLasts DEF Inv, JobsAreSound, Over, editVars
<1> QED BY <1>1, WorkersHold DEF Over, HasJobs

-----------------------------------------------------------------------------
(***************************************************************************)
(* Everyone else.                                                          *)
(***************************************************************************)
\* An edit is noted by the workers that still check.
LEMMA EditHolds ==
  ASSUME Inv, Edit
  PROVE  Inv'
<1> DEFINE NotedBy(source) ==
             {[job EXCEPT !.edited =
                 IF job.stage = "checking" THEN @ \cup {source} ELSE @] : job \in jobs}
<1>0. PICK source \in Sources :
        /\ \E contents \in Contents(source) : disk' = [disk EXCEPT ![source] = contents]
        /\ edited' = edited \cup {source}
        /\ jobs' = NotedBy(source)
  BY DEF Edit
<1>1. PICK contents \in Contents(source) : disk' = [disk EXCEPT ![source] = contents]
  BY <1>0
<1>2. DiskIsThere'
  <2>1. contents # Absent \/ source # "helper"
    BY <1>1 DEF Contents, First, Other, Absent
  <2> QED BY <1>1, <2>1 DEF Inv, DiskIsThere
<1>3. JobsAreSound'
  <2> SUFFICES ASSUME NEW next \in jobs' PROVE JobIsSound(next)'
    BY DEF JobsAreSound
  <2>1. PICK job \in jobs :
          next = [job EXCEPT !.edited = IF job.stage = "checking" THEN @ \cup {source} ELSE @]
    BY <1>0
  <2>2. JobIsSound(job)
    BY DEF Inv, JobsAreSound
  <2>3. /\ IsJob(next)
        /\ next.file = job.file /\ next.stage = job.stage /\ next.read = job.read
        /\ next.unchecked = job.unchecked /\ job.edited \subseteq next.edited
        /\ job.stage = "checking" => source \in next.edited
    BY <2>1, <2>2 DEF JobIsSound, IsJob
  <2>4. Refuses(job) => Refuses(next)'
    BY <2>3 DEF Refuses, ImportedByOthers, Edit
  <2>5. \A s \in Sources \ {source} : disk'[s] = disk[s]
    BY <1>1 DEF Inv, DiskIsThere
  <2>6. Trusted /\ Checks(job) => Checks(next)'
    <3> SUFFICES ASSUME Trusted, Checks(job), job.stage = "checking",
                        NEW s \in ExpectedSources(job.file), s \notin job.unchecked,
                        s \notin next.edited
                 PROVE  disk'[s] = plan.digests[s]
      BY <2>3 DEF Checks, ExpectedSources, Trusted, Edit
    <3>1. disk[s] = plan.digests[s] /\ s # source
      BY <2>3 DEF Checks
    <3>2. disk'[s] = disk[s]
      BY <1>1, <3>1 DEF Inv, DiskIsThere
    <3> QED BY <3>1, <3>2
  <2> QED BY <2>2, <2>3, <2>4, <2>6 DEF JobIsSound, IsJob, Trusted, Edit
<1>4. NobodyIsEarly'
  BY <1>1 DEF Inv, NobodyIsEarly, Edit
<1>5. /\ edited' = edited \cup {source}
      /\ UNCHANGED <<stage, loaded, manifest, plan, disturbed, unread, due>>
  BY <1>0 DEF Edit, listVars
<1>6. ManifestIsSound' /\ PlanIsSound' /\ OnlyTestFilesAreLoaded' /\ OnlySourcesAreListed'
  BY <1>5
  DEF Inv, ManifestIsSound, PlanIsSound, OnlyTestFilesAreLoaded, OnlySourcesAreListed, Trusted,
     Sound, Closed
<1>7. ListingIsSound'
  <2>1. \A s \in Sources \ {source} : disk'[s] = disk[s]
    BY <1>1 DEF Inv, DiskIsThere
  <2>2. Listed' = Listed
    BY <1>5 DEF Listed
  <2> QED BY <1>1, <1>5, <2>1, <2>2 DEF Inv, DiskIsThere, ListingIsSound, Sources
<1> QED BY <1>2, <1>3, <1>4, <1>6, <1>7 DEF Inv

\* What is changed by the world outside, or not at all.
LEMMA OutsideHolds ==
  ASSUME Inv, UNCHANGED <<disk, stage, loaded, manifest, plan, jobs, editVars, listVars>>
  PROVE  Inv'
<1>1. JobsAreSound'
  BY SoundnessLasts DEF Inv, JobsAreSound, editVars
<1> QED
  BY <1>1
  DEF Inv, DiskIsThere, OnlyTestFilesAreLoaded, OnlySourcesAreListed, ListingIsSound, Listed,
      ManifestIsSound, PlanIsSound, NobodyIsEarly, Trusted, Sound, editVars, listVars

-----------------------------------------------------------------------------
(***************************************************************************)
(* The theorem.                                                            *)
(***************************************************************************)
LEMMA NextHolds ==
  ASSUME Inv, [Next]_vars
  PROVE  Inv'
<1>1. CASE \/ Discover \/ ListFiles \/ Fingerprint \/ Assess
           \/ Start \/ AssessForRun \/ Dispatch
  BY <1>1, DiscoverHolds, ListFilesHolds, FingerprintHolds, AssessHolds, StartHolds,
     AssessForRunHolds, DispatchHolds
<1>6. CASE \E file \in unread : ReadImports(file)
  BY <1>6, ReadImportsHolds
<1>2. CASE \E job \in jobs : Check(job) \/ Import(job) \/ Report(job) \/ Lose(job)
  BY <1>2, CheckHolds, ImportHolds, ReportHolds, LoseHolds
<1>3. CASE Retry \/ Over
  BY <1>3, RetryHolds, OverHolds
<1>4. CASE Edit
  BY <1>4, EditHolds
<1>5. CASE Turn \/ UNCHANGED vars
  BY <1>5, OutsideHolds DEF Turn, vars
<1> QED BY <1>1, <1>2, <1>3, <1>4, <1>5, <1>6 DEF Next

\* What the manifest and the plan say holds together at every moment, and each
\* worker has checked what it no longer has to check.
THEOREM Invariance == Spec => []Inv
<1>1. Init => Inv
  BY InitHolds
<1>2. Inv /\ [Next]_vars => Inv'
  BY NextHolds
<1> QED BY <1>1, <1>2, PTL DEF Spec

\* In a run that trusts a manifest no worker imports code that was changed, but for
\* the kinds of file the property names: for any contents of the test files, any
\* number of edits between any two steps, and any number of workers that are lost
\* and replaced (_verify_locator_sources, verify_trusted_collection_manifest).
THEOREM ChangedCodeRefused == Spec => []ChangedCodeIsRefused
<1>1. Inv => ChangedCodeIsRefused
  <2> SUFFICES ASSUME Inv, Trusted, NEW job \in jobs
               PROVE  Refuses(job)
    BY DEF ChangedCodeIsRefused, Refuses
  <2> QED BY DEF Inv, JobsAreSound, JobIsSound
<1> QED BY <1>1, Invariance, PTL

-----------------------------------------------------------------------------
(***************************************************************************)
(* Going through a module, or through the tests of a process.              *)
(***************************************************************************)
\* A set of numbers has a least one.
LEMMA LeastNumber ==
  ASSUME NEW S \in SUBSET Nat, S # {}
  PROVE  \E x \in S : \A y \in S : x <= y
<1>1. PICK x \in S : \A y \in S : <<y, x>> \notin OpToRel(<, Nat)
  BY NatLessThanWellFounded, WFMin
<1>2. \A y \in S : ~ (y < x)
  BY <1>1 DEF OpToRel
<1> QED BY <1>2

\* The three recursions of the model, by what they go through: the statements of a
\* module, the operations of a test, the tests of a module.
Step(what, now, k) ==
  CASE what.through = "statements" -> Execute(now, what.module[k], what.helper, what.outside)
    [] what.through = "operations" -> Perform(now, what.body[k], what.loaded)
    [] what.through = "tests" ->
         IF what.loaded.tests[k].local \in what.names
           THEN RunTest(now, what.loaded.tests[k], what.loaded) ELSE now

\* A function of the steps taken so far.
Recursive(f, start, what, n) ==
  f = [k \in 0 .. n |-> IF k = 0 THEN start ELSE Step(what, f[k - 1], k)]

\* Such a function exists: step by step, for any number of steps.
LEMMA RecursionIsDefined ==
  ASSUME NEW n \in Nat, NEW start, NEW what
  PROVE  \E f : Recursive(f, start, what, n)
<1> DEFINE UpTo(f, m) == f[0] = start /\ \A k \in 1 .. m : f[k] = Step(what, f[k - 1], k)
           Holds(m) == \E f : UpTo(f, m)
<1>1. \A m \in 0 .. n : Holds(m)
  <2> DEFINE Bad == {m \in 0 .. n : ~Holds(m)}
  <2> SUFFICES ASSUME Bad # {} PROVE FALSE
    OBVIOUS
  <2>1. Bad \in SUBSET Nat
    OBVIOUS
  <2>2. \E m \in Bad : \A j \in Bad : m <= j
    <3> HIDE DEF Bad
    <3> QED BY <2>1, LeastNumber
  <2>3. PICK m \in Bad : \A j \in Bad : m <= j
    BY <2>2
  <2>4. m # 0
    <3>1. UpTo([k \in {0} |-> start], 0)
      OBVIOUS
    <3> QED BY <3>1, <2>3
  <2>5. m - 1 \in 0 .. n /\ Holds(m - 1)
    <3> HIDE DEF Holds
    <3> QED BY <2>3, <2>4
  <2>6. PICK f : UpTo(f, m - 1)
    BY <2>5
  <2> DEFINE g == [k \in 0 .. m |-> IF k = m THEN Step(what, f[m - 1], m) ELSE f[k]]
  <2>7. g[0] = start
    BY <2>3, <2>4, <2>6
  <2>8. \A k \in 1 .. m : g[k] = Step(what, g[k - 1], k)
    <3> TAKE k \in 1 .. m
    <3>1. m \in Nat /\ k \in 0 .. m /\ k - 1 \in 0 .. m /\ k - 1 # m
      BY <2>3
    <3>2. g[k - 1] = f[k - 1]
      BY <3>1
    <3>3. CASE k = m
      BY <3>1, <3>2, <3>3
    <3>4. CASE k # m
      <4>1. k \in 1 .. m - 1
        BY <3>1, <3>4
      <4> QED BY <2>6, <3>1, <3>2, <3>4, <4>1
    <3> QED BY <3>3, <3>4
  <2>9. Holds(m)
    BY <2>7, <2>8
  <2> QED BY <2>3, <2>9
<1>2. PICK f : UpTo(f, n)
  BY <1>1
<1> DEFINE g == [k \in 0 .. n |-> f[k]]
<1>3. \A k \in 0 .. n : f[k] = IF k = 0 THEN start ELSE Step(what, g[k - 1], k)
  <2> TAKE k \in 0 .. n
  <2>1. CASE k = 0
    BY <1>2, <2>1
  <2>2. CASE k # 0
    <3>1. k \in 1 .. n /\ k - 1 \in 0 .. n
      BY <2>2
    <3> QED BY <1>2, <2>2, <3>1
  <2> QED BY <2>1, <2>2
<1>4. g = [k \in 0 .. n |-> IF k = 0 THEN start ELSE Step(what, g[k - 1], k)]
  BY <1>3
<1>5. Recursive(g, start, what, n)
  BY <1>4 DEF Recursive
<1> QED BY <1>5

\* The import of a module, statement by statement.
Loads(states, module, helper, world) ==
  /\ states[0] = NothingLoaded
  /\ \A k \in 1 .. Len(module) : states[k] = Execute(states[k - 1], module[k], helper, world)
  /\ LoadModule(module, helper, world) = states[Len(module)]

\* load_module: the import of a module goes from one statement to the next.
LEMMA LoadingUnfolds ==
  ASSUME NEW module, Len(module) \in Nat, NEW helper, NEW world
  PROVE  \E states : Loads(states, module, helper, world)
<1> DEFINE Equation(f) ==
             f = [k \in 0 .. Len(module) |->
                    IF k = 0 THEN NothingLoaded ELSE Execute(f[k - 1], module[k], helper, world)]
           what == [through |-> "statements", module |-> module, helper |-> helper,
                    outside |-> world]
<1>1. PICK f : Recursive(f, NothingLoaded, what, Len(module))
  BY RecursionIsDefined
<1>2. Equation(f)
  BY <1>1 DEF Recursive, Step
<1>3. PICK states : states = CHOOSE g : Equation(g)
  OBVIOUS
<1>4. Equation(states)
  BY <1>2, <1>3
<1>5. LoadModule(module, helper, world) = states[Len(module)]
  BY <1>3 DEF LoadModule
<1>6. /\ states[0] = NothingLoaded
      /\ \A k \in 1 .. Len(module) : states[k] = Execute(states[k - 1], module[k], helper, world)
  BY <1>4
<1> QED BY <1>5, <1>6 DEF Loads

\* A test, operation by operation.
Performs(states, start, test, module) ==
  /\ states[0] = [memory |-> start.memory, observed |-> << >>]
  /\ \A k \in 1 .. Len(test.body) : states[k] = Perform(states[k - 1], test.body[k], module)
  /\ RunTest(start, test, module) =
       [memory |-> states[Len(test.body)].memory,
        results |-> Rebind(start.results, test.local, states[Len(test.body)].observed)]

\* A test goes from one operation to the next.
LEMMA RunningUnfolds ==
  ASSUME NEW start, NEW test, Len(test.body) \in Nat, NEW module
  PROVE  \E states : Performs(states, start, test, module)
<1> DEFINE first == [memory |-> start.memory, observed |-> << >>]
           n == Len(test.body)
           Equation(f) ==
             f = [k \in 0 .. n |->
                    IF k = 0 THEN first ELSE Perform(f[k - 1], test.body[k], module)]
           what == [through |-> "operations", body |-> test.body, loaded |-> module]
<1>1. PICK f : Recursive(f, first, what, Len(test.body))
  BY RecursionIsDefined
<1>2. Equation(f)
  BY <1>1 DEF Recursive, Step
<1>3. PICK states : states = CHOOSE g : Equation(g)
  OBVIOUS
<1>4. Equation(states)
  BY <1>2, <1>3
<1>5. RunTest(start, test, module) =
        [memory |-> states[Len(test.body)].memory,
         results |-> Rebind(start.results, test.local, states[Len(test.body)].observed)]
  BY <1>3 DEF RunTest
<1>6. /\ states[0] = first
      /\ \A k \in 1 .. n : states[k] = Perform(states[k - 1], test.body[k], module)
  <2> HIDE DEF n, first
  <2> SUFFICES ASSUME NEW k \in 0 .. n
               PROVE  states[k] = IF k = 0 THEN first ELSE Perform(states[k - 1], test.body[k], module)
    BY DEF n
  <2> QED BY <1>4
<1> QED BY <1>5, <1>6 DEF Performs

\* The chosen tests of a module, test by test.
Goes(states, module, names) ==
  /\ states[0] = [memory |-> << >>, results |-> << >>]
  /\ \A k \in 1 .. Len(module.tests) :
       states[k] = IF module.tests[k].local \in names
                   THEN RunTest(states[k - 1], module.tests[k], module) ELSE states[k - 1]
  /\ ResultsOf(module, names) = states[Len(module.tests)].results

\* A process goes from one test of the module to the next.
LEMMA ResultsUnfold ==
  ASSUME NEW module, Len(module.tests) \in Nat, NEW names
  PROVE  \E states : Goes(states, module, names)
<1> DEFINE first == [memory |-> << >>, results |-> << >>]
           Equation(f) ==
             f = [k \in 0 .. Len(module.tests) |->
                    IF k = 0 THEN first
                    ELSE IF module.tests[k].local \in names
                      THEN RunTest(f[k - 1], module.tests[k], module) ELSE f[k - 1]]
           what == [through |-> "tests", loaded |-> module, names |-> names]
<1>1. PICK f : Recursive(f, first, what, Len(module.tests))
  BY RecursionIsDefined
<1>2. Equation(f)
  BY <1>1 DEF Recursive, Step
<1>3. PICK states : states = CHOOSE g : Equation(g)
  OBVIOUS
<1>4. Equation(states)
  BY <1>2, <1>3
<1>5. ResultsOf(module, names) = states[Len(module.tests)].results
  BY <1>3 DEF ResultsOf
<1>6. /\ states[0] = first
      /\ \A k \in 1 .. Len(module.tests) :
           states[k] = IF module.tests[k].local \in names
                       THEN RunTest(states[k - 1], module.tests[k], module) ELSE states[k - 1]
  <2> HIDE DEF first
  <2> SUFFICES ASSUME NEW k \in 0 .. Len(module.tests)
               PROVE  states[k] = IF k = 0 THEN first
                                  ELSE IF module.tests[k].local \in names
                                    THEN RunTest(states[k - 1], module.tests[k], module)
                                    ELSE states[k - 1]
    OBVIOUS
  <2> QED BY <1>4
<1> QED BY <1>5, <1>6 DEF Goes

\* What holds at the start, and of each if of the one before, holds up to the end.
LEMMA Induction ==
  ASSUME NEW n \in Nat, NEW S, 0 \in S, \A k \in 1 .. n : k - 1 \in S => k \in S
  PROVE  \A k \in 0 .. n : k \in S
<1> DEFINE Bad == {k \in 0 .. n : k \notin S}
<1> SUFFICES ASSUME Bad # {} PROVE FALSE
  OBVIOUS
<1>1. Bad \in SUBSET Nat
  OBVIOUS
<1>2. \E k \in Bad : \A j \in Bad : k <= j
  <2> HIDE DEF Bad
  <2> QED BY <1>1, LeastNumber
<1>3. PICK k \in Bad : \A j \in Bad : k <= j
  BY <1>2
<1>4. k \in 1 .. n /\ k - 1 \in 0 .. n
  BY <1>3
<1>5. k - 1 \notin Bad
  BY <1>3, <1>4
<1> QED BY <1>3, <1>4, <1>5

-----------------------------------------------------------------------------
(***************************************************************************)
(* What the tests of a module are depends on no scope.                     *)
(***************************************************************************)
\* A module as it is being loaded.
IsLoaded(now) ==
  now = [bound |-> now.bound, effects |-> now.effects, fixtures |-> now.fixtures,
         imported |-> now.imported, tests |-> now.tests]

\* Two of them that differ in what their fixtures are, at most.
Alike(a, b) ==
  /\ a.bound = b.bound /\ a.effects = b.effects /\ a.imported = b.imported /\ a.tests = b.tests
  /\ IsLoaded(a) /\ IsLoaded(b)

\* What its decorator is bound to when a function is defined.
Decorates(now, s) == IF s.decorator = None THEN "nothing" ELSE now.bound[s.decorator]

\* What a definition leaves of a module.
LEMMA DefineIs ==
  ASSUME NEW now, IsLoaded(now), NEW s, NEW world
  PROVE  Define(now, s, world) =
           [bound |-> Rebind(now.bound, s.local, "function"),
            effects |-> now.effects + (IF IsCall(s.default) THEN 1 ELSE 0)
                          + (IF Decorates(now, s) \in Factories \cup {"nothing"} THEN 0 ELSE 1),
            fixtures |-> IF Decorates(now, s) = "fixture"
                         THEN Rebind(now.fixtures, s.local, ScopeOf(s.scope, world))
                         ELSE now.fixtures,
            imported |-> now.imported,
            tests |-> IF Decorates(now, s) = "fixture" THEN now.tests ELSE Append(now.tests, s)]
<1>3. PICK decorates : decorates = Decorates(now, s)
  OBVIOUS
<1>4. PICK bound, effects, fixtures, tests :
      /\ bound = Rebind(now.bound, s.local, "function")
      /\ effects = now.effects + (IF IsCall(s.default) THEN 1 ELSE 0)
                     + (IF decorates \in Factories \cup {"nothing"} THEN 0 ELSE 1)
      /\ fixtures = IF decorates = "fixture"
                    THEN Rebind(now.fixtures, s.local, ScopeOf(s.scope, world)) ELSE now.fixtures
      /\ tests = IF decorates = "fixture" THEN now.tests ELSE Append(now.tests, s)
  OBVIOUS
<1>1. Define(now, s, world) =
        [now EXCEPT !.bound = bound, !.effects = effects, !.fixtures = fixtures, !.tests = tests]
  BY <1>3, <1>4 DEF Define, Decorates
<1>2. PICK b, e, f, i, t :
        b = now.bound /\ e = now.effects /\ f = now.fixtures /\ i = now.imported /\ t = now.tests
  OBVIOUS
<1>5. now = [bound |-> b, effects |-> e, fixtures |-> f, imported |-> i, tests |-> t]
  BY <1>2 DEF IsLoaded
<1>6. PICK next : next = [now EXCEPT !.bound = bound, !.effects = effects, !.fixtures = fixtures,
                                     !.tests = tests]
  OBVIOUS
<1>7. next = [bound |-> bound, effects |-> effects, fixtures |-> fixtures, imported |-> i,
              tests |-> tests]
  BY <1>5, <1>6
<1> QED BY <1>1, <1>2, <1>3, <1>4, <1>6, <1>7

\* Alike before a definition, alike after it.
LEMMA DefinesAlike ==
  ASSUME NEW a, NEW b, Alike(a, b), NEW s, NEW world1, NEW world2
  PROVE  Alike(Define(a, s, world1), Define(b, s, world2))
<1>1. Decorates(a, s) = Decorates(b, s)
  BY DEF Alike, Decorates
<1> QED BY <1>1, DefineIs DEF Alike, IsLoaded

\* Loading a module does the same wherever it is loaded, but for the scopes that come
\* from elsewhere; a branch asks the helper.
LEMMA ExecutesAlike ==
  ASSUME NEW a, NEW b, Alike(a, b), NEW s, s.kind \in Kinds \ {"unparsable"},
         NEW helper1, NEW helper2, s.kind = "branch" => helper1 = helper2,
         NEW world1, NEW world2
  PROVE  Alike(Execute(a, s, helper1, world1), Execute(b, s, helper2, world2))
<1> PICK bound, effects, imported, tests, fixtures1, fixtures2 :
      /\ bound = a.bound /\ effects = a.effects /\ imported = a.imported /\ tests = a.tests
      /\ fixtures1 = a.fixtures /\ fixtures2 = b.fixtures
  OBVIOUS
<1>1. /\ a = [bound |-> bound, effects |-> effects, fixtures |-> fixtures1,
              imported |-> imported, tests |-> tests]
      /\ b = [bound |-> bound, effects |-> effects, fixtures |-> fixtures2,
              imported |-> imported, tests |-> tests]
  BY DEF Alike, IsLoaded
<1>2. CASE s.kind = "from"
  BY <1>1, <1>2 DEF Execute, Alike, IsLoaded
<1>3. CASE s.kind = "star"
  BY <1>1, <1>3 DEF Execute, Alike, IsLoaded
<1>4. CASE s.kind = "bind"
  BY <1>1, <1>4 DEF Execute, Alike, IsLoaded
<1>5. CASE s.kind \in {"class", "attribute"}
  BY <1>1, <1>5 DEF Execute, Alike, IsLoaded
<1>6. CASE s.kind = "expression"
  BY <1>1, <1>6 DEF Execute, Alike, IsLoaded
<1>7. CASE s.kind = "branch"
  <2>1. Execute(a, s, helper1, world1) = (IF helper1 = 1 THEN Define(a, s.definition, world1) ELSE a)
    BY <1>7 DEF Execute
  <2>2. Execute(b, s, helper2, world2) = (IF helper1 = 1 THEN Define(b, s.definition, world2) ELSE b)
    BY <1>7 DEF Execute
  <2> QED BY <2>1, <2>2, DefinesAlike
<1>8. CASE s.kind = "def"
  <2>1. /\ Execute(a, s, helper1, world1) = Define(a, s, world1)
        /\ Execute(b, s, helper2, world2) = Define(b, s, world2)
    BY <1>8 DEF Execute
  <2> QED BY <2>1, DefinesAlike
<1> QED BY <1>2, <1>3, <1>4, <1>5, <1>6, <1>7, <1>8 DEF Kinds

\* What a sequence is made of is in it.
LEMMA SequencesAre ==
  ASSUME NEW s, IsSequence(s)
  PROVE  Len(s) \in Nat /\ DOMAIN s = 1 .. Len(s) /\ \A k \in 1 .. Len(s) : s[k] \in ToSet(s)
  BY DEF IsSequence, ToSet

\* The tests of a module do not depend on the world outside, nor on the helper unless
\* a condition asks it.
LEMMA LoadsAlike ==
  ASSUME NEW module, WellFormed(module), Parses(module),
         NEW helper1, NEW helper2, OfKind(module, {"branch"}) # {} => helper1 = helper2,
         NEW world1, NEW world2
  PROVE  Alike(LoadModule(module, helper1, world1), LoadModule(module, helper2, world2))
<1> PICK n : n = Len(module)
  OBVIOUS
<1>1. /\ n \in Nat /\ DOMAIN module = 1 .. n
      /\ \A k \in 1 .. n : module[k] \in Statements(module)
  BY SequencesAre DEF WellFormed, Statements
<1>2. PICK a : Loads(a, module, helper1, world1)
  BY <1>1, LoadingUnfolds
<1>3. PICK b : Loads(b, module, helper2, world2)
  BY <1>1, LoadingUnfolds
<1> DEFINE S == {k \in 0 .. n : Alike(a[k], b[k])}
<1>4. 0 \in S
  BY <1>1, <1>2, <1>3 DEF Loads, Alike, IsLoaded, NothingLoaded
<1>5. \A k \in 1 .. n : k - 1 \in S => k \in S
  <2> SUFFICES ASSUME NEW k \in 1 .. n, k - 1 \in S PROVE Alike(a[k], b[k])
    BY <1>1
  <2>1. module[k].kind \in Kinds \ {"unparsable"}
    BY <1>1 DEF WellFormed, Parses, OfKind
  <2>2. module[k].kind = "branch" => helper1 = helper2
    BY <1>1 DEF OfKind
  <2>3. /\ a[k] = Execute(a[k - 1], module[k], helper1, world1)
        /\ b[k] = Execute(b[k - 1], module[k], helper2, world2)
    BY <1>2, <1>3 DEF Loads
  <2>4. Alike(a[k - 1], b[k - 1])
    OBVIOUS
  <2> QED BY <2>1, <2>2, <2>3, <2>4, ExecutesAlike
<1>6. n \in S
  <2> HIDE DEF S
  <2>1. \A k \in 0 .. n : k \in S
    BY <1>1, <1>4, <1>5, Induction
  <2> QED BY <1>1, <2>1
<1> QED BY <1>2, <1>3, <1>6 DEF Loads

-----------------------------------------------------------------------------
(***************************************************************************)
(* The import of a module that may be divided calls no code from           *)
(* elsewhere, and binds its names to nothing its tests could change.       *)
(***************************************************************************)
\* What speaks for dividing a module, as far as the source tells.
Separable(module) ==
  /\ WellFormed(module) /\ SourceAllowsSharding(module)
  /\ ~Undetected(module) /\ ~RenamedFixtureDecorator(module)
  /\ \A s \in OfKind(module, {"from"}) : s.origin # "provider"

\* The names that are imported, or those of classes and functions.
Named(module) == {s.local : s \in OfKind(module, {"from", "class", "def"})}

\* What a name is bound to when the module is loaded.
IsBoundTo(what, name, module) ==
  /\ what = "plain" \/ name \in Named(module) \cup MutableBindings(module)
  /\ name \in SafeDecorators(module) =>
       \E s \in Statements(module) : IsImportedFactory(s) /\ s.local = name /\ what = s.name

\* A module k of whose statements were executed: nothing was called, the fixtures are
\* those of a single test, and every name is bound to what its statement says.
Quiet(now, module, k) ==
  /\ IsLoaded(now) /\ now.effects = 0
  /\ now.tests \in Seq(OfKind(module, {"def"}))
  /\ \A name \in DOMAIN now.fixtures : now.fixtures[name] = "test"
  /\ \A name \in DOMAIN now.bound : IsBoundTo(now.bound[name], name, module)
  /\ \A j \in 1 .. k : \A name : Binds(module[j], name) => name \in DOMAIN now.bound

\* What the statement binds its name to.
BindsTo(s) ==
  CASE s.kind = "from" -> IF s.origin = "testenix" THEN s.name ELSE "foreign"
    [] s.kind = "bind" -> Kind(s.value)
    [] s.kind \in {"class", "attribute"} -> IF Kind(s.value) = "container" THEN "container" ELSE "class"
    [] s.kind = "def" -> "function"

\* A statement binds its own name, and no other.
LEMMA BindingIs ==
  ASSUME NEW now, IsLoaded(now), now.effects = 0, NEW s, NEW helper, NEW world,
         s.kind \in {"from", "bind", "class", "attribute"},
         s.kind = "from" => s.origin # "provider", s.kind # "from" => ~IsCall(s.value)
  PROVE  Execute(now, s, helper, world) =
           [bound |-> Rebind(now.bound, s.local, BindsTo(s)), effects |-> 0,
            fixtures |-> now.fixtures, imported |-> now.imported, tests |-> now.tests]
<1>1. PICK b, z, f, i, t :
        b = now.bound /\ z = now.effects /\ f = now.fixtures /\ i = now.imported /\ t = now.tests
  OBVIOUS
<1>2. now = [bound |-> b, effects |-> z, fixtures |-> f, imported |-> i, tests |-> t]
  BY <1>1 DEF IsLoaded
<1>3. PICK bound, e :
        /\ bound = Rebind(b, s.local, BindsTo(s))
        /\ e = z + (IF IsCall(s.value) THEN 1 ELSE 0)
  OBVIOUS
<1>4. PICK next : next = Execute(now, s, helper, world)
  OBVIOUS
<1>5. CASE s.kind = "from"
  <2>1. next = [now EXCEPT !.bound = bound, !.fixtures = f, !.imported = i]
    BY <1>1, <1>3, <1>4, <1>5 DEF Execute, BindsTo
  <2>2. next = [bound |-> bound, effects |-> z, fixtures |-> f, imported |-> i, tests |-> t]
    BY <1>2, <2>1
  <2> QED BY <1>1, <1>3, <1>4, <2>2
<1>6. CASE s.kind \in {"bind", "class", "attribute"}
  <2>1. next = [now EXCEPT !.bound = bound, !.effects = e]
    <3>1. CASE s.kind = "bind"
      BY <1>1, <1>3, <1>4, <3>1 DEF Execute, BindsTo
    <3>2. CASE s.kind = "class"
      BY <1>1, <1>3, <1>4, <3>2 DEF Execute, BindsTo
    <3>3. CASE s.kind = "attribute"
      BY <1>1, <1>3, <1>4, <3>3 DEF Execute, BindsTo
    <3> QED BY <1>6, <3>1, <3>2, <3>3
  <2>2. next = [bound |-> bound, effects |-> e, fixtures |-> f, imported |-> i, tests |-> t]
    BY <1>2, <2>1
  <2>3. e = 0
    BY <1>1, <1>3, <1>6
  <2> QED BY <1>1, <1>3, <1>4, <2>2, <2>3
<1> QED BY <1>5, <1>6

\* Such a module imports nothing by a star.
LEMMA NoStars ==
  ASSUME NEW module, Separable(module), NEW s \in Statements(module)
  PROVE  s.kind # "star"
  BY DEF Separable, Undetected, OfKind

\* Every statement of such a module binds its name to something harmless.
LEMMA BoundHarmlessly ==
  ASSUME NEW module, Separable(module), NEW k \in DOMAIN module,
         module[k].kind \in {"from", "bind", "class", "attribute", "def"}
  PROVE  IsBoundTo(BindsTo(module[k]), module[k].local, module)
<1>1. PICK s : s = module[k]
  OBVIOUS
<1>2. s \in Statements(module)
  BY <1>1 DEF Statements, ToSet
<1>3. BindsTo(s) = "plain" \/ s.local \in Named(module) \cup MutableBindings(module)
  <2>1. CASE s.kind \in {"from", "class", "def"}
    BY <1>2, <2>1 DEF Named, OfKind
  <2>2. CASE s.kind = "bind"
    <3>1. CASE IsMutableValue(s.value)
      BY <1>2, <2>2, <3>1 DEF MutableBindings, OfKind
    <3>2. CASE ~IsMutableValue(s.value)
      BY <2>2, <3>2 DEF BindsTo, Kind
    <3> QED BY <3>1, <3>2
  <2>3. CASE s.kind = "attribute"
    <3>1. PICK j \in 1 .. k - 1 : HasAttributes(module[j], s.local)
      BY <1>1, <2>3 DEF Separable, WellFormed
    <3>2. module[j] \in Statements(module)
      <4>1. Len(module) \in Nat /\ DOMAIN module = 1 .. Len(module)
        BY SequencesAre DEF Separable, WellFormed
      <4>2. j \in DOMAIN module
        BY <4>1
      <4> QED BY <4>2 DEF Statements, ToSet
    <3>3. module[j].kind # "bind" \/ ~IsCall(module[j].value)
      BY <3>2 DEF Separable, SourceAllowsSharding, DefinitionTimeCall
    <3>4. module[j].kind # "star"
      BY <3>2, NoStars
    <3>5. module[j].kind \in {"from", "class", "def"} /\ module[j].local = s.local
      BY <3>1, <3>3, <3>4 DEF HasAttributes, StarBinds, IsCall
    <3> QED BY <3>2, <3>5 DEF Named, OfKind
  <2> QED BY <1>1, <2>1, <2>2, <2>3
<1>4. ASSUME s.local \in SafeDecorators(module)
      PROVE  IsImportedFactory(s) /\ BindsTo(s) = s.name
  <2>1. IsImportedFactory(s)
    BY <1>1, <1>2, <1>4 DEF SafeDecorators, Rebound, OfKind
  <2> QED BY <2>1 DEF IsImportedFactory, BindsTo
<1> QED BY <1>1, <1>2, <1>3, <1>4 DEF IsBoundTo

\* The state after a name was bound.
LEMMA BindingKeeps ==
  ASSUME NEW module, NEW k \in Nat \ {0}, NEW now, Quiet(now, module, k - 1),
         NEW next, NEW what, IsBoundTo(what, module[k].local, module),
         next.bound = Rebind(now.bound, module[k].local, what)
  PROVE  /\ \A name \in DOMAIN next.bound : IsBoundTo(next.bound[name], name, module)
         /\ \A j \in 1 .. k : \A name : Binds(module[j], name) => name \in DOMAIN next.bound
<1>1. PICK x : x = module[k].local
  OBVIOUS
<1>2. DOMAIN next.bound = DOMAIN now.bound \cup {x}
  BY <1>1 DEF Rebind
<1>3. \A name \in DOMAIN next.bound :
        next.bound[name] = IF name = x THEN what ELSE now.bound[name]
  BY <1>1 DEF Rebind
<1>4. \A name \in DOMAIN next.bound : IsBoundTo(next.bound[name], name, module)
  <2> TAKE name \in DOMAIN next.bound
  <2>1. CASE name = x
    BY <1>1, <1>3, <2>1
  <2>2. CASE name # x
    BY <1>2, <1>3, <2>2 DEF Quiet
  <2> QED BY <2>1, <2>2
<1>5. \A j \in 1 .. k : \A name : Binds(module[j], name) => name \in DOMAIN next.bound
  <2> SUFFICES ASSUME NEW j \in 1 .. k, NEW name, Binds(module[j], name)
               PROVE  name \in DOMAIN next.bound
    OBVIOUS
  <2>1. CASE j = k
    BY <1>1, <1>2, <2>1 DEF Binds
  <2>2. CASE j # k
    <3>1. j \in 1 .. k - 1
      BY <2>2
    <3> QED BY <1>2, <3>1 DEF Quiet
  <2> QED BY <2>1, <2>2
<1> QED BY <1>4, <1>5

\* A definition in such a module calls nothing from elsewhere, and makes no fixture of
\* a wider scope than a test's.
LEMMA DefinesQuietly ==
  ASSUME NEW module, Separable(module), NEW k \in DOMAIN module, k \in Nat \ {0},
         NEW now, Quiet(now, module, k - 1), module[k].kind = "def", NEW world
  PROVE  Quiet(Define(now, module[k], world), module, k)
<1>1. PICK s : s = module[k]
  OBVIOUS
<1>2. s \in Statements(module) /\ s \in OfKind(module, {"def"})
  BY <1>1 DEF Statements, ToSet, OfKind
<1>3. /\ ~IsCall(s.default) /\ s.decorator \in SafeDecorators(module) \cup {None}
      /\ ~FixtureScopeBlocker(s, SafeDecorators(module))
  BY <1>1, <1>2 DEF Separable, SourceAllowsSharding, DefinitionTimeCall
<1>4. CASE s.decorator = None
  <2>1. Decorates(now, s) = "nothing"
    BY <1>4 DEF Decorates
  <2> DEFINE next == [bound |-> Rebind(now.bound, s.local, "function"), effects |-> 0,
                      fixtures |-> now.fixtures, imported |-> now.imported,
                      tests |-> Append(now.tests, s)]
  <2>2. Define(now, s, world) = next
    BY <1>3, <2>1, DefineIs DEF Quiet
  <2>3. next.bound = Rebind(now.bound, s.local, "function")
    OBVIOUS
  <2>4. IsBoundTo("function", s.local, module)
    BY <1>1, BoundHarmlessly DEF BindsTo
  <2>5. /\ \A name \in DOMAIN next.bound : IsBoundTo(next.bound[name], name, module)
        /\ \A j \in 1 .. k : \A name : Binds(module[j], name) => name \in DOMAIN next.bound
    <3> HIDE DEF next
    <3> QED BY <1>1, <2>3, <2>4, BindingKeeps
  <2>6. next.tests \in Seq(OfKind(module, {"def"}))
    BY <1>2 DEF Quiet
  <2> QED BY <1>1, <2>2, <2>5, <2>6 DEF Quiet, IsLoaded
<1>5. CASE s.decorator # None
  <2>1. s.decorator \in DOMAIN now.bound
    <3>1. PICK j \in 1 .. k - 1 : Binds(module[j], s.decorator) \/ StarBinds(module[j], s.decorator)
      BY <1>1, <1>5 DEF Separable, WellFormed, Defined
    <3>2. module[j] \in Statements(module)
      <4>1. DOMAIN module = 1 .. Len(module) /\ Len(module) \in Nat
        BY SequencesAre DEF Separable, WellFormed
      <4>2. j \in DOMAIN module
        BY <4>1
      <4> QED BY <4>2 DEF Statements, ToSet
    <3>3. Binds(module[j], s.decorator)
      BY <3>1, <3>2, NoStars DEF StarBinds
    <3> QED BY <3>3 DEF Quiet
  <2>2. PICK t \in Statements(module) :
          IsImportedFactory(t) /\ t.local = s.decorator /\ now.bound[s.decorator] = t.name
    BY <1>3, <1>5, <2>1 DEF Quiet, IsBoundTo
  <2>3. Decorates(now, s) = t.name /\ t.name \in Factories
    BY <1>5, <2>2 DEF Decorates, IsImportedFactory
  <2>4. t.name = "fixture" => ScopeOf(s.scope, world) = "test"
    <3> SUFFICES ASSUME t.name = "fixture" PROVE ScopeOf(s.scope, world) = "test"
      OBVIOUS
    <3>1. s.decorator = "fixture"
      BY <2>2 DEF Separable, RenamedFixtureDecorator, IsImportedFactory
    <3>2. s.scope \in {"default", "test"}
      BY <1>2, <1>3, <1>5, <3>1 DEF FixtureScopeBlocker, OfKind
    <3> QED BY <3>2 DEF ScopeOf
  <2> PICK fixtures, tests :
        /\ fixtures = IF t.name = "fixture" THEN Rebind(now.fixtures, s.local, "test")
                      ELSE now.fixtures
        /\ tests = IF t.name = "fixture" THEN now.tests ELSE Append(now.tests, s)
    OBVIOUS
  <2> DEFINE next == [bound |-> Rebind(now.bound, s.local, "function"), effects |-> 0,
                      fixtures |-> fixtures, imported |-> now.imported, tests |-> tests]
  <2>5. Define(now, s, world) = next
    BY <1>3, <2>3, <2>4, DefineIs DEF Quiet
  <2>6. next.bound = Rebind(now.bound, s.local, "function")
    OBVIOUS
  <2>7. IsBoundTo("function", s.local, module)
    BY <1>1, BoundHarmlessly DEF BindsTo
  <2>8. /\ \A name \in DOMAIN next.bound : IsBoundTo(next.bound[name], name, module)
        /\ \A j \in 1 .. k : \A name : Binds(module[j], name) => name \in DOMAIN next.bound
    <3> HIDE DEF next
    <3> QED BY <1>1, <2>6, <2>7, BindingKeeps
  <2>9. tests \in Seq(OfKind(module, {"def"}))
    BY <1>2 DEF Quiet
  <2>10. \A name \in DOMAIN fixtures : fixtures[name] = "test"
    BY DEF Quiet, Rebind
  <2> QED BY <1>1, <2>5, <2>8, <2>9, <2>10 DEF Quiet, IsLoaded
<1> QED BY <1>4, <1>5

\* No statement of a module that may be divided calls code from elsewhere, or makes a
\* fixture that tests share.
LEMMA ExecutesQuietly ==
  ASSUME NEW module, Separable(module), NEW k \in DOMAIN module, k \in Nat \ {0},
         NEW now, Quiet(now, module, k - 1), NEW helper, NEW world
  PROVE  Quiet(Execute(now, module[k], helper, world), module, k)
<1>1. PICK s : s = module[k]
  OBVIOUS
<1>2. s \in Statements(module)
  BY <1>1 DEF Statements, ToSet
<1>3. s.kind \in {"from", "bind", "class", "attribute", "def"}
  <2>1. s.kind \in Kinds
    BY <1>1 DEF Separable, WellFormed
  <2>2. s.kind # "unparsable" /\ s.kind # "expression" /\ s.kind # "branch"
    BY <1>2 DEF Separable, SourceAllowsSharding, Parses, OfKind, ImportTimeBlocker
  <2>3. s.kind # "star"
    BY <1>2 DEF Separable, Undetected, OfKind
  <2> QED BY <2>1, <2>2, <2>3 DEF Kinds
<1>4. CASE s.kind = "def"
  <2>1. Execute(now, s, helper, world) = Define(now, s, world)
    BY <1>4 DEF Execute
  <2> QED BY <1>1, <1>4, <2>1, DefinesQuietly
<1>5. CASE s.kind # "def"
  <2>1. s.kind \in {"from", "bind", "class", "attribute"}
    BY <1>3, <1>5
  <2>2. s.kind = "from" => s.origin # "provider"
    BY <1>2 DEF Separable, OfKind
  <2>3. s.kind # "from" => ~IsCall(s.value)
    BY <1>2, <2>1 DEF Separable, SourceAllowsSharding, DefinitionTimeCall
  <2>4. PICK next : next = Execute(now, s, helper, world)
    OBVIOUS
  <2>5. next = [bound |-> Rebind(now.bound, s.local, BindsTo(s)), effects |-> 0,
                fixtures |-> now.fixtures, imported |-> now.imported, tests |-> now.tests]
    BY <2>1, <2>2, <2>3, <2>4, BindingIs DEF Quiet
  <2>6. IsBoundTo(BindsTo(s), s.local, module)
    BY <1>1, <1>3, BoundHarmlessly
  <2>7. next.bound = Rebind(now.bound, s.local, BindsTo(s))
    BY <2>5
  <2>8. /\ \A name \in DOMAIN next.bound : IsBoundTo(next.bound[name], name, module)
        /\ \A j \in 1 .. k : \A name : Binds(module[j], name) => name \in DOMAIN next.bound
    BY <1>1, <2>6, <2>7, BindingKeeps
  <2>9. IsLoaded(next) /\ next.effects = 0 /\ next.tests = now.tests /\ next.fixtures = now.fixtures
    BY <2>5 DEF IsLoaded
  <2> QED BY <1>1, <2>4, <2>8, <2>9 DEF Quiet
<1> QED BY <1>4, <1>5

\* Importing such a module calls nothing from elsewhere; its tests are definitions of
\* its own, and its fixtures are made for each test.
LEMMA LoadsQuietly ==
  ASSUME NEW module, Separable(module), NEW helper, NEW world
  PROVE  Quiet(LoadModule(module, helper, world), module, Len(module))
<1> PICK n : n = Len(module)
  OBVIOUS
<1>1. n \in Nat /\ DOMAIN module = 1 .. n
  BY SequencesAre DEF Separable, WellFormed
<1>2. PICK states : Loads(states, module, helper, world)
  BY <1>1, LoadingUnfolds
<1> DEFINE S == {k \in 0 .. n : Quiet(states[k], module, k)}
<1>3. 0 \in S
  <2>1. states[0] = NothingLoaded
    BY <1>2 DEF Loads
  <2>2. /\ IsLoaded(states[0]) /\ states[0].effects = 0
        /\ states[0].bound = << >> /\ states[0].fixtures = << >> /\ states[0].tests = << >>
    BY <2>1 DEF IsLoaded, NothingLoaded
  <2>3. << >> \in Seq(OfKind(module, {"def"}))
    OBVIOUS
  <2>4. Quiet(states[0], module, 0)
    BY <2>2, <2>3 DEF Quiet
  <2> QED BY <1>1, <2>4
<1>4. \A k \in 1 .. n : k - 1 \in S => k \in S
  <2> SUFFICES ASSUME NEW k \in 1 .. n, k - 1 \in S PROVE Quiet(states[k], module, k)
    BY <1>1
  <2>1. states[k] = Execute(states[k - 1], module[k], helper, world)
    BY <1>2 DEF Loads
  <2>2. Quiet(states[k - 1], module, k - 1)
    OBVIOUS
  <2>3. k \in DOMAIN module /\ k \in Nat \ {0}
    BY <1>1
  <2> QED BY <2>1, <2>2, <2>3, ExecutesQuietly
<1>5. n \in S
  <2> HIDE DEF S
  <2>1. \A k \in 0 .. n : k \in S
    BY <1>1, <1>3, <1>4, Induction
  <2> QED BY <1>1, <2>1
<1> QED BY <1>2, <1>5 DEF Loads

-----------------------------------------------------------------------------
(***************************************************************************)
(* So a test observes the same alone as it does among all.                 *)
(***************************************************************************)
\* No operation of a test changes what another might see.
LEMMA ChangesNothing ==
  ASSUME NEW module, Separable(module), NEW l, Quiet(l, module, Len(module)),
         NEW test \in OfKind(module, {"def"}), NEW op \in ToSet(test.body), NEW now
  PROVE  Perform(now, op, l).memory = now.memory
<1>1. test \in Statements(module) /\ test.kind = "def"
  BY DEF OfKind
<1>2. op.do # "rebind" /\ op.do # "touch" /\ op.do # "alias"
  BY <1>1 DEF Separable, SourceAllowsSharding, StateHazard, Undetected
<1>3. op.do \in {"append", "store"} => op.name \notin Named(module) \cup MutableBindings(module)
  <2> SUFFICES ASSUME op.do \in {"append", "store"}
               PROVE  op.name \notin Named(module) \cup MutableBindings(module)
    OBVIOUS
  <2>1. op.name \notin MutableBindings(module)
    BY <1>1 DEF Separable, SourceAllowsSharding, StateHazard, MutatingMethods
  <2>2. MutableClasses(module) = {}
    BY DEF Separable, SourceAllowsSharding
  <2>3. op.name \notin Named(module)
    BY <2>2 DEF Separable, Undetected, Named, OfKind
  <2> QED BY <2>1, <2>3
<1>4. op.name \in DOMAIN l.bound => ~Changes(op, l.bound[op.name])
  <2> SUFFICES ASSUME op.name \in DOMAIN l.bound PROVE ~Changes(op, l.bound[op.name])
    OBVIOUS
  <2>1. l.bound[op.name] = "plain" \/ op.name \in Named(module) \cup MutableBindings(module)
    BY DEF Quiet, IsBoundTo
  <2> QED BY <1>2, <1>3, <2>1 DEF Changes
<1>5. op.name \in DOMAIN l.fixtures => l.fixtures[op.name] # "module"
  BY DEF Quiet
<1> QED BY <1>4, <1>5 DEF Perform

\* Two runs of a test in processes with the same past: they observe the same, and
\* leave the past alone.
ObserveAlike(a, b, test, l) ==
  \E observed :
    /\ RunTest(a, test, l) =
         [memory |-> a.memory, results |-> Rebind(a.results, test.local, observed)]
    /\ RunTest(b, test, l) =
         [memory |-> a.memory, results |-> Rebind(b.results, test.local, observed)]

\* What a test observes depends on the memory it starts with, and on nothing else.
LEMMA RunsAlike ==
  ASSUME NEW module, Separable(module), NEW l, Quiet(l, module, Len(module)),
         NEW test \in OfKind(module, {"def"}), NEW a, NEW b, a.memory = b.memory
  PROVE  ObserveAlike(a, b, test, l)
<1> PICK n, memory : n = Len(test.body) /\ memory = a.memory
  OBVIOUS
<1>1. n \in Nat /\ \A k \in 1 .. n : test.body[k] \in ToSet(test.body)
  <2>1. PICK k \in DOMAIN module : test = module[k]
    BY DEF OfKind, Statements, ToSet
  <2>2. IsSequence(test.body)
    BY <2>1 DEF OfKind, Separable, WellFormed, Defined
  <2> QED BY <2>2, SequencesAre
<1>2. PICK f : Performs(f, a, test, l)
  BY <1>1, RunningUnfolds
<1>3. PICK g : Performs(g, b, test, l)
  BY <1>1, RunningUnfolds
<1> DEFINE S == {k \in 0 .. n : f[k] = g[k] /\ f[k].memory = memory}
<1>4. 0 \in S
  BY <1>1, <1>2, <1>3 DEF Performs
<1>5. \A k \in 1 .. n : k - 1 \in S => k \in S
  <2> SUFFICES ASSUME NEW k \in 1 .. n, k - 1 \in S PROVE f[k] = g[k] /\ f[k].memory = memory
    BY <1>1
  <2>1. f[k] = Perform(f[k - 1], test.body[k], l) /\ g[k] = Perform(g[k - 1], test.body[k], l)
    BY <1>2, <1>3 DEF Performs
  <2>2. Perform(f[k - 1], test.body[k], l).memory = f[k - 1].memory
    BY <1>1, ChangesNothing
  <2> QED BY <2>1, <2>2
<1>6. n \in S
  <2> HIDE DEF S
  <2>1. \A k \in 0 .. n : k \in S
    BY <1>1, <1>4, <1>5, Induction
  <2> QED BY <1>1, <2>1
<1>7. /\ RunTest(a, test, l) =
           [memory |-> memory, results |-> Rebind(a.results, test.local, f[n].observed)]
      /\ RunTest(b, test, l) =
           [memory |-> memory, results |-> Rebind(b.results, test.local, f[n].observed)]
  BY <1>2, <1>3, <1>6 DEF Performs
<1> QED BY <1>7 DEF ObserveAlike

\* A test observes the same with one company as with another.
ObservesTheSame(n, l, names1, names2) == ResultsOf(l, names1)[n] = ResultsOf(l, names2)[n]

\* Two processes of which each runs the test n agree about it, whatever else they run.
LEMMA ResultsAgree ==
  ASSUME NEW module, Separable(module), NEW l, Quiet(l, module, Len(module)),
         NEW names1, NEW names2, NEW n, n \in names1, n \in names2, n \in TestNames(l)
  PROVE  ObservesTheSame(n, l, names1, names2)
<1> PICK m : m = Len(l.tests)
  OBVIOUS
<1>1. /\ m \in Nat /\ DOMAIN l.tests = 1 .. m
      /\ \A k \in 1 .. m : l.tests[k] \in OfKind(module, {"def"})
  BY DEF Quiet
<1>2. PICK f : Goes(f, l, names1)
  BY <1>1, ResultsUnfold
<1>3. PICK g : Goes(g, l, names2)
  BY <1>1, ResultsUnfold
<1> DEFINE Agree(k) ==
             /\ f[k].memory = << >> /\ g[k].memory = << >>
             /\ n \in DOMAIN f[k].results <=> n \in DOMAIN g[k].results
             /\ n \in DOMAIN f[k].results => f[k].results[n] = g[k].results[n]
             /\ \A j \in 1 .. k : l.tests[j].local = n => n \in DOMAIN f[k].results
           S == {k \in 0 .. m : Agree(k)}
<1>4. 0 \in S
  BY <1>1, <1>2, <1>3 DEF Goes
<1>5. \A k \in 1 .. m : k - 1 \in S => k \in S
  <2> SUFFICES ASSUME NEW k \in 1 .. m, k - 1 \in S PROVE Agree(k)
    BY <1>1
  <2>1. PICK test : test = l.tests[k]
    OBVIOUS
  <2>2. test \in OfKind(module, {"def"})
    BY <1>1, <2>1
  <2>3. PICK a, b : a = f[k - 1] /\ b = g[k - 1]
    OBVIOUS
  <2>4. /\ f[k] = IF test.local \in names1 THEN RunTest(a, test, l) ELSE a
        /\ g[k] = IF test.local \in names2 THEN RunTest(b, test, l) ELSE b
    BY <1>2, <1>3, <2>1, <2>3 DEF Goes
  <2>5. /\ a.memory = << >> /\ b.memory = << >>
        /\ n \in DOMAIN a.results <=> n \in DOMAIN b.results
        /\ n \in DOMAIN a.results => a.results[n] = b.results[n]
        /\ \A j \in 1 .. k - 1 : l.tests[j].local = n => n \in DOMAIN a.results
    BY <2>3
  <2>6. PICK observed :
          /\ RunTest(a, test, l) =
               [memory |-> a.memory, results |-> Rebind(a.results, test.local, observed)]
          /\ RunTest(b, test, l) =
               [memory |-> a.memory, results |-> Rebind(b.results, test.local, observed)]
    <3>1. a.memory = b.memory
      BY <2>5
    <3>2. ObserveAlike(a, b, test, l)
      BY <2>2, <3>1, RunsAlike
    <3> QED BY <3>2 DEF ObserveAlike
  <2>7. f[k].memory = << >> /\ g[k].memory = << >>
    BY <2>4, <2>5, <2>6
  <2>8. CASE test.local = n
    <3>1. f[k] = RunTest(a, test, l) /\ g[k] = RunTest(b, test, l)
      BY <2>4, <2>8
    <3>2. /\ n \in DOMAIN f[k].results /\ f[k].results[n] = observed
          /\ n \in DOMAIN g[k].results /\ g[k].results[n] = observed
      BY <2>6, <2>8, <3>1 DEF Rebind
    <3> QED BY <2>7, <3>2
  <2>9. CASE test.local # n
    <3>1. /\ n \in DOMAIN f[k].results <=> n \in DOMAIN a.results
          /\ n \in DOMAIN a.results => f[k].results[n] = a.results[n]
      <4>1. CASE test.local \in names1
        BY <2>4, <2>6, <2>9, <4>1 DEF Rebind
      <4>2. CASE test.local \notin names1
        BY <2>4, <4>2
      <4> QED BY <4>1, <4>2
    <3>2. /\ n \in DOMAIN g[k].results <=> n \in DOMAIN b.results
          /\ n \in DOMAIN b.results => g[k].results[n] = b.results[n]
      <4>1. CASE test.local \in names2
        BY <2>4, <2>6, <2>9, <4>1 DEF Rebind
      <4>2. CASE test.local \notin names2
        BY <2>4, <4>2
      <4> QED BY <4>1, <4>2
    <3>3. \A j \in 1 .. k : l.tests[j].local = n => n \in DOMAIN a.results
      <4> SUFFICES ASSUME NEW j \in 1 .. k, l.tests[j].local = n PROVE n \in DOMAIN a.results
        OBVIOUS
      <4>1. j # k
        BY <2>1, <2>9
      <4>2. j \in 1 .. k - 1
        BY <1>1, <4>1
      <4> QED BY <2>5, <4>2
    <3> QED BY <2>5, <2>7, <3>1, <3>2, <3>3
  <2> QED BY <2>8, <2>9
<1>6. m \in S
  <2> HIDE DEF S
  <2>1. \A k \in 0 .. m : k \in S
    BY <1>1, <1>4, <1>5, Induction
  <2> QED BY <1>1, <2>1
<1>7. PICK j \in 1 .. m : l.tests[j].local = n
  BY <1>1 DEF TestNames, ToSet
<1>8. f[m].results[n] = g[m].results[n]
  BY <1>1, <1>6, <1>7
<1> QED BY <1>2, <1>3, <1>8 DEF Goes, ObservesTheSame

\* Whatever a module holds: a provider is noted when it is imported.
LEMMA ExecutesToSomething ==
  ASSUME NEW now, IsLoaded(now), now.effects \in Nat, NEW s, s.kind \in Kinds \ {"unparsable"},
         NEW helper, NEW world, NEW next, next = Execute(now, s, helper, world)
  PROVE  /\ IsLoaded(next) /\ next.effects \in Nat /\ now.imported \subseteq next.imported
         /\ s.kind = "from" /\ s.origin = "provider" => s.local \in next.imported
<1>1. PICK b, z, f, i, t :
        b = now.bound /\ z = now.effects /\ f = now.fixtures /\ i = now.imported /\ t = now.tests
  OBVIOUS
<1>2. now = [bound |-> b, effects |-> z, fixtures |-> f, imported |-> i, tests |-> t] /\ z \in Nat
  BY <1>1 DEF IsLoaded
<1>3. ASSUME NEW definition, next = Define(now, definition, world)
      PROVE  IsLoaded(next) /\ next.effects \in Nat /\ next.imported = now.imported
  BY <1>3, DefineIs DEF IsLoaded
<1>4. CASE s.kind = "from"
  <2>0. PICK imported : imported = IF s.origin = "provider" THEN i \cup {s.local} ELSE i
    OBVIOUS
  <2>1. PICK bound, fixtures :
          next = [now EXCEPT !.bound = bound, !.fixtures = fixtures, !.imported = imported]
    BY <1>1, <1>4, <2>0 DEF Execute
  <2>2. next = [bound |-> bound, effects |-> z, fixtures |-> fixtures, imported |-> imported,
                tests |-> t]
    BY <1>2, <2>1
  <2>3. IsLoaded(next) /\ next.effects = z /\ next.imported = imported
    BY <2>2 DEF IsLoaded
  <2> QED BY <1>1, <1>2, <2>0, <2>3
<1>8. ASSUME NEW bound, NEW e \in Nat, next = [now EXCEPT !.bound = bound, !.effects = e]
      PROVE  IsLoaded(next) /\ next.effects \in Nat /\ next.imported = now.imported
  <2>1. next = [bound |-> bound, effects |-> e, fixtures |-> f, imported |-> i, tests |-> t]
    BY <1>2, <1>8
  <2> QED BY <1>1, <1>8, <2>1 DEF IsLoaded
<1>5. CASE s.kind \in {"star", "bind", "class", "attribute", "expression"}
  <2>1. CASE s.kind = "star"
    <3>1. PICK bound : next = [now EXCEPT !.bound = bound]
      BY <2>1 DEF Execute
    <3>2. next = [now EXCEPT !.bound = bound, !.effects = z]
      <4>1. next = [bound |-> bound, effects |-> z, fixtures |-> f, imported |-> i, tests |-> t]
        BY <1>2, <3>1
      <4>2. PICK other : other = [now EXCEPT !.bound = bound, !.effects = z]
        OBVIOUS
      <4>3. other = [bound |-> bound, effects |-> z, fixtures |-> f, imported |-> i, tests |-> t]
        BY <1>2, <4>2
      <4> QED BY <4>1, <4>2, <4>3
    <3> QED BY <1>2, <1>8, <2>1, <3>2
  <2>2. CASE s.kind \in {"bind", "class", "attribute"}
    <3>1. PICK e : e = z + (IF IsCall(s.value) THEN 1 ELSE 0)
      OBVIOUS
    <3>2. e \in Nat
      BY <1>2, <3>1
    <3>3. PICK bound : next = [now EXCEPT !.bound = bound, !.effects = e]
      <4>1. CASE s.kind = "bind"
        BY <1>1, <3>1, <4>1 DEF Execute
      <4>2. CASE s.kind \in {"class", "attribute"}
        <5>1. PICK bound : bound = Rebind(b, s.local,
                                          IF Kind(s.value) = "container" THEN "container" ELSE "class")
          OBVIOUS
        <5>2. next = [now EXCEPT !.bound = bound, !.effects = e]
          <6>1. CASE s.kind = "class"
            BY <1>1, <3>1, <5>1, <6>1 DEF Execute
          <6>2. CASE s.kind = "attribute"
            BY <1>1, <3>1, <5>1, <6>2 DEF Execute
          <6> QED BY <4>2, <6>1, <6>2
        <5> QED BY <5>2
      <4> QED BY <2>2, <4>1, <4>2
    <3> QED BY <1>8, <2>2, <3>2, <3>3
  <2>3. CASE s.kind = "expression"
    <3>1. PICK e : e = z + 1
      OBVIOUS
    <3>2. e \in Nat
      BY <1>2, <3>1
    <3>3. next = [now EXCEPT !.effects = e]
      BY <1>1, <2>3, <3>1 DEF Execute
    <3>4. next = [bound |-> b, effects |-> e, fixtures |-> f, imported |-> i, tests |-> t]
      BY <1>2, <3>3
    <3> QED BY <1>1, <2>3, <3>2, <3>4 DEF IsLoaded
  <2> QED BY <1>5, <2>1, <2>2, <2>3
<1>6. CASE s.kind = "branch"
  <2>1. next = now \/ next = Define(now, s.definition, world)
    BY <1>6 DEF Execute
  <2> QED BY <1>3, <1>6, <2>1
<1>7. CASE s.kind = "def"
  <2>1. next = Define(now, s, world)
    BY <1>7 DEF Execute
  <2> QED BY <1>3, <1>7, <2>1
<1> QED BY <1>4, <1>5, <1>6, <1>7 DEF Kinds

\* The calls of an import can be counted, and a provider does not go unnoticed.
LEMMA LoadsToSomething ==
  ASSUME NEW module, WellFormed(module), Parses(module), NEW helper, NEW world,
         NEW l, l = LoadModule(module, helper, world)
  PROVE  /\ l.effects \in Nat
         /\ \A s \in OfKind(module, {"from"}) : s.origin = "provider" => s.local \in l.imported
<1> PICK n : n = Len(module)
  OBVIOUS
<1>1. n \in Nat /\ DOMAIN module = 1 .. n
  BY SequencesAre DEF WellFormed
<1>2. PICK states : Loads(states, module, helper, world)
  BY <1>1, LoadingUnfolds
<1> DEFINE Noted(k) == \A j \in 1 .. k :
                         module[j].kind = "from" /\ module[j].origin = "provider"
                           => module[j].local \in states[k].imported
           S == {k \in 0 .. n : IsLoaded(states[k]) /\ states[k].effects \in Nat /\ Noted(k)}
<1>3. 0 \in S
  <2>1. states[0] = NothingLoaded
    BY <1>2 DEF Loads
  <2>2. IsLoaded(states[0]) /\ states[0].effects = 0
    BY <2>1 DEF IsLoaded, NothingLoaded
  <2> QED BY <1>1, <2>2
<1>4. \A k \in 1 .. n : k - 1 \in S => k \in S
  <2> SUFFICES ASSUME NEW k \in 1 .. n, k - 1 \in S PROVE k \in S
    OBVIOUS
  <2>1. states[k] = Execute(states[k - 1], module[k], helper, world)
    BY <1>2 DEF Loads
  <2>2. IsLoaded(states[k - 1]) /\ states[k - 1].effects \in Nat /\ Noted(k - 1)
    OBVIOUS
  <2>3. module[k].kind \in Kinds \ {"unparsable"}
    BY <1>1 DEF WellFormed, Parses, OfKind, Statements, ToSet
  <2>4. /\ IsLoaded(states[k]) /\ states[k].effects \in Nat
        /\ states[k - 1].imported \subseteq states[k].imported
        /\ module[k].kind = "from" /\ module[k].origin = "provider"
             => module[k].local \in states[k].imported
    BY <2>1, <2>2, <2>3, ExecutesToSomething
  <2>5. Noted(k)
    <3> SUFFICES ASSUME NEW j \in 1 .. k, module[j].kind = "from", module[j].origin = "provider"
                 PROVE  module[j].local \in states[k].imported
      OBVIOUS
    <3>1. CASE j = k
      BY <2>4, <3>1
    <3>2. CASE j # k
      <4>1. j \in 1 .. k - 1
        BY <1>1, <3>2
      <4> QED BY <2>2, <2>4, <4>1
    <3> QED BY <3>1, <3>2
  <2> QED BY <1>1, <2>4, <2>5
<1>5. n \in S
  <2> HIDE DEF S
  <2>1. \A k \in 0 .. n : k \in S
    BY <1>1, <1>3, <1>4, Induction
  <2> QED BY <1>1, <2>1
<1>6. l = states[n]
  BY <1>2 DEF Loads
<1>7. ASSUME NEW s \in OfKind(module, {"from"}), s.origin = "provider"
      PROVE  s.local \in l.imported
  <2>1. PICK j \in 1 .. n : s = module[j]
    BY <1>1 DEF OfKind, Statements, ToSet
  <2> QED BY <1>5, <1>6, <1>7, <2>1 DEF OfKind
<1> QED BY <1>5, <1>6, <1>7

-----------------------------------------------------------------------------
(***************************************************************************)
(* The inductive invariant of a run that nobody disturbs: what is loaded,  *)
(* fingerprinted, planned and imported is what the sources say, as long as *)
(* no source was edited since.                                             *)
(***************************************************************************)
\* It takes no fixture from another file.
NoProviders(module) == \A s \in OfKind(module, {"from"}) : s.origin # "provider"

\* What the producer of a plan has seen of a file that it finds eligible.
Allows(module) == SourceAllowsSharding(module) /\ NoProviders(module)

\* Whatever is edited, a test file holds a module or is absent.
DiskIsKnown == \A file \in TestFiles : disk[file] \in Modules \cup {OtherModule, Absent}

\* Everything a discovery finds now.
Importable == {f \in Inventory : CanBeImported(f)}
AllTests == UNION {{<<file, n>> : n \in TestNames(Load(file))} : file \in Importable}

\* What was loaded is what the sources say, and nothing else is an issue.
LoadedIsFresh ==
  stage \in {"fingerprint", "collected"} \cup Making /\ edited = {} =>
    /\ loaded = [file \in Importable |-> Load(file)]
    /\ issues = {f \in Inventory : ~CanBeImported(f)}

\* What some test files import.
DependenciesOf(files) == UNION {Dependencies(file) : file \in files}

\* Each file that was listed has its digest or is due, and so has each dependency of
\* those that were read for their imports.
DigestsAreFresh ==
  stage \in Making /\ edited = {} =>
    /\ manifest.digests = [s \in DOMAIN manifest.digests |-> disk[s]]
    /\ \A s \in DOMAIN manifest.digests : disk[s] # Absent
    /\ stage = "listing" =>
         /\ unread \subseteq Inventory
         /\ Listed = Inventory \cup DependenciesOf(Inventory \ unread)
    /\ stage = "assess" =>
         DOMAIN manifest.digests = Inventory \cup DependenciesOf(Inventory)

\* The tests of the files with a digest, as far as digests tell.
TestsIn(digests) ==
  UNION {{<<file, n>> : n \in TestNames(LoadModule(digests[file], digests["helper"][1], "test"))} :
           file \in TestFiles \cap DOMAIN digests}

\* A manifest that is true of the sources its digests stand for, wherever they are now.
Describes(made) ==
  /\ DOMAIN made.digests \subseteq Sources
  /\ \A s \in DOMAIN made.digests : made.digests[s] # Absent
  /\ \A file \in TestFiles \cap DOMAIN made.digests : Parses(made.digests[file])
  /\ "shadow" \notin DOMAIN made.digests => made.tests = TestsIn(made.digests)
  /\ \A file \in made.eligible : Allows(made.digests[file])

\* The fields of a manifest; only a file with tests is eligible.
IsManifest(made) ==
  /\ made = [digests |-> made.digests, tests |-> made.tests, eligible |-> made.eligible]
  /\ made.eligible \subseteq FilesOf(made.tests)

\* The manifest, once it is made, and a plan that is trusted.
ManifestIsTrue ==
  /\ IsManifest(manifest) /\ IsManifest(plan)
  /\ stage \notin Before \cup Making /\ disturbed = {} /\ manifest # NoManifest =>
       Describes(manifest)
  /\ Trusted => plan = manifest /\ stage \notin Before \cup Making
  /\ stage \notin HasJobs \cup {"dispatch"} => ~Trusted

\* Nothing was edited since the run has begun, or while the manifest was made.
Calm == edited = {} /\ (Trusted => disturbed = {}) /\ disk["shadow"] = Absent

\* What the run goes by, while nothing was edited.
PlanIsTrue ==
  stage \in HasJobs \cup {"dispatch"} /\ Calm =>
    /\ plan.tests = AllTests
    /\ \A file \in plan.eligible : Allows(disk[file])
    /\ Trusted => \A s \in DOMAIN plan.digests : disk[s] = plan.digests[s]

\* What a test gives in a process that runs its whole file, and has just begun.
OrdinaryResult(file, n) ==
  LET module == Load(file)
  IN [observed |-> ResultsOf(module, TestNames(module))[n], calls |-> module.effects]

\* A worker that was given all tests of a file.
Whole(job) == ~job.retry /\ job.file \notin plan.eligible

\* A worker has tests of the plan; one if their file may be divided, and all of the file
\* if it may not. What it has found is what an ordinary run finds.
JobIsTrue(job) ==
  /\ job.names # {} /\ {<<job.file, n>> : n \in job.names} \subseteq plan.tests
  /\ job.stage \in {"checking", "running", "done", "lost"}
  /\ job.unchecked \subseteq ExpectedSources(job.file)
  /\ job.file \in plan.eligible => \E n \in job.names : job.names = {n}
  /\ Whole(job) =>
       /\ \A t \in plan.tests : t[1] = job.file => t[2] \in job.names
       /\ job.stage = "checking" => imports[job.file] = 0
  /\ job.stage \in {"running", "done"} =>
       \A n \in job.names :
         \/ job.results[n] = OrdinaryResult(job.file, n)
         \/ job.retry /\ job.file \notin plan.eligible
         \/ Unreliable(job.file)

\* Every worker, and all of them: a file that is not divided has one worker, and a file
\* that is calls nothing when it is imported; no test is left out.
JobsAreTrue ==
  stage \in HasJobs /\ Calm =>
    /\ \A job \in jobs : JobIsTrue(job)
    /\ \A job, other \in jobs : Whole(job) /\ other.file = job.file => other = job
    /\ \A file \in plan.eligible : Unreliable(file) \/ imports[file] = 0
    /\ \A t \in plan.tests : \E job \in jobs : job.file = t[1] /\ t[2] \in job.names
    /\ stage = "over" => \A job \in jobs : job.stage \in {"done", "lost"}

\* Nothing was imported before there are workers.
ImportsAreCounted ==
  /\ DOMAIN imports = TestFiles
  /\ stage \notin HasJobs => \A file \in TestFiles : imports[file] = 0

\* Together they are inductive, given Inv.
CalmInv ==
  /\ DiskIsKnown /\ LoadedIsFresh /\ DigestsAreFresh /\ ManifestIsTrue
  /\ PlanIsTrue /\ JobsAreTrue /\ ImportsAreCounted

-----------------------------------------------------------------------------
(***************************************************************************)
(* What is made of the sources.                                            *)
(***************************************************************************)
\* A test file on disk can be a module.
LEMMA KnownModules ==
  ASSUME NEW module \in Modules \cup {OtherModule}
  PROVE  /\ WellFormed(module)
         /\ OfKind(module, {"branch"}) # {} => ImportsHelper(module)
  BY ModulesAssumption

\* The tests of a module do not depend on what it reads from elsewhere, but for a
\* condition.
LEMMA TestsStay ==
  ASSUME NEW module \in Modules \cup {OtherModule}, Parses(module),
         NEW helper1, NEW helper2, ImportsHelper(module) => helper1 = helper2,
         NEW world1, NEW world2
  PROVE  TestNames(LoadModule(module, helper1, world1)) =
           TestNames(LoadModule(module, helper2, world2))
<1>1. Alike(LoadModule(module, helper1, world1), LoadModule(module, helper2, world2))
  BY KnownModules, LoadsAlike
<1> QED BY <1>1 DEF Alike, TestNames

\* A file that may be divided needs nothing from elsewhere.
LEMMA EligibleAllows ==
  ASSUME NEW module, WellFormed(module), NEW helper, NEW world,
         Eligible(module, LoadModule(module, helper, world))
  PROVE  Allows(module)
<1>1. Parses(module) /\ SourceAllowsSharding(module)
  BY DEF Eligible, SourceAllowsSharding
<1>2. PICK l : l = LoadModule(module, helper, world)
  OBVIOUS
<1>3. l.imported = {}
  BY <1>2 DEF Eligible
<1>4. \A s \in OfKind(module, {"from"}) : s.origin = "provider" => s.local \in l.imported
  BY <1>1, <1>2, LoadsToSomething
<1> QED BY <1>1, <1>3, <1>4 DEF Allows, NoProviders

\* What assess_collection_sharding is worth: a test module that it finds eligible, and
\* that does nothing the documentation leaves to the project, calls no code from
\* elsewhere when it is imported, and each of its tests observes alone what it
\* observes among all of them, whatever module it is.
THEOREM DivisionIsUnobservable ==
  ASSUME NEW module, WellFormed(module), NEW helper, NEW world,
         Eligible(module, LoadModule(module, helper, world)),
         ~Undetected(module), ~RenamedFixtureDecorator(module)
  PROVE  LET made == LoadModule(module, helper, world)
         IN /\ made.effects = 0
            /\ \A n \in TestNames(made) :
                 ResultsOf(made, {n})[n] = ResultsOf(made, TestNames(made))[n]
<1> PICK l : l = LoadModule(module, helper, world)
  OBVIOUS
<1>1. Allows(module)
  BY EligibleAllows
<1>2. Separable(module)
  BY <1>1 DEF Separable, Allows, NoProviders
<1>3. Quiet(l, module, Len(module))
  BY <1>2, LoadsQuietly
<1>4. ASSUME NEW n \in TestNames(l)
      PROVE  ResultsOf(l, {n})[n] = ResultsOf(l, TestNames(l))[n]
  <2> PICK alone, all : alone = {n} /\ all = TestNames(l)
    OBVIOUS
  <2>1. n \in alone /\ n \in all
    OBVIOUS
  <2>2. ObservesTheSame(n, l, alone, all)
    BY <1>2, <1>3, <2>1, ResultsAgree
  <2> QED BY <2>2 DEF ObservesTheSame
<1> QED BY <1>3, <1>4 DEF Quiet

\* What can be imported parses, and everything else it reads does.
LEMMA ImportableAre ==
  ASSUME DiskIsKnown, NEW file \in Importable
  PROVE  /\ file \in Inventory /\ file \in TestFiles /\ disk[file] # Absent
         /\ disk[file] \in Modules \cup {OtherModule} /\ Parses(disk[file])
  BY DEF DiskIsKnown, Importable, Inventory, Present, CanBeImported, TestFilesRead

\* Whatever is made of the sources and the world outside stays while they do.
LEMMA SourcesStay ==
  ASSUME UNCHANGED <<disk, outside>>
  PROVE  /\ Importable' = Importable /\ AllTests' = AllTests
         /\ \A file : (Load(file))' = Load(file)
         /\ \A file : Unreliable(file)' <=> Unreliable(file)
         /\ \A file, n : OrdinaryResult(file, n)' = OrdinaryResult(file, n)
<1>1. \A file : (Load(file))' = Load(file)
  BY DEF Load, HelperFile
<1>2. Importable' = Importable
  BY DEF Importable, Inventory, Present, CanBeImported, TestFilesRead
<1>3. AllTests' = AllTests
  BY <1>1, <1>2 DEF AllTests
<1>4. \A file : Unreliable(file)' <=> Unreliable(file)
  BY DEF Unreliable
<1>5. \A file, n : OrdinaryResult(file, n)' = OrdinaryResult(file, n)
  BY <1>1 DEF OrdinaryResult
<1> QED BY <1>1, <1>2, <1>3, <1>4, <1>5

-----------------------------------------------------------------------------
(***************************************************************************)
(* The manifest and the plan are true of the sources.                      *)
(***************************************************************************)
\* Init: there is nothing yet to be true of.
LEMMA StartsCalm ==
  ASSUME Init
  PROVE  CalmInv
<1>1. DiskIsKnown
  <2>1. PICK f \in Modules, g \in {OtherModule, Absent} :
          disk = [test_f |-> f, test_g |-> g, helper |-> <<0>>, shadow |-> Absent]
    BY DEF Init
  <2>2. disk["test_f"] = f /\ disk["test_g"] = g
    BY <2>1
  <2> QED BY <2>2 DEF DiskIsKnown, TestFiles, First, Other
<1>2. IsManifest(NoManifest)
  BY DEF IsManifest, NoManifest
<1>3. ManifestIsTrue
  BY <1>2 DEF Init, ManifestIsTrue, Before, HasJobs, Trusted, NoManifest, Making
<1> QED BY <1>1, <1>3 DEF Init, CalmInv, LoadedIsFresh, DigestsAreFresh, PlanIsTrue, JobsAreTrue,
    ImportsAreCounted, HasJobs, Making

\* _discover: what is loaded is what the files hold now.
LEMMA DiscoverCalm ==
  ASSUME CalmInv, Discover
  PROVE  CalmInv'
<1>1. DiskIsKnown'
  BY DEF CalmInv, DiskIsKnown, Discover, editVars, listVars
<1>2. LoadedIsFresh'
  <2>1. UNCHANGED <<disk, outside>>
    BY DEF Discover, editVars, listVars
  <2>2. Importable' = Importable /\ Inventory' = Inventory
        /\ \A file : (Load(file))' = Load(file) /\ (CanBeImported(file)' <=> CanBeImported(file))
    BY <2>1, SourcesStay DEF Inventory, Present, CanBeImported, TestFilesRead
  <2> QED BY <2>2 DEF LoadedIsFresh, Discover, Importable, Making, editVars, listVars
<1>3. DigestsAreFresh' /\ PlanIsTrue' /\ JobsAreTrue'
  BY DEF DigestsAreFresh, PlanIsTrue, JobsAreTrue, Discover, HasJobs, Making, editVars, listVars
<1>4. ManifestIsTrue'
  BY DEF CalmInv, ManifestIsTrue, IsManifest, Discover, Before, HasJobs, Trusted, Making,
         editVars, listVars
<1> QED BY <1>1, <1>2, <1>3, <1>4
  DEF CalmInv, ImportsAreCounted, Discover, HasJobs, editVars, listVars

\* What depends on the sources alone, and on what was loaded.
LEMMA StillFresh ==
  ASSUME CalmInv, stage \in {"fingerprint"} \cup Making, stage' \in Making,
         UNCHANGED <<disk, outside, loaded, issues, edited, plan, disturbed, imports>>,
         IsManifest(manifest')
  PROVE  /\ DiskIsKnown' /\ LoadedIsFresh' /\ ManifestIsTrue' /\ PlanIsTrue' /\ JobsAreTrue'
         /\ ImportsAreCounted'
         /\ Inventory' = Inventory /\ \A file : Dependencies(file)' = Dependencies(file)
<1>1. Importable' = Importable /\ Inventory' = Inventory
      /\ \A file : (Load(file))' = Load(file) /\ (CanBeImported(file)' <=> CanBeImported(file))
  BY SourcesStay DEF Inventory, Present, CanBeImported, TestFilesRead
<1>2. LoadedIsFresh'
  BY <1>1 DEF CalmInv, LoadedIsFresh, Making
<1>3. ManifestIsTrue'
  BY DEF CalmInv, ManifestIsTrue, IsManifest, Before, Making, HasJobs, Trusted, FilesOf
<1>4. DiskIsKnown' /\ PlanIsTrue' /\ JobsAreTrue' /\ ImportsAreCounted'
  BY DEF CalmInv, DiskIsKnown, PlanIsTrue, JobsAreTrue, ImportsAreCounted, Making, HasJobs
<1>5. \A file : Dependencies(file)' = Dependencies(file)
  BY DEF Dependencies, Present
<1> QED BY <1>1, <1>2, <1>3, <1>4, <1>5

\* enumerate_test_files: all files are listed, and none was read.
LEMMA ListFilesCalm ==
  ASSUME CalmInv, Inv, ListFiles
  PROVE  CalmInv'
<1>0. /\ stage = "fingerprint" /\ stage' = "listing" /\ unread' = Inventory /\ due' = Inventory
      /\ UNCHANGED <<disk, outside, loaded, issues, edited, plan, disturbed, imports, manifest>>
  BY DEF ListFiles, editVars, listVars
<1>1. manifest = NoManifest /\ IsManifest(manifest')
  BY <1>0 DEF Inv, ManifestIsSound, Before, CalmInv, ManifestIsTrue, Making
<1>2. /\ DiskIsKnown' /\ LoadedIsFresh' /\ ManifestIsTrue' /\ PlanIsTrue' /\ JobsAreTrue'
      /\ ImportsAreCounted' /\ Inventory' = Inventory
  BY <1>0, <1>1, StillFresh DEF Making
<1>3. DigestsAreFresh'
  <2>1. manifest'.digests = << >> /\ DOMAIN manifest'.digests = {}
    BY <1>0, <1>1 DEF NoManifest
  <2>2. Listed' = Inventory
    BY <1>0, <2>1 DEF Listed
  <2>3. (DependenciesOf(Inventory \ unread))' = {}
    BY <1>0, <1>2 DEF DependenciesOf
  <2>4. manifest'.digests = [s \in DOMAIN manifest'.digests |-> disk'[s]]
    BY <2>1
  <2> QED BY <1>0, <1>2, <2>1, <2>2, <2>3, <2>4 DEF DigestsAreFresh, Making
<1> QED BY <1>2, <1>3 DEF CalmInv

\* _local_import_dependencies: one more file was read.
LEMMA ReadImportsCalm ==
  ASSUME CalmInv, NEW file \in unread, ReadImports(file)
  PROVE  CalmInv'
<1>0. /\ stage = "listing" /\ stage' = "listing"
      /\ unread' = unread \ {file} /\ due' = due \cup Dependencies(file)
      /\ UNCHANGED <<disk, outside, loaded, issues, edited, plan, disturbed, imports, manifest>>
  BY DEF ReadImports, editVars, listVars
<1>1. IsManifest(manifest')
  BY <1>0 DEF CalmInv, ManifestIsTrue
<1>2. /\ DiskIsKnown' /\ LoadedIsFresh' /\ ManifestIsTrue' /\ PlanIsTrue' /\ JobsAreTrue'
      /\ ImportsAreCounted'
      /\ Inventory' = Inventory /\ \A f : Dependencies(f)' = Dependencies(f)
  BY <1>0, <1>1, StillFresh DEF Making
<1>3. DigestsAreFresh'
  <2> SUFFICES ASSUME edited = {} PROVE DigestsAreFresh'
    BY <1>0 DEF DigestsAreFresh, Making
  <2>1. unread \subseteq Inventory /\ Listed = Inventory \cup DependenciesOf(Inventory \ unread)
    BY <1>0 DEF CalmInv, DigestsAreFresh, Making
  <2>2. Listed' = Listed \cup Dependencies(file)
    BY <1>0 DEF Listed
  <2>3. Inventory \ unread' = (Inventory \ unread) \cup {file}
    BY <1>0, <2>1
  <2>4. (DependenciesOf(Inventory \ unread))' =
          DependenciesOf(Inventory \ unread) \cup Dependencies(file)
    BY <1>2, <2>3 DEF DependenciesOf
  <2>5. Listed' = Inventory' \cup (DependenciesOf(Inventory \ unread))'
    BY <1>2, <2>1, <2>2, <2>4
  <2> QED BY <1>0, <1>2, <2>1, <2>5 DEF CalmInv, DigestsAreFresh, Making
<1> QED BY <1>2, <1>3 DEF CalmInv

\* _hash_source: a digest is that of the source as it is.
LEMMA DigestCalm ==
  ASSUME CalmInv, Inv, stage = "listing", unread = {}, NEW source \in due, Digest(source)
  PROVE  CalmInv'
<1> PICK before : before = manifest.digests
  OBVIOUS
<1> PICK after : after = [s \in DOMAIN before \cup {source} |->
                           IF s = source THEN disk[s] ELSE before[s]]
  OBVIOUS
<1>0. /\ stage' = IF due = {source} THEN "assess" ELSE "listing"
      /\ due' = due \ {source} /\ disk[source] # Absent
      /\ UNCHANGED <<disk, outside, loaded, issues, edited, plan, disturbed, imports, unread>>
      /\ manifest' = [manifest EXCEPT !.digests = after]
  BY DEF Digest, editVars, listVars
<1>1. manifest' = [digests |-> after, tests |-> {}, eligible |-> {}]
  <2>1. manifest = [digests |-> before, tests |-> {}, eligible |-> {}]
    BY DEF Inv, ManifestIsSound, Making
  <2> QED BY <1>0, <2>1
<1>2. IsManifest(manifest')
  BY <1>1 DEF IsManifest
<1>3. /\ DiskIsKnown' /\ LoadedIsFresh' /\ ManifestIsTrue' /\ PlanIsTrue' /\ JobsAreTrue'
      /\ ImportsAreCounted'
      /\ Inventory' = Inventory /\ \A f : Dependencies(f)' = Dependencies(f)
  BY <1>0, <1>2, StillFresh DEF Making
<1>4. DigestsAreFresh'
  <2> SUFFICES ASSUME edited = {} PROVE DigestsAreFresh'
    BY <1>0 DEF DigestsAreFresh, Making
  <2>1. /\ before = [s \in DOMAIN before |-> disk[s]]
        /\ \A s \in DOMAIN before : disk[s] # Absent
        /\ Listed = Inventory \cup DependenciesOf(Inventory)
    BY DEF CalmInv, DigestsAreFresh, Making
  <2>2. after = [s \in DOMAIN after |-> disk[s]] /\ DOMAIN after = DOMAIN before \cup {source}
    BY <2>1
  <2>3. Listed' = Listed
    BY <1>0, <1>1, <2>2 DEF Listed
  <2>4. (DependenciesOf(Inventory))' = DependenciesOf(Inventory)
    BY <1>3 DEF DependenciesOf
  <2>5. stage' = "assess" => DOMAIN after = Listed
    BY <1>0, <2>2 DEF Listed
  <2>6. \A s \in DOMAIN after : disk[s] # Absent
    BY <1>0, <2>1, <2>2
  <2>7. Inventory' \ unread' = Inventory'
    BY <1>0
  <2>8. manifest'.digests = after
    BY <1>1
  <2>9. (DependenciesOf(Inventory \ unread))' = (DependenciesOf(Inventory))'
    BY <2>7 DEF DependenciesOf
  <2> QED
    BY <1>0, <1>3, <2>1, <2>2, <2>3, <2>4, <2>5, <2>6, <2>8, <2>9 DEF DigestsAreFresh, Making
<1> QED BY <1>3, <1>4 DEF CalmInv

\* A source is gone: there is no manifest to be true of anything.
LEMMA DigestFailsCalm ==
  ASSUME CalmInv, stage = "listing", NEW source, DigestFails(source)
  PROVE  CalmInv'
<1>0. /\ stage' = "built" /\ manifest' = NoManifest
      /\ UNCHANGED <<disk, outside, plan, imports, edited>>
  BY DEF DigestFails, editVars, listVars
<1>1. DiskIsKnown'
  BY <1>0 DEF CalmInv, DiskIsKnown
<1>2. LoadedIsFresh' /\ DigestsAreFresh' /\ PlanIsTrue' /\ JobsAreTrue'
  BY <1>0 DEF LoadedIsFresh, DigestsAreFresh, PlanIsTrue, JobsAreTrue, Making, HasJobs
<1>3. ManifestIsTrue'
  BY <1>0
  DEF CalmInv, ManifestIsTrue, IsManifest, NoManifest, Before, Making, HasJobs, Trusted, FilesOf
<1> QED BY <1>0, <1>1, <1>2, <1>3 DEF CalmInv, ImportsAreCounted, HasJobs

LEMMA FingerprintCalm ==
  ASSUME CalmInv, Inv, Fingerprint
  PROVE  CalmInv'
<1>1. PICK source : /\ source = NextInOrder(due)
                    /\ Digest(source) \/ DigestFails(source)
  BY DEF Fingerprint
<1>2. source \in due
  BY <1>1, NextIsDue DEF Inv, OnlySourcesAreListed, Fingerprint
<1> QED BY <1>1, <1>2, DigestCalm, DigestFailsCalm DEF Fingerprint

\* What the files of a discovery are eligible for, whenever nothing was edited since.
LEMMA EligibleFilesAre ==
  ASSUME CalmInv, loaded = [file \in Importable |-> Load(file)]
  PROVE  /\ EligibleFiles \subseteq FilesOf(Ids(loaded))
         /\ \A file \in EligibleFiles : file \in Importable /\ Allows(disk[file])
<1>1. FilesOf(Ids(loaded)) \subseteq Importable
  BY TestsAreOfFiles
<1>2. ASSUME NEW file \in EligibleFiles PROVE Allows(disk[file])
  <2>1. file \in Importable /\ Eligible(disk[file], loaded[file])
    BY <1>1 DEF EligibleFiles
  <2>2. Eligible(disk[file], LoadModule(disk[file], disk[HelperFile][1], outside))
    BY <2>1 DEF Load
  <2>3. WellFormed(disk[file])
    BY <2>1, ImportableAre, KnownModules DEF CalmInv
  <2> QED BY <2>2, <2>3, EligibleAllows
<1>3. EligibleFiles \subseteq FilesOf(Ids(loaded))
  BY DEF EligibleFiles
<1> QED BY <1>1, <1>2, <1>3

\* _local_import_dependencies: what an import may stand for, and exists.
LEMMA DependenciesAre ==
  /\ DependenciesOf(Inventory) \subseteq {"helper", "shadow"}
  /\ \A s \in DependenciesOf(Inventory) : disk[s] # Absent
  /\ \A file \in Inventory : ImportsHelper(disk[file]) =>
       DependenciesOf(Inventory) = Present({"helper", "shadow"})
  BY DEF DependenciesOf, Dependencies, Present

\* build_trusted_collection_manifest: what is made of sources nobody edits describes
\* them.
LEMMA MadeDescribes ==
  ASSUME CalmInv, DiskIsThere, stage = "assess", edited = {},
         NEW made, Acceptable(made),
         made.digests = manifest.digests, made.tests = Ids(loaded), made.eligible = EligibleFiles
  PROVE  Describes(made)
<1> PICK digests : digests = manifest.digests
  OBVIOUS
<1>1. digests = [s \in Inventory \cup DependenciesOf(Inventory) |-> disk[s]]
  BY DEF CalmInv, DigestsAreFresh, Making
<1>2. loaded = [file \in Importable |-> Load(file)] /\ issues = {f \in Inventory : ~CanBeImported(f)}
  BY DEF CalmInv, LoadedIsFresh, Making
<1>3. Importable = Inventory
  BY <1>2 DEF Acceptable, Importable
<1>4. Inventory \subseteq TestFiles /\ \A file \in Inventory : disk[file] # Absent
  BY DEF Inventory, Present
<1>5. TestFiles \cap DOMAIN digests = Inventory
  <2>1. TestFiles \cap {"helper", "shadow"} = {}
    BY DEF TestFiles, First, Other
  <2> QED BY <1>1, <1>4, <2>1, DependenciesAre
<1>6. \A s \in DOMAIN digests : s \in Sources /\ digests[s] # Absent /\ digests[s] = disk[s]
  BY <1>1, <1>4, DependenciesAre DEF Sources
<1>7. \A file \in Inventory :
        /\ digests[file] = disk[file] /\ Parses(disk[file])
        /\ disk[file] \in Modules \cup {OtherModule}
  BY <1>3, <1>5, <1>6, ImportableAre DEF CalmInv
<1>8. ASSUME "shadow" \notin DOMAIN digests PROVE Ids(loaded) = TestsIn(digests)
  <2>1. ASSUME NEW file \in Inventory
        PROVE  TestNames(loaded[file]) =
                 TestNames(LoadModule(digests[file], digests["helper"][1], "test"))
    <3>1. loaded[file] = LoadModule(disk[file], disk[HelperFile][1], outside)
      BY <1>2, <1>3 DEF Load
    <3>2. ImportsHelper(disk[file]) => disk[HelperFile][1] = digests["helper"][1]
      <4> SUFFICES ASSUME ImportsHelper(disk[file])
                   PROVE  disk[HelperFile][1] = digests["helper"][1]
        OBVIOUS
      <4>1. DependenciesOf(Inventory) = Present({"helper", "shadow"})
        BY DependenciesAre
      <4>2. disk["shadow"] = Absent
        BY <1>1, <1>8, <4>1 DEF Present
      <4>3. "helper" \in DOMAIN digests
        BY <1>1, <4>1 DEF Present, DiskIsThere
      <4>4. digests["helper"] = disk["helper"]
        BY <1>6, <4>3
      <4> QED BY <4>2, <4>4 DEF HelperFile
    <3> QED BY <1>7, <3>1, <3>2, TestsStay
  <2>2. DOMAIN loaded = Inventory
    BY <1>2, <1>3
  <2> QED BY <1>5, <2>1, <2>2 DEF Ids, TestsIn
<1>9. \A file \in EligibleFiles : Allows(digests[file])
  <2>1. \A file \in EligibleFiles : file \in Inventory /\ Allows(disk[file])
    BY <1>2, <1>3, EligibleFilesAre
  <2> QED BY <1>7, <2>1
<1> QED BY <1>5, <1>6, <1>7, <1>8, <1>9 DEF Describes

\* build_trusted_collection_manifest: a manifest is true of the sources, or there is none.
LEMMA AssessCalm ==
  ASSUME CalmInv, Inv, Assess
  PROVE  CalmInv'
<1>1. DiskIsKnown'
  BY DEF CalmInv, DiskIsKnown, Assess, editVars, listVars
<1>2. LoadedIsFresh' /\ DigestsAreFresh' /\ PlanIsTrue' /\ JobsAreTrue'
  BY DEF LoadedIsFresh, DigestsAreFresh, PlanIsTrue, JobsAreTrue, Assess, HasJobs, Making,
         editVars, listVars
<1>3. ManifestIsTrue'
  <2>1. PICK digests, tests, eligible :
          digests = manifest.digests /\ tests = Ids(loaded) /\ eligible = EligibleFiles
    OBVIOUS
  <2>2. PICK made : made = [digests |-> digests, tests |-> tests, eligible |-> eligible]
    OBVIOUS
  <2>3. manifest' = IF Acceptable(made) THEN made ELSE NoManifest
    <3>4. stage = "assess" /\ ManifestIsSound
      BY DEF Inv, Assess
    <3>1. manifest = [digests |-> digests, tests |-> {}, eligible |-> {}]
      BY <2>1, <3>4 DEF ManifestIsSound, Making
    <3>2. PICK filled : filled = [manifest EXCEPT !.tests = tests, !.eligible = eligible]
      OBVIOUS
    <3>3. filled = [digests |-> digests, tests |-> tests, eligible |-> eligible]
      BY <3>1, <3>2
    <3> QED BY <2>1, <2>2, <3>2, <3>3 DEF Assess, editVars, listVars
  <2>4. EligibleFiles \subseteq FilesOf(Ids(loaded))
    BY DEF EligibleFiles
  <2>5. IsManifest(made) /\ IsManifest(NoManifest)
    BY <2>1, <2>2, <2>4 DEF IsManifest, NoManifest
  <2>6. IsManifest(manifest)'
    <3>1. IsManifest(manifest')
      BY <2>3, <2>5
    <3> QED BY <3>1 DEF IsManifest, FilesOf
  <2>7. disturbed' = {} /\ manifest' # NoManifest => Describes(manifest')
    <3> SUFFICES ASSUME disturbed' = {}, manifest' # NoManifest PROVE Describes(manifest')
      OBVIOUS
    <3>1. manifest' = made /\ Acceptable(made) /\ edited = {} /\ stage = "assess"
      BY <2>3 DEF Assess, editVars, listVars
    <3>2. Describes(made)
      BY <2>1, <2>2, <3>1, MadeDescribes DEF Inv
    <3> QED BY <3>1, <3>2
  <2>8. Describes(manifest') <=> Describes(manifest)'
    BY DEF Describes, TestsIn, Allows
  <2> QED
    BY <2>6, <2>7, <2>8
    DEF CalmInv, ManifestIsTrue, IsManifest, Assess, Before, HasJobs, Trusted, FilesOf, Making,
        editVars, listVars
<1> QED BY <1>1, <1>2, <1>3 DEF CalmInv, ImportsAreCounted, Assess, HasJobs, editVars, listVars

\* verify_trusted_collection_manifest: a manifest that is verified has the tests that
\* a discovery would find.
LEMMA VerifiedIsTrue ==
  ASSUME DiskIsKnown, DiskIsThere, Describes(manifest), Sound(manifest, disturbed),
         disturbed = {}, Verified,
         disk["shadow"] = Absent
  PROVE  manifest.tests = AllTests /\ \A file \in manifest.eligible \cap TestFiles :
           file \in DOMAIN manifest.digests => Allows(disk[file])
<1> PICK digests : digests = manifest.digests
  OBVIOUS
<1>1. Inventory \subseteq DOMAIN digests /\ \A s \in DOMAIN digests : disk[s] = digests[s]
  BY DEF Verified
<1>2. TestFiles \cap DOMAIN digests = Inventory
  BY <1>1 DEF Describes, Inventory, Present
<1>3. "shadow" \notin DOMAIN digests
  BY <1>1 DEF Describes
<1>4. \A file \in Inventory : Parses(disk[file])
  BY <1>1, <1>2 DEF Describes
<1>5. Importable = Inventory
  BY <1>4 DEF Importable, CanBeImported, TestFilesRead, Inventory, Present, TestFiles
<1>6. HelperFile = "helper"
  BY DEF HelperFile
<1>7. ASSUME NEW file \in Inventory
      PROVE  TestNames(Load(file)) =
               TestNames(LoadModule(digests[file], digests["helper"][1], "test"))
  <2>1. file \in TestFiles \cap DOMAIN digests /\ digests[file] = disk[file]
    BY <1>1, <1>2
  <2>2. disk[file] \in Modules \cup {OtherModule}
    BY <1>5, ImportableAre
  <2>3. ImportsHelper(disk[file]) => disk["helper"][1] = digests["helper"][1]
    BY <1>1, <2>1 DEF Sound, Closed
  <2> QED BY <1>4, <1>6, <2>1, <2>2, <2>3, TestsStay DEF Load
<1>8. manifest.tests = TestsIn(digests)
  BY <1>3 DEF Describes
<1>9. TestsIn(digests) = AllTests
  BY <1>2, <1>5, <1>7 DEF TestsIn, AllTests
<1> QED BY <1>1, <1>8, <1>9 DEF Describes

\* A manifest without digests is none.
LEMMA DigestsMatter ==
  ASSUME NEW made, IsManifest(made), Sound(made, disturbed), made.digests = << >>
  PROVE  made = NoManifest
<1>1. FilesOf(made.tests) = {}
  BY DEF Sound
<1>2. made.tests = {}
  BY <1>1 DEF FilesOf
<1>3. made.eligible = {}
  BY <1>1 DEF IsManifest
<1> QED BY <1>2, <1>3 DEF IsManifest, NoManifest

\* _verified_trusted_collection: a run goes by a manifest that is true of its sources.
LEMMA StartCalm ==
  ASSUME CalmInv, Inv, Start
  PROVE  CalmInv'
<1>0. UNCHANGED <<disk, outside, manifest, disturbed>> /\ stage = "built" /\ edited' = {}
  BY DEF Start, editVars, listVars
<1>1. DiskIsKnown'
  BY <1>0 DEF CalmInv, DiskIsKnown
<1>2. LoadedIsFresh' /\ DigestsAreFresh' /\ JobsAreTrue' /\ ImportsAreCounted'
  BY DEF CalmInv, LoadedIsFresh, DigestsAreFresh, JobsAreTrue, ImportsAreCounted, Start, HasJobs,
         Making, editVars, listVars
<1>3. IsManifest(manifest) /\ IsManifest(plan) /\ Sound(manifest, disturbed)
      /\ (disturbed = {} /\ manifest # NoManifest => Describes(manifest)) /\ ~Trusted
  BY <1>0 DEF CalmInv, ManifestIsTrue, Inv, ManifestIsSound, Before, HasJobs, Making
<1>4. Describes(manifest)' <=> Describes(manifest)
  BY <1>0 DEF Describes, TestsIn, Allows
<1>5. CASE Verified
  <2>1. plan' = manifest /\ stage' = "dispatch"
    BY <1>5 DEF Start, editVars, listVars
  <2>2. ManifestIsTrue'
    BY <1>0, <1>3, <1>4, <2>1 DEF ManifestIsTrue, IsManifest, FilesOf, HasJobs, Before, Making
  <2>3. PlanIsTrue'
    <3> SUFFICES ASSUME Calm'
                 PROVE  /\ plan'.tests = AllTests'
                        /\ \A file \in plan'.eligible : Allows(disk'[file])
                        /\ \A s \in DOMAIN plan'.digests : disk'[s] = plan'.digests[s]
      BY DEF PlanIsTrue, Allows
    <3>1. manifest # NoManifest
      BY <1>5 DEF Verified
    <3>2. plan'.digests # << >>
      BY <1>3, <2>1, <3>1, DigestsMatter
    <3>3. disturbed = {} /\ disk["shadow"] = Absent
      BY <1>0, <3>2 DEF Calm, Trusted
    <3>4. Describes(manifest)
      BY <1>3, <3>1, <3>3
    <3>5. DiskIsKnown /\ DiskIsThere
      BY DEF CalmInv, Inv
    <3>6. manifest.tests = AllTests /\ \A file \in manifest.eligible \cap TestFiles :
            file \in DOMAIN manifest.digests => Allows(disk[file])
      BY <1>3, <1>5, <3>3, <3>4, <3>5, VerifiedIsTrue
    <3>7. \A file \in manifest.eligible : file \in TestFiles \cap DOMAIN manifest.digests
      BY <1>3 DEF IsManifest, Sound
    <3>8. AllTests' = AllTests
      BY <1>0, SourcesStay
    <3>9. \A s \in DOMAIN manifest.digests : disk[s] = manifest.digests[s]
      BY <1>5 DEF Verified
    <3> QED BY <1>0, <2>1, <3>6, <3>7, <3>8, <3>9
  <2> QED BY <1>1, <1>2, <2>2, <2>3 DEF CalmInv
<1>6. CASE ~Verified
  <2>1. plan' = plan /\ stage' = "collect"
    BY <1>6 DEF Start, editVars, listVars
  <2>2. ManifestIsTrue'
    BY <1>0, <1>3, <1>4, <2>1
    DEF ManifestIsTrue, IsManifest, FilesOf, HasJobs, Before, Trusted, Making
  <2>3. PlanIsTrue'
    BY <2>1 DEF PlanIsTrue, HasJobs
  <2> QED BY <1>1, <1>2, <2>2, <2>3 DEF CalmInv
<1> QED BY <1>5, <1>6

\* _discover_manifest: an ordinary run goes by what it has just discovered.
LEMMA AssessForRunCalm ==
  ASSUME CalmInv, AssessForRun
  PROVE  CalmInv'
<1>0. UNCHANGED <<disk, outside, manifest, disturbed, edited>> /\ stage = "collected" /\ stage' = "dispatch"
  BY DEF AssessForRun, editVars, listVars
<1>1. DiskIsKnown'
  BY <1>0 DEF CalmInv, DiskIsKnown
<1>2. LoadedIsFresh' /\ DigestsAreFresh' /\ JobsAreTrue' /\ ImportsAreCounted'
  BY <1>0
  DEF CalmInv, LoadedIsFresh, DigestsAreFresh, JobsAreTrue, ImportsAreCounted, AssessForRun,
      HasJobs, Making, editVars, listVars
<1> PICK tests, eligible : tests = Ids(loaded) /\ eligible = EligibleFiles
  OBVIOUS
<1>3. plan' = [digests |-> << >>, tests |-> tests, eligible |-> eligible]
  BY DEF AssessForRun, editVars, listVars
<1>4. ~Trusted'
  BY <1>3 DEF Trusted
<1>5. ManifestIsTrue'
  <2>1. eligible \subseteq FilesOf(tests)
    BY DEF EligibleFiles
  <2>2. IsManifest(plan)'
    BY <1>3, <2>1 DEF IsManifest, FilesOf
  <2>3. IsManifest(manifest) /\ (disturbed = {} /\ manifest # NoManifest => Describes(manifest))
    BY <1>0 DEF CalmInv, ManifestIsTrue, Before, Making
  <2>4. Describes(manifest)' <=> Describes(manifest)
    BY <1>0 DEF Describes, TestsIn, Allows
  <2> QED BY <1>0, <1>4, <2>2, <2>3, <2>4 DEF ManifestIsTrue, IsManifest, FilesOf
<1>6. PlanIsTrue'
  <2> SUFFICES ASSUME Calm' PROVE tests = AllTests' /\ \A file \in eligible : Allows(disk'[file])
    BY <1>3, <1>4 DEF PlanIsTrue, Allows
  <2>1. loaded = [file \in Importable |-> Load(file)]
    BY <1>0 DEF CalmInv, LoadedIsFresh, Calm, Making
  <2>2. Ids(loaded) = AllTests
    BY <2>1 DEF Ids, AllTests
  <2>3. \A file \in EligibleFiles : Allows(disk[file])
    BY <2>1, EligibleFilesAre
  <2>4. AllTests' = AllTests
    BY <1>0, SourcesStay
  <2> QED BY <1>0, <2>2, <2>3, <2>4
<1> QED BY <1>1, <1>2, <1>5, <1>6 DEF CalmInv

-----------------------------------------------------------------------------
(***************************************************************************)
(* The workers have the results of an ordinary run.                        *)
(***************************************************************************)
\* While a run goes on, what it goes by stays.
LEMMA CalmLasts ==
  ASSUME UNCHANGED <<disk, plan, edited, disturbed>>
  PROVE  Calm' <=> Calm
  BY DEF Calm, Trusted

\* What the manifest and the plan say stays, whatever the workers do.
LEMMA RunningCalm ==
  ASSUME CalmInv, UNCHANGED <<disk, outside, manifest, plan, edited, disturbed>>,
         stage \in HasJobs \cup {"dispatch"}, stage' \in HasJobs,
         DOMAIN imports' = TestFiles, JobsAreTrue'
  PROVE  CalmInv'
<1>1. DiskIsKnown'
  BY DEF CalmInv, DiskIsKnown
<1>2. LoadedIsFresh' /\ DigestsAreFresh' /\ ImportsAreCounted'
  BY DEF LoadedIsFresh, DigestsAreFresh, ImportsAreCounted, HasJobs, Making
<1>3. ManifestIsTrue'
  <2>1. Describes(manifest)' <=> Describes(manifest)
    BY DEF Describes, TestsIn, Allows
  <2> QED
    BY <2>1 DEF CalmInv, ManifestIsTrue, IsManifest, FilesOf, Before, HasJobs, Trusted, Making
<1>4. PlanIsTrue'
  <2>1. AllTests' = AllTests /\ (Calm' <=> Calm)
    BY SourcesStay, CalmLasts
  <2> QED BY <2>1 DEF CalmInv, PlanIsTrue, Allows, Trusted
<1> QED BY <1>1, <1>2, <1>3, <1>4 DEF CalmInv

\* What is true of a job while nothing happens to it.
LEMMA JobStays ==
  ASSUME UNCHANGED <<disk, outside, plan>>, NEW job, JobIsTrue(job),
         Whole(job) /\ job.stage = "checking" => imports'[job.file] = imports[job.file]
  PROVE  JobIsTrue(job)'
<1>1. /\ \A n : OrdinaryResult(job.file, n)' = OrdinaryResult(job.file, n)
      /\ Unreliable(job.file)' <=> Unreliable(job.file)
  BY SourcesStay
<1> QED BY <1>1 DEF JobIsTrue, Whole, ExpectedSources, Trusted

\* A worker that is not done has not seen the end of the run.
LEMMA StillRunning ==
  ASSUME CalmInv, Inv, Calm, NEW job \in jobs, job.stage \in {"checking", "running"}
  PROVE  stage = "running"
<1>1. stage \in HasJobs
  BY DEF Inv, NobodyIsEarly
<1>2. stage # "over"
  BY <1>1 DEF CalmInv, JobsAreTrue
<1> QED BY <1>1, <1>2 DEF HasJobs

\* The file of one job may be imported, which no other job waits for, and does nothing
\* if it may be divided.
ImportsCount(job, next) ==
  /\ \A file : file # job.file => imports'[file] = imports[file]
  /\ next.stage # "checking"
  /\ job.file \in plan.eligible => Unreliable(job.file) \/ imports'[job.file] = 0

\* One job becomes another, of the same tests.
LEMMA BecomeCalm ==
  ASSUME CalmInv, Inv, NEW job \in jobs, job.stage \in {"checking", "running"}, NEW next,
         jobs' = (jobs \ {job}) \cup {next},
         UNCHANGED <<disk, outside, stage, manifest, plan, edited, disturbed>>,
         Calm => JobIsTrue(next), DOMAIN imports' = TestFiles,
         UNCHANGED imports \/ (Calm => ImportsCount(job, next)),
         next.file = job.file, next.names = job.names, next.retry = job.retry
  PROVE  CalmInv'
<1>0. stage \in HasJobs
  BY DEF Inv, NobodyIsEarly
<1>1. ASSUME Calm PROVE JobsAreTrue'
  <2>0. stage = "running"
    BY <1>1, StillRunning
  <2>1. JobsAreTrue
    BY DEF CalmInv
  <2>2. Whole(next) <=> Whole(job)
    BY DEF Whole
  <2>3. \A j \in jobs' : JobIsTrue(j)'
    <3> TAKE j \in jobs'
    <3>1. JobIsTrue(j)
      BY <1>0, <1>1, <2>1 DEF JobsAreTrue
    <3>2. ASSUME Whole(j), j.stage = "checking" PROVE imports'[j.file] = imports[j.file]
      <4>1. CASE j.file # job.file \/ UNCHANGED imports
        BY <1>1, <4>1 DEF ImportsCount
      <4>2. CASE j.file = job.file /\ j \in jobs \ {job}
        BY <1>0, <1>1, <2>1, <3>2, <4>2 DEF JobsAreTrue
      <4>3. CASE j = next
        BY <1>1, <3>2, <4>3 DEF ImportsCount
      <4> QED BY <4>1, <4>2, <4>3
    <3> QED BY <3>1, <3>2, JobStays
  <2>4. \A j, other \in jobs' : Whole(j)' /\ other.file = j.file => other = j
    <3>1. \A j : Whole(j)' <=> Whole(j)
      BY DEF Whole
    <3> QED BY <1>0, <1>1, <2>1, <2>2, <3>1 DEF JobsAreTrue
  <2>5. \A file \in plan'.eligible : Unreliable(file)' \/ imports'[file] = 0
    <3>1. \A file \in plan.eligible : Unreliable(file) \/ imports[file] = 0
      BY <1>0, <1>1, <2>1 DEF JobsAreTrue
    <3> QED BY <1>1, <3>1, SourcesStay DEF ImportsCount
  <2>6. \A t \in plan'.tests : \E j \in jobs' : j.file = t[1] /\ t[2] \in j.names
    BY <1>0, <1>1, <2>1 DEF JobsAreTrue
  <2> QED BY <2>0, <2>3, <2>4, <2>5, <2>6 DEF JobsAreTrue
<1>2. JobsAreTrue'
  <2>1. CASE Calm
    BY <1>1, <2>1
  <2>2. CASE ~Calm
    BY <2>2, CalmLasts DEF JobsAreTrue
  <2> QED BY <2>1, <2>2
<1> QED BY <1>0, <1>2, RunningCalm

\* Of the sources that are left, one comes first.
LEMMA FirstSource ==
  ASSUME NEW left \in SUBSET Sources, left # {}
  PROVE  \E s \in left : \A u \in left : SourceOrder[s] <= SourceOrder[u]
<1>1. /\ SourceOrder["helper"] = 1 /\ SourceOrder["shadow"] = 2
      /\ SourceOrder["test_f"] = 3 /\ SourceOrder["test_g"] = 4
  BY DEF SourceOrder
<1>2. left \subseteq {"helper", "shadow", "test_f", "test_g"}
  BY DEF Sources, TestFiles, First, Other
<1>3. CASE "helper" \in left
  BY <1>1, <1>2, <1>3
<1>4. CASE "helper" \notin left /\ "shadow" \in left
  BY <1>1, <1>2, <1>4
<1>5. CASE "helper" \notin left /\ "shadow" \notin left /\ "test_f" \in left
  BY <1>1, <1>2, <1>5
<1>6. CASE left = {"test_g"}
  BY <1>1, <1>6
<1> QED BY <1>2, <1>3, <1>4, <1>5, <1>6

\* _verify_locator_sources: a file that is looked at is as the plan has it.
LEMMA CheckCalm ==
  ASSUME CalmInv, Inv, NEW job \in jobs, Check(job)
  PROVE  CalmInv'
<1> PICK source : source = NextInOrder(job.unchecked)
  OBVIOUS
<1> PICK next : next = IF disk[source] = plan.digests[source]
                       THEN [job EXCEPT !.unchecked = @ \ {source}]
                       ELSE [job EXCEPT !.stage = "refused", !.unchecked = {}]
  OBVIOUS
<1>1. Become(job, next) /\ UNCHANGED imports /\ job.stage = "checking"
  BY DEF Check
<1>2. IsJob(job) /\ job.file \in FilesOf(plan.tests)
  BY DEF Inv, JobsAreSound, JobIsSound
<1>3. next.file = job.file /\ next.names = job.names /\ next.retry = job.retry
  BY <1>2 DEF IsJob
<1>4. ASSUME Calm PROVE JobIsTrue(next)
  <2>1. stage = "running"
    BY <1>1, <1>4, StillRunning
  <2>2. JobIsTrue(job)
    BY <1>4, <2>1 DEF CalmInv, JobsAreTrue, HasJobs
  <2>3. job.unchecked \subseteq ExpectedSources(job.file) /\ job.unchecked # {}
    BY <2>2 DEF JobIsTrue, Check, editVars, listVars
  <2>4. Trusted
    BY <2>3 DEF ExpectedSources
  <2>5. ExpectedSources(job.file) \subseteq DOMAIN plan.digests
    BY <1>2, <2>4 DEF ExpectedSources, Inv, PlanIsSound, Sound
  <2>6. \A s \in job.unchecked : disk[s] = plan.digests[s]
    BY <1>4, <2>1, <2>3, <2>4, <2>5 DEF CalmInv, PlanIsTrue, HasJobs
  <2>7. \E s \in job.unchecked : \A u \in job.unchecked : SourceOrder[s] <= SourceOrder[u]
    <3>1. Describes(plan)
      <4>1. plan = manifest /\ disturbed = {} /\ stage \notin Before \cup Making
        BY <1>4, <2>4 DEF CalmInv, ManifestIsTrue, Calm
      <4>2. manifest # NoManifest
        BY <2>4, <4>1 DEF Trusted, NoManifest
      <4> QED BY <4>1, <4>2 DEF CalmInv, ManifestIsTrue
    <3>2. job.unchecked \subseteq Sources
      BY <2>3, <2>5, <3>1 DEF Describes
    <3> QED BY <2>3, <3>2, FirstSource
  <2>8. disk[source] = plan.digests[source]
    BY <2>6, <2>7 DEF NextInOrder
  <2>9. next = [job EXCEPT !.unchecked = @ \ {source}]
    BY <2>8
  <2>10. /\ next.stage = "checking" /\ next.unchecked \subseteq job.unchecked
         /\ next.results = job.results
    BY <1>1, <1>2, <2>9 DEF IsJob
  <2> QED BY <1>1, <1>3, <2>2, <2>10 DEF JobIsTrue, Whole
<1> QED BY <1>1, <1>3, <1>4, BecomeCalm DEF Become, CalmInv, ImportsAreCounted, editVars, listVars

\* A worker that reports, or is lost, has what it had.
LEMMA ReportCalm ==
  ASSUME CalmInv, Inv, NEW job \in jobs, Report(job)
  PROVE  CalmInv'
<1> PICK next : next = [job EXCEPT !.stage = "done"]
  OBVIOUS
<1>1. Become(job, next) /\ UNCHANGED imports /\ job.stage = "running"
  BY DEF Report, editVars, listVars
<1>2. IsJob(job)
  BY DEF Inv, JobsAreSound, JobIsSound
<1>3. /\ next.file = job.file /\ next.names = job.names /\ next.retry = job.retry
      /\ next.stage = "done" /\ next.unchecked = job.unchecked /\ next.results = job.results
  BY <1>2 DEF IsJob
<1>4. ASSUME Calm PROVE JobIsTrue(next)
  <2>1. stage = "running"
    BY <1>1, <1>4, StillRunning
  <2>2. JobIsTrue(job)
    BY <1>4, <2>1 DEF CalmInv, JobsAreTrue, HasJobs
  <2> QED BY <1>1, <1>3, <2>2 DEF JobIsTrue, Whole
<1> QED BY <1>1, <1>3, <1>4, BecomeCalm DEF Become, CalmInv, ImportsAreCounted, editVars, listVars

\* A worker that is lost has what it had.
LEMMA LoseCalm ==
  ASSUME CalmInv, Inv, NEW job \in jobs, Lose(job)
  PROVE  CalmInv'
<1> PICK next : next = [job EXCEPT !.stage = "lost", !.unchecked = {}]
  OBVIOUS
<1>1. /\ jobs' = (jobs \ {job}) \cup {next} /\ job.stage \in {"checking", "running"}
      /\ UNCHANGED <<disk, outside, stage, manifest, plan, imports, edited, disturbed>>
  BY DEF Lose, editVars, listVars
<1>2. IsJob(job)
  BY DEF Inv, JobsAreSound, JobIsSound
<1>3. /\ next.file = job.file /\ next.names = job.names /\ next.retry = job.retry
      /\ next.stage = "lost" /\ next.unchecked = {}
  BY <1>2 DEF IsJob
<1>4. ASSUME Calm PROVE JobIsTrue(next)
  <2>1. stage = "running"
    BY <1>1, <1>4, StillRunning
  <2>2. JobIsTrue(job)
    BY <1>4, <2>1 DEF CalmInv, JobsAreTrue, HasJobs
  <2> QED BY <1>3, <2>2 DEF JobIsTrue, Whole
<1> QED BY <1>1, <1>3, <1>4, BecomeCalm DEF CalmInv, ImportsAreCounted

\* A test of the plan is one of a file that can be imported.
LEMMA TestsAre ==
  ASSUME NEW file, NEW n, <<file, n>> \in AllTests
  PROVE  file \in Importable /\ n \in TestNames(Load(file))
<1>1. PICK f \in Importable : \E m \in TestNames(Load(f)) : <<file, n>> = <<f, m>>
  BY DEF AllTests
<1> QED BY <1>1

\* What can be imported does something that can be counted, and nothing at all if it
\* may be divided.
LEMMA ImportableLoads ==
  ASSUME DiskIsKnown, NEW file \in Importable
  PROVE  /\ Load(file).effects \in Nat
         /\ Allows(disk[file]) /\ ~Unreliable(file) =>
              /\ Separable(disk[file]) /\ Quiet(Load(file), disk[file], Len(disk[file]))
              /\ Load(file).effects = 0
<1>1. WellFormed(disk[file]) /\ Parses(disk[file])
  BY ImportableAre, KnownModules
<1>2. Load(file).effects \in Nat
  BY <1>1, LoadsToSomething DEF Load
<1>3. ASSUME Allows(disk[file]), ~Unreliable(file)
      PROVE  /\ Separable(disk[file]) /\ Quiet(Load(file), disk[file], Len(disk[file]))
             /\ Load(file).effects = 0
  <2>1. Separable(disk[file])
    BY <1>1, <1>3 DEF Separable, Allows, NoProviders, Unreliable
  <2>2. Quiet(Load(file), disk[file], Len(disk[file]))
    BY <2>1, LoadsQuietly DEF Load
  <2> QED BY <2>1, <2>2 DEF Quiet
<1> QED BY <1>2, <1>3

\* discover_selected: what a worker imports has the tests it was given, and they
\* observe what they would in an ordinary run.
LEMMA ImportedIsOrdinary ==
  ASSUME CalmInv, Inv, Calm, NEW job \in jobs, job.stage = "checking"
  PROVE  /\ job.file \in Importable /\ job.names \subseteq TestNames(Load(job.file))
         /\ job.file \in plan.eligible =>
              Unreliable(job.file) \/ imports[job.file] + Load(job.file).effects = 0
         /\ \A n \in job.names :
              \/ [observed |-> ResultsOf(Load(job.file), job.names)[n],
                  calls |-> imports[job.file] + Load(job.file).effects]
                   = OrdinaryResult(job.file, n)
              \/ job.retry /\ job.file \notin plan.eligible
              \/ Unreliable(job.file)
<1> PICK file, names : file = job.file /\ names = job.names
  OBVIOUS
<1> PICK l : l = Load(file)
  OBVIOUS
<1>1. stage = "running" /\ JobsAreTrue /\ PlanIsTrue
  BY StillRunning DEF CalmInv
<1>2. JobIsTrue(job) /\ plan.tests = AllTests
      /\ (file \in plan.eligible => Allows(disk[file]))
      /\ (file \in plan.eligible => Unreliable(file) \/ imports[file] = 0)
  BY <1>1 DEF JobsAreTrue, PlanIsTrue, HasJobs
<1>3. \A n \in names : file \in Importable /\ n \in TestNames(l)
  <2> TAKE n \in names
  <2>1. <<file, n>> \in AllTests
    BY <1>2 DEF JobIsTrue
  <2> QED BY <2>1, TestsAre
<1>4. file \in Importable /\ names \subseteq TestNames(l)
  BY <1>2, <1>3 DEF JobIsTrue
<1>5. /\ l.effects \in Nat
      /\ Allows(disk[file]) /\ ~Unreliable(file) =>
              Separable(disk[file]) /\ Quiet(l, disk[file], Len(disk[file])) /\ l.effects = 0
  BY <1>4, ImportableLoads DEF CalmInv
<1>6. file \in plan.eligible => Unreliable(file) \/ imports[file] + l.effects = 0
  BY <1>2, <1>5
<1>7. ASSUME NEW n \in names
      PROVE  \/ [observed |-> ResultsOf(l, names)[n], calls |-> imports[file] + l.effects]
                  = OrdinaryResult(file, n)
             \/ job.retry /\ file \notin plan.eligible
             \/ Unreliable(file)
  <2>1. OrdinaryResult(file, n) =
          [observed |-> ResultsOf(l, TestNames(l))[n], calls |-> l.effects]
    BY DEF OrdinaryResult
  <2>2. CASE Whole(job)
    <3>1. \A t \in AllTests : t[1] = file => t[2] \in names
      BY <1>2, <2>2 DEF JobIsTrue
    <3>2. \A m \in TestNames(l) : <<file, m>> \in AllTests
      BY <1>4 DEF AllTests
    <3>3. names = TestNames(l)
      BY <1>4, <3>1, <3>2
    <3>4. imports[file] = 0
      BY <1>2, <2>2 DEF JobIsTrue
    <3> QED BY <1>5, <2>1, <3>3, <3>4
  <2>3. CASE file \in plan.eligible /\ ~Unreliable(file)
    <3>1. Separable(disk[file]) /\ Quiet(l, disk[file], Len(disk[file])) /\ l.effects = 0
      BY <1>2, <1>5, <2>3
    <3>2. n \in names \cap TestNames(l)
      BY <1>4
    <3>3. ResultsOf(l, names)[n] = ResultsOf(l, TestNames(l))[n]
      <4> PICK module, all : module = disk[file] /\ all = TestNames(l)
        OBVIOUS
      <4>1. n \in names /\ n \in all /\ n \in TestNames(l)
        BY <3>2
      <4>2. Separable(module) /\ Quiet(l, module, Len(module))
        BY <3>1
      <4>3. ObservesTheSame(n, l, names, all)
        BY <4>1, <4>2, ResultsAgree
      <4> QED BY <4>3 DEF ObservesTheSame
    <3> QED BY <1>6, <2>1, <2>3, <3>1, <3>3
  <2> QED BY <2>2, <2>3 DEF Whole
<1> QED BY <1>4, <1>6, <1>7

\* _resolve_locators_in_worker: the worker has the results it ought to have.
LEMMA ImportCalm ==
  ASSUME CalmInv, Inv, NEW job \in jobs, Import(job)
  PROVE  CalmInv'
<1>1. IsJob(job) /\ job.stage = "checking"
  BY DEF Inv, JobsAreSound, JobIsSound, Import, editVars, listVars
<1>2. DOMAIN imports = TestFiles
  BY DEF CalmInv, ImportsAreCounted
<1>3. CASE disk[job.file] = Absent \/ ~CanBeImported(job.file)
  <2> PICK next : next = [job EXCEPT !.stage = "failed"]
    OBVIOUS
  <2>1. Become(job, next) /\ UNCHANGED imports
    BY <1>3 DEF Import, editVars, listVars
  <2>2. next.file = job.file /\ next.names = job.names /\ next.retry = job.retry
    BY <1>1 DEF IsJob
  <2>3. ~Calm
    <3> SUFFICES ASSUME Calm PROVE FALSE
      OBVIOUS
    <3>1. job.file \in Importable
      BY <1>1, ImportedIsOrdinary
    <3> QED BY <1>3, <3>1, ImportableAre DEF Importable, CalmInv
  <2> QED BY <1>1, <2>1, <2>2, <2>3, BecomeCalm DEF Become, CalmInv, ImportsAreCounted, editVars,
                                                    listVars
<1>4. CASE ~(disk[job.file] = Absent \/ ~CanBeImported(job.file))
  <2> PICK l, calls : l = Load(job.file) /\ calls = imports[job.file] + l.effects
    OBVIOUS
  <2> PICK read, seen, results :
        /\ read = [s \in Reads(job.file) |-> disk[s]]
        /\ seen = ResultsOf(l, job.names)
        /\ results = IF job.names \subseteq TestNames(l)
                     THEN [n \in job.names |-> [observed |-> seen[n], calls |-> calls]] ELSE << >>
    OBVIOUS
  <2> PICK after : after = IF job.names \subseteq TestNames(l) THEN "running" ELSE "failed"
    OBVIOUS
  <2> PICK next : next = [job EXCEPT !.stage = after, !.read = read, !.results = results]
    OBVIOUS
  <2>1. Become(job, next) /\ imports' = [imports EXCEPT ![job.file] = calls]
    BY <1>4 DEF Import, editVars, listVars
  <2>2. /\ next.file = job.file /\ next.names = job.names /\ next.retry = job.retry
        /\ next.stage = after /\ next.results = results /\ next.unchecked = job.unchecked
    BY <1>1 DEF IsJob
  <2>3. /\ DOMAIN imports' = TestFiles
        /\ job.file \in TestFiles => imports'[job.file] = calls
        /\ \A file : file # job.file => imports'[file] = imports[file]
    BY <1>2, <2>1
  <2>4. ASSUME Calm PROVE JobIsTrue(next) /\ ImportsCount(job, next)
    <3>1. job.names \subseteq TestNames(l) /\ after = "running" /\ job.file \in TestFiles
      BY <1>1, <2>4, ImportedIsOrdinary, ImportableAre DEF CalmInv
    <3>2. job.file \in plan.eligible => Unreliable(job.file) \/ calls = 0
      BY <1>1, <2>4, ImportedIsOrdinary
    <3>3. ASSUME NEW n \in job.names
          PROVE  \/ results[n] = OrdinaryResult(job.file, n)
                 \/ job.retry /\ job.file \notin plan.eligible
                 \/ Unreliable(job.file)
      <4>1. results[n] = [observed |-> seen[n], calls |-> calls]
        BY <3>1
      <4> QED BY <1>1, <2>4, <4>1, ImportedIsOrdinary
    <3>4. JobIsTrue(job)
      BY <1>1, <2>4, StillRunning DEF CalmInv, JobsAreTrue, HasJobs
    <3>5. JobIsTrue(next)
      BY <2>2, <3>1, <3>3, <3>4 DEF JobIsTrue, Whole
    <3> QED BY <2>2, <2>3, <3>1, <3>2, <3>5 DEF ImportsCount
  <2> QED BY <1>1, <2>1, <2>2, <2>3, <2>4, BecomeCalm DEF Become, editVars, listVars
<1> QED BY <1>3, <1>4

\* A worker that has just been given the tests of one file.
IsNew(job, unit, retry, file) ==
  /\ job.file = file /\ job.names = {t[2] : t \in unit} /\ job.retry = retry
  /\ job.stage = "checking" /\ job.unchecked = ExpectedSources(file)

\* _locator: what a new worker is given.
LEMMA NewJobs ==
  ASSUME NEW unit, NEW retry, NEW file, unit # {}, \A t \in unit : t[1] = file
  PROVE  IsNew(Job(unit, retry), unit, retry, file)
<1>1. (CHOOSE t \in unit : TRUE)[1] = file
  OBVIOUS
<1>2. Job(unit, retry) =
        [file |-> file, names |-> {t[2] : t \in unit}, retry |-> retry, stage |-> "checking",
         unchecked |-> ExpectedSources(file), read |-> << >>, edited |-> {}, results |-> << >>]
  BY <1>1 DEF Job
<1>3. PICK job, names, sources :
        job = Job(unit, retry) /\ names = {t[2] : t \in unit} /\ sources = ExpectedSources(file)
  OBVIOUS
<1>4. job = [file |-> file, names |-> names, retry |-> retry, stage |-> "checking",
             unchecked |-> sources, read |-> << >>, edited |-> {}, results |-> << >>]
  BY <1>2, <1>3
<1>5. job.file = file /\ job.names = names /\ job.retry = retry
      /\ job.stage = "checking" /\ job.unchecked = sources
  BY <1>4
<1> QED BY <1>3, <1>5 DEF IsNew

\* A test is a file and a name.
LEMMA TestsArePairs ==
  ASSUME NEW t \in AllTests
  PROVE  t = <<t[1], t[2]>> /\ t[1] \in Importable /\ t[1] \in TestFiles
<1>1. PICK file \in Importable : \E n \in TestNames(Load(file)) : t = <<file, n>>
  BY DEF AllTests
<1>2. PICK n : t = <<file, n>>
  BY <1>1
<1>3. file \in TestFiles
  BY DEF Importable, Inventory, Present
<1> QED BY <1>2, <1>3

\* Nobody has imported anything before the first worker does.
LEMMA NothingIsImported ==
  ASSUME CalmInv, stage = "dispatch"
  PROVE  \A file \in TestFiles : imports[file] = 0
  BY DEF CalmInv, ImportsAreCounted, HasJobs

\* _execution_units: a file that is not divided is one unit.
IsUnit(unit, file, tests, eligible) ==
  /\ file \in FilesOf(tests) /\ unit # {} /\ unit \subseteq tests /\ \A t \in unit : t[1] = file
  /\ file \in eligible => \E t \in tests : unit = {t}
  /\ file \notin eligible => unit = {t \in tests : t[1] = file}

\* What a unit is.
LEMMA UnitsAre ==
  ASSUME NEW tests, NEW eligible, NEW unit \in Units(tests, eligible)
  PROVE  \E file : IsUnit(unit, file, tests, eligible)
<1>1. CASE unit \in {{t} : t \in {u \in tests : u[1] \in eligible}}
  <2>1. PICK t \in tests : t[1] \in eligible /\ unit = {t}
    BY <1>1
  <2>2. IsUnit(unit, t[1], tests, eligible)
    BY <2>1 DEF IsUnit, FilesOf
  <2> QED BY <2>2
<1>2. CASE unit \in {{t \in tests : t[1] = file} : file \in FilesOf(tests) \ eligible}
  <2>1. PICK file \in FilesOf(tests) \ eligible : unit = {t \in tests : t[1] = file}
    BY <1>2
  <2>2. IsUnit(unit, file, tests, eligible)
    BY <2>1 DEF IsUnit, FilesOf
  <2> QED BY <2>2
<1> QED BY <1>1, <1>2 DEF Units

\* Each test is in one.
LEMMA UnitsCover ==
  ASSUME NEW tests, NEW eligible, NEW t \in tests
  PROVE  \E unit \in Units(tests, eligible) : t \in unit
<1>1. CASE t[1] \in eligible
  <2>1. {t} \in {{u} : u \in {v \in tests : v[1] \in eligible}}
    BY <1>1
  <2> QED BY <2>1 DEF Units
<1>2. CASE t[1] \notin eligible
  <2>1. t[1] \in FilesOf(tests) \ eligible /\ t \in {u \in tests : u[1] = t[1]}
    BY <1>2 DEF FilesOf
  <2> QED BY <2>1 DEF Units
<1> QED BY <1>1, <1>2

\* A worker that was given a unit.
IsDispatched(job, unit, file, tests, eligible) ==
  /\ IsUnit(unit, file, tests, eligible)
  /\ job = Job(unit, FALSE) /\ IsNew(job, unit, FALSE, file)

\* _run: every test is given to a worker, and a file that is not divided to one only.
LEMMA DispatchCalm ==
  ASSUME CalmInv, Dispatch
  PROVE  CalmInv'
<1>0. /\ UNCHANGED <<disk, outside, manifest, plan, imports, edited, disturbed>>
      /\ stage = "dispatch" /\ stage' = "running"
  BY DEF Dispatch, editVars, listVars
<1>1. ASSUME Calm PROVE JobsAreTrue'
  <2> PICK tests, eligible : tests = plan.tests /\ eligible = plan.eligible
    OBVIOUS
  <2>1. tests = AllTests /\ eligible \subseteq FilesOf(tests)
    BY <1>0, <1>1 DEF CalmInv, PlanIsTrue, ManifestIsTrue, IsManifest
  <2>2. FilesOf(tests) \subseteq TestFiles /\ \A t \in tests : t = <<t[1], t[2]>>
    BY <2>1, TestsArePairs DEF FilesOf
  <2>3. \A j \in jobs' : \E unit \in Units(tests, eligible) : j = Job(unit, FALSE)
    BY DEF Dispatch, editVars, listVars
  <2>4. ASSUME NEW j \in jobs'
        PROVE  \E unit, file : IsDispatched(j, unit, file, tests, eligible)
    <3>1. PICK unit \in Units(tests, eligible) : j = Job(unit, FALSE)
      BY <2>3
    <3>2. PICK file : IsUnit(unit, file, tests, eligible)
      BY UnitsAre
    <3>3. IsNew(Job(unit, FALSE), unit, FALSE, file)
      BY <3>2, NewJobs DEF IsUnit
    <3>4. IsDispatched(j, unit, file, tests, eligible)
      BY <3>1, <3>2, <3>3 DEF IsDispatched
    <3> QED BY <3>4
  <2>5. \A file \in TestFiles : imports[file] = 0
    BY <1>0, NothingIsImported
  <2>6. ASSUME NEW j \in jobs' PROVE JobIsTrue(j)
    <3>0. PICK unit, file : IsDispatched(j, unit, file, tests, eligible)
      BY <2>4
    <3>1. IsUnit(unit, file, tests, eligible) /\ IsNew(j, unit, FALSE, file)
      BY <3>0 DEF IsDispatched
    <3>2. j.names # {} /\ {<<j.file, n>> : n \in j.names} \subseteq tests
      BY <2>2, <3>1 DEF IsNew, IsUnit
    <3>3. ASSUME file \in eligible PROVE \E n \in j.names : j.names = {n}
      <4>1. PICK t \in tests : unit = {t}
        BY <3>1, <3>3 DEF IsUnit
      <4>2. j.names = {t[2]}
        BY <3>1, <4>1 DEF IsNew
      <4> QED BY <4>2
    <3>4. file \notin eligible => \A t \in tests : t[1] = file => t[2] \in j.names
      BY <3>1 DEF IsNew, IsUnit
    <3>5. /\ j.file = file /\ j.stage = "checking" /\ ~j.retry
          /\ j.unchecked \subseteq ExpectedSources(j.file)
      BY <3>1 DEF IsNew
    <3>6. imports[file] = 0
      BY <2>2, <2>5, <3>1 DEF IsUnit
    <3> QED BY <3>2, <3>3, <3>4, <3>5, <3>6 DEF JobIsTrue, Whole
  <2>7. \A j \in jobs' : JobIsTrue(j)'
    BY <1>0, <2>6, JobStays
  <2>8. \A j, other \in jobs' : Whole(j)' /\ other.file = j.file => other = j
    <3> SUFFICES ASSUME NEW j \in jobs', NEW other \in jobs', Whole(j)', other.file = j.file
                 PROVE  other = j
      OBVIOUS
    <3>1. PICK unit, file : IsDispatched(j, unit, file, tests, eligible)
      BY <2>4
    <3>2. PICK unit2, file2 : IsDispatched(other, unit2, file2, tests, eligible)
      BY <2>4
    <3>3. file = file2 /\ file \notin eligible
      BY <1>0, <3>1, <3>2 DEF IsDispatched, IsNew, Whole
    <3>4. unit = unit2
      BY <3>1, <3>2, <3>3 DEF IsDispatched, IsUnit
    <3> QED BY <3>1, <3>2, <3>4 DEF IsDispatched
  <2>9. \A file \in plan'.eligible : Unreliable(file)' \/ imports'[file] = 0
    BY <1>0, <2>1, <2>2, <2>5
  <2>10. ASSUME NEW t \in tests PROVE \E j \in jobs' : j.file = t[1] /\ t[2] \in j.names
    <3>1. PICK unit \in Units(tests, eligible) : t \in unit
      BY UnitsCover
    <3>2. IsDispatched(Job(unit, FALSE), unit, t[1], tests, eligible)
      <4>1. PICK file : IsUnit(unit, file, tests, eligible)
        BY UnitsAre
      <4>2. file = t[1]
        BY <3>1, <4>1 DEF IsUnit
      <4>3. IsNew(Job(unit, FALSE), unit, FALSE, file)
        BY <4>1, NewJobs DEF IsUnit
      <4> QED BY <4>1, <4>2, <4>3 DEF IsDispatched
    <3>3. Job(unit, FALSE) \in jobs'
      BY DEF Dispatch, editVars, listVars
    <3> QED BY <3>1, <3>2, <3>3 DEF IsDispatched, IsNew
  <2> QED BY <1>0, <2>7, <2>8, <2>9, <2>10 DEF JobsAreTrue
<1>2. JobsAreTrue'
  <2>1. CASE Calm
    BY <1>1, <2>1
  <2>2. CASE ~Calm
    BY <1>0, <2>2, CalmLasts DEF JobsAreTrue
  <2> QED BY <2>1, <2>2
<1>3. DOMAIN imports' = TestFiles
  BY <1>0 DEF CalmInv, ImportsAreCounted
<1> QED BY <1>0, <1>2, <1>3, RunningCalm DEF HasJobs

\* _execute_retry_attempts: a worker that is given one test of another.
Retries(new, job, n) ==
  /\ new = Job({<<job.file, n>>}, TRUE)
  /\ new.file = job.file /\ new.names = {n} /\ new.retry
  /\ new.stage = "checking" /\ new.unchecked = ExpectedSources(job.file)

\* What a worker of a retry is given.
LEMMA NewRetries ==
  ASSUME NEW job, NEW n
  PROVE  Retries(Job({<<job.file, n>>}, TRUE), job, n)
<1> PICK unit, file : unit = {<<job.file, n>>} /\ file = job.file
  OBVIOUS
<1>0. unit # {} /\ \A t \in unit : t[1] = file
  OBVIOUS
<1>1. IsNew(Job(unit, TRUE), unit, TRUE, file)
  BY <1>0, NewJobs
<1>2. {t[2] : t \in unit} = {n}
  OBVIOUS
<1> QED BY <1>1, <1>2 DEF IsNew, Retries

\* _execute_retry_attempts: a test without a result is given to a worker again.
LEMMA RetryCalm ==
  ASSUME CalmInv, Retry
  PROVE  CalmInv'
<1>0. /\ UNCHANGED <<disk, outside, manifest, plan, imports, edited, disturbed, stage>>
      /\ stage = "running"
  BY DEF Retry, editVars, listVars
<1>1. ASSUME Calm PROVE JobsAreTrue'
  <2>1. JobsAreTrue
    BY DEF CalmInv
  <2>2. /\ \A job \in jobs : JobIsTrue(job)
        /\ \A job, other \in jobs : Whole(job) /\ other.file = job.file => other = job
        /\ \A file \in plan.eligible : Unreliable(file) \/ imports[file] = 0
        /\ \A t \in plan.tests : \E job \in jobs : job.file = t[1] /\ t[2] \in job.names
    BY <1>0, <1>1, <2>1 DEF JobsAreTrue, HasJobs
  <2>3. ASSUME NEW j \in jobs', j \notin jobs \ ToRetry
        PROVE  \E job \in ToRetry : \E n \in job.names : Retries(j, job, n)
    <3>1. PICK job \in ToRetry : \E n \in job.names : j = Job({<<job.file, n>>}, TRUE)
      BY <2>3 DEF Retry, editVars, listVars
    <3>2. PICK n \in job.names : j = Job({<<job.file, n>>}, TRUE)
      BY <3>1
    <3>3. Retries(j, job, n)
      BY <3>2, NewRetries
    <3> QED BY <3>3
  <2>4. ASSUME NEW j \in jobs' PROVE JobIsTrue(j)
    <3>1. CASE j \in jobs \ ToRetry
      BY <2>2, <3>1
    <3>2. CASE j \notin jobs \ ToRetry
      <4>1. PICK job \in ToRetry : \E n \in job.names : Retries(j, job, n)
        BY <2>3, <3>2
      <4>4. PICK n \in job.names : Retries(j, job, n)
        BY <4>1
      <4>2. JobIsTrue(job)
        BY <2>2 DEF ToRetry
      <4>3. <<job.file, n>> \in plan.tests
        BY <4>2 DEF JobIsTrue
      <4> QED BY <4>3, <4>4 DEF JobIsTrue, Retries, Whole
    <3> QED BY <3>1, <3>2
  <2>5. \A j \in jobs' : JobIsTrue(j)'
    BY <1>0, <2>4, JobStays
  <2>6. \A j, other \in jobs' : Whole(j)' /\ other.file = j.file => other = j
    <3> SUFFICES ASSUME NEW j \in jobs', NEW other \in jobs', Whole(j)', other.file = j.file
                 PROVE  other = j
      OBVIOUS
    <3>1. Whole(j)
      BY <1>0 DEF Whole
    <3>2. j \in jobs \ ToRetry
      BY <2>3, <3>1 DEF Retries, Whole
    <3>3. CASE other \in jobs \ ToRetry
      BY <2>2, <3>1, <3>2, <3>3
    <3>4. CASE other \notin jobs \ ToRetry
      <4>1. PICK job \in ToRetry : \E n \in job.names : Retries(other, job, n)
        BY <2>3, <3>4
      <4>2. job \in jobs /\ job.file = j.file
        BY <4>1 DEF Retries, ToRetry
      <4>3. job = j
        BY <2>2, <3>1, <3>2, <4>2
      <4> QED BY <3>2, <4>3
    <3> QED BY <3>3, <3>4
  <2>7. \A file \in plan'.eligible : Unreliable(file)' \/ imports'[file] = 0
    BY <1>0, <2>2, SourcesStay
  <2>8. ASSUME NEW t \in plan.tests PROVE \E j \in jobs' : j.file = t[1] /\ t[2] \in j.names
    <3>1. PICK job \in jobs : job.file = t[1] /\ t[2] \in job.names
      BY <2>2
    <3>2. CASE job \notin ToRetry
      BY <3>1, <3>2 DEF Retry, editVars, listVars
    <3>3. CASE job \in ToRetry
      <4>1. Job({<<job.file, t[2]>>}, TRUE) \in jobs'
        <5> DEFINE New(old) == {Job({<<old.file, n>>}, TRUE) : n \in old.names}
        <5>1. Job({<<job.file, t[2]>>}, TRUE) \in New(job)
          BY <3>1
        <5>2. jobs' = (jobs \ ToRetry) \cup UNION {New(old) : old \in ToRetry}
          BY DEF Retry, editVars, listVars
        <5> QED BY <3>3, <5>1, <5>2
      <4>2. Retries(Job({<<job.file, t[2]>>}, TRUE), job, t[2])
        BY NewRetries
      <4> QED BY <3>1, <4>1, <4>2 DEF Retries
    <3> QED BY <3>2, <3>3
  <2> QED BY <1>0, <2>5, <2>6, <2>7, <2>8 DEF JobsAreTrue
<1>2. JobsAreTrue'
  <2>1. CASE Calm
    BY <1>1, <2>1
  <2>2. CASE ~Calm
    BY <1>0, <2>2, CalmLasts DEF JobsAreTrue
  <2> QED BY <2>1, <2>2
<1>3. DOMAIN imports' = TestFiles
  BY <1>0 DEF CalmInv, ImportsAreCounted
<1> QED BY <1>0, <1>2, <1>3, RunningCalm DEF HasJobs

\* Whoever is not retried has reported, or was lost once more.
LEMMA OverCalm ==
  ASSUME CalmInv, Over
  PROVE  CalmInv'
<1>0. /\ UNCHANGED <<disk, outside, manifest, plan, imports, edited, disturbed, jobs>>
      /\ stage = "running" /\ stage' = "over"
  BY DEF Over, editVars, listVars
<1>1. ASSUME Calm PROVE JobsAreTrue'
  <2>1. JobsAreTrue
    BY DEF CalmInv
  <2>2. \A job \in jobs : JobIsTrue(job)
    BY <1>0, <1>1, <2>1 DEF JobsAreTrue, HasJobs
  <2>3. \A j \in jobs' : JobIsTrue(j)'
    BY <1>0, <2>2, JobStays
  <2>4. \A j, other \in jobs' : Whole(j)' /\ other.file = j.file => other = j
    BY <1>0, <1>1, <2>1 DEF JobsAreTrue, HasJobs, Whole
  <2>5. \A file \in plan'.eligible : Unreliable(file)' \/ imports'[file] = 0
    <3>1. \A file \in plan.eligible : Unreliable(file) \/ imports[file] = 0
      BY <1>0, <1>1, <2>1 DEF JobsAreTrue, HasJobs
    <3> QED BY <1>0, <3>1, SourcesStay
  <2>6. \A t \in plan'.tests : \E j \in jobs' : j.file = t[1] /\ t[2] \in j.names
    BY <1>0, <1>1, <2>1 DEF JobsAreTrue, HasJobs
  <2>7. \A job \in jobs' : job.stage \in {"done", "lost"}
    <3> TAKE job \in jobs'
    <3>1. Ended(job) /\ job.stage \in {"checking", "running", "done", "lost"}
      BY <1>0, <2>2 DEF Over, JobIsTrue, editVars, listVars
    <3> QED BY <3>1 DEF Ended
  <2> QED BY <1>0, <2>3, <2>4, <2>5, <2>6, <2>7 DEF JobsAreTrue
<1>2. JobsAreTrue'
  <2>1. CASE Calm
    BY <1>1, <2>1
  <2>2. CASE ~Calm
    BY <1>0, <2>2, CalmLasts DEF JobsAreTrue
  <2> QED BY <2>1, <2>2
<1>3. DOMAIN imports' = TestFiles
  BY <1>0 DEF CalmInv, ImportsAreCounted
<1> QED BY <1>0, <1>2, <1>3, RunningCalm DEF HasJobs

-----------------------------------------------------------------------------
(***************************************************************************)
(* Everyone else.                                                          *)
(***************************************************************************)
\* What is outside of the project may change before the workers begin: it changes
\* scopes, but no tests.
LEMMA TurnCalm ==
  ASSUME CalmInv, Turn
  PROVE  CalmInv'
<1>0. /\ UNCHANGED <<disk, stage, loaded, issues, manifest, plan, jobs, imports, edited, disturbed>>
      /\ stage \in {"built", "dispatch"}
  BY DEF Turn, editVars, listVars
<1>1. DiskIsKnown'
  BY <1>0 DEF CalmInv, DiskIsKnown
<1>2. /\ LoadedIsFresh' /\ DigestsAreFresh' /\ JobsAreTrue' /\ ImportsAreCounted'
  BY <1>0
  DEF CalmInv, LoadedIsFresh, DigestsAreFresh, JobsAreTrue, ImportsAreCounted, HasJobs, Making
<1>3. ManifestIsTrue'
  <2>1. Describes(manifest)' <=> Describes(manifest)
    BY <1>0 DEF Describes, TestsIn, Allows
  <2> QED
    BY <1>0, <2>1 DEF CalmInv, ManifestIsTrue, IsManifest, FilesOf, Before, HasJobs, Trusted, Making
<1>4. PlanIsTrue'
  <2>1. Importable' = Importable
    BY <1>0 DEF Importable, Inventory, Present, CanBeImported, TestFilesRead
  <2>2. ASSUME NEW file \in Importable
        PROVE  TestNames((Load(file))') = TestNames(Load(file))
    <3>1. disk[file] \in Modules \cup {OtherModule} /\ Parses(disk[file])
      BY ImportableAre DEF CalmInv
    <3>2. (Load(file))' = LoadModule(disk[file], disk[HelperFile][1], outside')
      BY <1>0 DEF Load, HelperFile
    <3> QED BY <3>1, <3>2, TestsStay DEF Load
  <2>3. AllTests' = AllTests
    BY <2>1, <2>2 DEF AllTests, TestNames
  <2>4. Calm' <=> Calm
    BY <1>0, CalmLasts
  <2> QED BY <1>0, <2>3, <2>4 DEF CalmInv, PlanIsTrue, Allows, Trusted
<1> QED BY <1>1, <1>2, <1>3, <1>4 DEF CalmInv

\* An edit is known, and after it nothing is said of a run that has begun.
LEMMA EditCalm ==
  ASSUME CalmInv, Inv, Edit
  PROVE  CalmInv'
<1>0. /\ UNCHANGED <<outside, stage, loaded, issues, manifest, plan, imports, disturbed>>
      /\ edited' # {}
  BY DEF Edit, editVars, listVars
<1>1. PICK s \in Sources : \E contents \in Contents(s) : disk' = [disk EXCEPT ![s] = contents]
  BY DEF Edit, editVars, listVars
<1>5. PICK contents \in Contents(s) : disk' = [disk EXCEPT ![s] = contents]
  BY <1>1
<1>2. DiskIsKnown'
  <2> SUFFICES ASSUME NEW file \in TestFiles
               PROVE  disk'[file] \in Modules \cup {OtherModule, Absent}
    BY DEF DiskIsKnown
  <2>1. CASE file = s
    <3>1. contents \in Modules \cup {OtherModule, Absent}
      BY <2>1, TrustedRunAssumption DEF Contents, TestFiles, First, Other
    <3> QED BY <1>5, <2>1, <3>1 DEF Inv, DiskIsThere
  <2>2. CASE file # s
    BY <1>5, <2>2 DEF CalmInv, DiskIsKnown
  <2> QED BY <2>1, <2>2
<1>3. /\ LoadedIsFresh' /\ DigestsAreFresh' /\ PlanIsTrue' /\ JobsAreTrue' /\ ImportsAreCounted'
  BY <1>0
  DEF CalmInv, LoadedIsFresh, DigestsAreFresh, PlanIsTrue, JobsAreTrue, ImportsAreCounted, Calm,
      HasJobs, Making
<1>4. ManifestIsTrue'
  <2>1. Describes(manifest)' <=> Describes(manifest)
    BY <1>0 DEF Describes, TestsIn, Allows
  <2> QED
    BY <1>0, <2>1 DEF CalmInv, ManifestIsTrue, IsManifest, FilesOf, Before, HasJobs, Trusted, Making
<1> QED BY <1>2, <1>3, <1>4 DEF CalmInv

\* A step that changes nothing.
LEMMA NothingChangesCalm ==
  ASSUME CalmInv, UNCHANGED vars
  PROVE  CalmInv'
<1>0. UNCHANGED <<disk, outside, stage, loaded, issues, manifest, plan, jobs, imports, edited,
                  disturbed, unread, due>>
  BY DEF vars, editVars, listVars
<1>1. /\ DiskIsKnown' /\ ImportsAreCounted'
  BY <1>0 DEF CalmInv, DiskIsKnown, ImportsAreCounted
<1>2. LoadedIsFresh' /\ DigestsAreFresh'
  <2>1. /\ Importable' = Importable /\ Inventory' = Inventory /\ Listed' = Listed
        /\ \A file : (Load(file))' = Load(file) /\ (CanBeImported(file)' <=> CanBeImported(file))
        /\ \A file : Dependencies(file)' = Dependencies(file)
    BY <1>0, SourcesStay
    DEF Inventory, Present, CanBeImported, TestFilesRead, Dependencies, Listed
  <2>2. LoadedIsFresh'
    BY <1>0, <2>1 DEF CalmInv, LoadedIsFresh, Making
  <2>3. /\ (DependenciesOf(Inventory))' = DependenciesOf(Inventory)
        /\ (DependenciesOf(Inventory \ unread))' = DependenciesOf(Inventory \ unread)
    BY <1>0, <2>1 DEF DependenciesOf
  <2> QED BY <1>0, <2>1, <2>2, <2>3 DEF CalmInv, DigestsAreFresh, Making
<1>3. ManifestIsTrue'
  <2>1. Describes(manifest)' <=> Describes(manifest)
    BY <1>0 DEF Describes, TestsIn, Allows
  <2> QED
    BY <1>0, <2>1 DEF CalmInv, ManifestIsTrue, IsManifest, FilesOf, Before, HasJobs, Trusted, Making
<1>4. PlanIsTrue'
  <2>1. AllTests' = AllTests /\ (Calm' <=> Calm)
    BY <1>0, SourcesStay, CalmLasts
  <2> QED BY <1>0, <2>1 DEF CalmInv, PlanIsTrue, Allows, Trusted
<1>5. JobsAreTrue'
  <2> SUFFICES ASSUME stage \in HasJobs, Calm PROVE JobsAreTrue'
    BY <1>0, CalmLasts DEF JobsAreTrue
  <2>1. /\ \A job \in jobs : JobIsTrue(job)
        /\ \A job, other \in jobs : Whole(job) /\ other.file = job.file => other = job
        /\ \A file \in plan.eligible : Unreliable(file) \/ imports[file] = 0
        /\ \A t \in plan.tests : \E job \in jobs : job.file = t[1] /\ t[2] \in job.names
        /\ stage = "over" => \A job \in jobs : job.stage \in {"done", "lost"}
    BY DEF CalmInv, JobsAreTrue
  <2>2. \A j \in jobs' : JobIsTrue(j)'
    BY <1>0, <2>1, JobStays
  <2>3. \A file \in plan'.eligible : Unreliable(file)' \/ imports'[file] = 0
    BY <1>0, <2>1, SourcesStay
  <2>4. \A j, other \in jobs' : Whole(j)' /\ other.file = j.file => other = j
    BY <1>0, <2>1 DEF Whole
  <2> QED BY <1>0, <2>1, <2>2, <2>3, <2>4 DEF JobsAreTrue
<1> QED BY <1>1, <1>2, <1>3, <1>4, <1>5 DEF CalmInv

-----------------------------------------------------------------------------
(***************************************************************************)
(* The theorem: what is true of every worker at the end.                   *)
(***************************************************************************)
\* CalmInv is inductive relative to Inv.
LEMMA NextCalm ==
  ASSUME Inv, CalmInv, [Next]_vars
  PROVE  CalmInv'
<1>1. CASE Discover
  BY <1>1, DiscoverCalm
<1>2. CASE Fingerprint
  BY <1>2, FingerprintCalm
<1>3. CASE Assess
  BY <1>3, AssessCalm
<1>4. CASE Start
  BY <1>4, StartCalm
<1>5. CASE AssessForRun
  BY <1>5, AssessForRunCalm
<1>6. CASE Dispatch
  BY <1>6, DispatchCalm
<1>7. ASSUME NEW job \in jobs, Check(job) PROVE CalmInv'
  BY <1>7, CheckCalm
<1>8. ASSUME NEW job \in jobs, Import(job) PROVE CalmInv'
  BY <1>8, ImportCalm
<1>9. ASSUME NEW job \in jobs, Report(job) PROVE CalmInv'
  BY <1>9, ReportCalm
<1>10. ASSUME NEW job \in jobs, Lose(job) PROVE CalmInv'
  BY <1>10, LoseCalm
<1>11. CASE Retry
  BY <1>11, RetryCalm
<1>12. CASE Over
  BY <1>12, OverCalm
<1>13. CASE Edit
  BY <1>13, EditCalm
<1>14. CASE Turn
  BY <1>14, TurnCalm
<1>15. CASE UNCHANGED vars
  BY <1>15, NothingChangesCalm
<1>16. CASE ListFiles
  BY <1>16, ListFilesCalm
<1>17. ASSUME NEW file \in unread, ReadImports(file) PROVE CalmInv'
  BY <1>17, ReadImportsCalm
<1> QED
  BY <1>1, <1>2, <1>3, <1>4, <1>5, <1>6, <1>7, <1>8, <1>9, <1>10, <1>11, <1>12, <1>13, <1>14, <1>15,
     <1>16, <1>17
  DEF Next

\* As long as nothing is edited, what was loaded, fingerprinted, planned and imported
\* is what the sources say, at every moment of a run (build_trusted_collection_manifest,
\* verify_trusted_collection_manifest, _resolve_locators_in_worker, _run).
THEOREM CalmInvariance == Spec => [](Inv /\ CalmInv)
<1>1. Init => Inv /\ CalmInv
  BY InitHolds, StartsCalm
<1>2. (Inv /\ CalmInv) /\ [Next]_vars => (Inv /\ CalmInv)'
  BY NextHolds, NextCalm
<1> QED BY <1>1, <1>2, PTL DEF Spec

\* What an ordinary run would say of a test.
LEMMA OrdinaryResultsAre ==
  /\ DOMAIN OrdinaryResults = Importable
  /\ \A file \in Importable :
       /\ DOMAIN OrdinaryResults[file] = TestNames(Load(file))
       /\ \A n \in TestNames(Load(file)) : OrdinaryResults[file][n] = OrdinaryResult(file, n)
  BY DEF OrdinaryResults, Importable, OrdinaryResult

\* A run during which nothing is edited has every test of an ordinary run, and the
\* results it would have there: whether it believes a manifest, however many workers
\* it divides a file among, and whatever is lost and given to others
\* (verify_trusted_collection_manifest, assess_collection_sharding, _run).
THEOREM TrustedRunsOrdinary == Spec => []TrustedRunsAreOrdinaryRuns
<1>1. Inv /\ CalmInv => TrustedRunsAreOrdinaryRuns
  <2> SUFFICES ASSUME Inv, CalmInv, stage = "over", Calm
               PROVE  /\ \A file \in DOMAIN OrdinaryResults : \A n \in DOMAIN OrdinaryResults[file] :
                           \E job \in jobs : job.file = file /\ n \in job.names
                      /\ \A job \in jobs : job.stage \in {"done", "lost"}
                      /\ \A job \in {j \in jobs : j.stage = "done"} : \A n \in job.names :
                           /\ job.file \in DOMAIN OrdinaryResults
                           /\ n \in DOMAIN OrdinaryResults[job.file]
                           /\ \/ job.results[n] = OrdinaryResults[job.file][n]
                              \/ job.retry /\ job.file \notin plan.eligible
                              \/ Unreliable(job.file)
    BY DEF TrustedRunsAreOrdinaryRuns, Calm
  <2>1. plan.tests = AllTests
    BY DEF CalmInv, PlanIsTrue, HasJobs
  <2>2. /\ \A job \in jobs : JobIsTrue(job) /\ job.stage \in {"done", "lost"}
        /\ \A t \in AllTests : \E job \in jobs : job.file = t[1] /\ t[2] \in job.names
    BY <2>1 DEF CalmInv, JobsAreTrue, HasJobs
  <2>3. ASSUME NEW file \in DOMAIN OrdinaryResults, NEW n \in DOMAIN OrdinaryResults[file]
        PROVE  \E job \in jobs : job.file = file /\ n \in job.names
    <3>1. file \in Importable /\ n \in TestNames(Load(file))
      BY OrdinaryResultsAre
    <3>2. <<file, n>> \in AllTests
      BY <3>1 DEF AllTests
    <3>3. PICK t : t = <<file, n>>
      OBVIOUS
    <3> QED BY <2>2, <3>2, <3>3
  <2>4. ASSUME NEW job \in jobs, job.stage = "done", NEW n \in job.names
        PROVE  /\ job.file \in DOMAIN OrdinaryResults
               /\ n \in DOMAIN OrdinaryResults[job.file]
               /\ \/ job.results[n] = OrdinaryResults[job.file][n]
                  \/ job.retry /\ job.file \notin plan.eligible
                  \/ Unreliable(job.file)
    <3>1. JobIsTrue(job)
      BY <2>2
    <3>2. PICK file : file = job.file
      OBVIOUS
    <3>3. <<file, n>> \in AllTests
      BY <2>1, <3>1, <3>2 DEF JobIsTrue
    <3>4. file \in Importable /\ n \in TestNames(Load(file))
      BY <3>3, TestsAre
    <3>5. /\ file \in DOMAIN OrdinaryResults /\ n \in DOMAIN OrdinaryResults[file]
          /\ OrdinaryResults[file][n] = OrdinaryResult(file, n)
      BY <3>4, OrdinaryResultsAre
    <3> QED BY <2>4, <3>1, <3>2, <3>5 DEF JobIsTrue
  <2> QED BY <2>2, <2>3, <2>4
<1> QED BY <1>1, CalmInvariance, PTL
=============================================================================
