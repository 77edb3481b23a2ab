---------------------------- MODULE TuningProofs ----------------------------
(***************************************************************************)
(* Proofs about a tuning session: for any processes, process numbers,      *)
(* configuration files, edits and measurements.                            *)
(***************************************************************************)
EXTENDS Tuning, FiniteSetTheorems, WellFoundedInduction, TLAPS

Own == Procs \ Strangers

-----------------------------------------------------------------------------
(***************************************************************************)
(* The invariant of the process tree.                                      *)
(***************************************************************************)
\* Children and process groups stay on one side: ours, or that of others.  Only
\* the command itself is ever waited for.
Sides ==
  /\ \A p \in Procs : group[p] \in Strangers <=> p \in Strangers
  /\ \A p \in Procs : parent[p] # None => (parent[p] \in Strangers <=> p \in Strangers)
  /\ \A p \in Procs : life[p] = "zombie" => p = Root

\* The cleanup came to its end.
Done == stage = "over" /\ ending # "interrupted"

\* The command leads a group of its own, and how far it is at each stage.
RootAt ==
  /\ group[Root] = Root
  /\ stage # "idle" => life[Root] # "unborn"
  /\ stage \in {"started", "watched"} => Exists(Root)
  /\ stage \in {"returned", "clearing"} \/ Done => life[Root] = "dead"
  /\ stage = "waiting" => life[Root] # "alive"

\* What cleanup knows of was started; what the tracker knows is ours, and a target
\* once it has stopped; and no target outlives the last signal.
Tracked ==
  /\ \A p \in known \union targets : life[p] # "unborn"
  /\ known \intersect Strangers = {}
  /\ stage = "started" => known = {}
  /\ stage \notin {"started", "watched", "returned", "over"} \/ Done => known \subseteq targets
  /\ stage = "waiting" \/ Done => \A p \in targets : life[p] # "alive"

TreeInv == TreeTypeOK /\ Sides /\ RootAt /\ Tracked

-----------------------------------------------------------------------------
(***************************************************************************)
(* The invariant of the session.                                           *)
(***************************************************************************)
\* Who is sent back and forth between the session and the process tree.
InStep == stage = "idle" <=> pc # "running"

\* What is known of the configuration file at each place.
FileInv ==
  /\ {loaded, snapshot} \subseteq Configs
  /\ pc # "written" => file \in Configs
  /\ override \in {"none", "modules", "sharding"} /\ write \in BOOLEAN
  /\ pc \in {"compare", "read", "keep", "prepare", "look", "rename"} => write
  /\ pc \notin {"load", "refused"} /\ write => override \in {"none", loaded.profile}
  /\ pc = "snapshot" => file = loaded \/ "snapshot" \in editedAt
  /\ pc \notin {"load", "refused", "snapshot"} /\ write =>
       snapshot.profile = loaded.profile \/ "snapshot" \in editedAt
  /\ pc = "keep" => Updated = snapshot
  /\ pc = "rename" => file = snapshot \/ "rename" \in editedAt

\* One state of the sources is no later than another; no edit restores an identity.
NoLater(one, other) ==
  one.identity <= other.identity /\ (one.identity = other.identity => one = other)

SourcesInv ==
  /\ {sources, fingerprint} \subseteq [contents : Contents, identity : Nat]
  /\ NoLater(fingerprint, sources)

\* A sequence of whatever it holds.
IsSequence(s) == s \in Seq({s[i] : i \in DOMAIN s})

\* A measurement that was judged ran the sources of the fingerprint.
Good(i) == ran[i].sources = fingerprint /\ ran[i].outcome = "same"

MeasuredInv ==
  /\ IsSequence(ran)
  /\ \A i \in DOMAIN ran : DOMAIN ran[i] = {"kind", "workers", "sources", "outcome"}
  /\ pc \in {"load", "snapshot", "fingerprint"} => ran = << >>
  /\ pc \in {"measure", "recommend"} => \A i \in DOMAIN ran : Good(i)
  /\ pc \in {"running", "check", "judge"} =>
       /\ ran # << >>
       /\ \A i \in DOMAIN ran : i < Len(ran) => Good(i)
       /\ ran[Len(ran)].sources \in [contents : Contents, identity : Nat]
       /\ NoLater(fingerprint, ran[Len(ran)].sources)
       /\ NoLater(ran[Len(ran)].sources, sources)
  /\ pc = "judge" => ran[Len(ran)].sources = fingerprint
  /\ recommended # 0 =>
       /\ \A i \in DOMAIN ran : Good(i)
       /\ pc \in {"compare", "read", "keep", "prepare", "look", "rename",
                  "failed", "killed", "reported", "kept", "written"}

Inv == TreeInv /\ InStep /\ FileInv /\ SourcesInv /\ MeasuredInv

\* The plan is made once, and what is measured after the probe is what it says.
AsPlanned(i, p) == ran[i].kind = p[i - 1].kind /\ ran[i].workers = p[i - 1].workers

PlannedInv ==
  /\ plan = << >> \/ plan = MeasurementPlan(Profile)
  /\ pc = "load" => plan = << >>
  /\ pc \in {"measure", "recommend"} /\ ran # << >> => plan = MeasurementPlan(Profile)
  /\ Len(ran) > 1 => plan = MeasurementPlan(Profile)
  /\ ran # << >> => ran[1].kind = "probe"
  /\ \A i \in DOMAIN ran : i > 1 => AsPlanned(i, plan)
  /\ pc = "recommend" => ran # << >> /\ Len(ran) = Len(plan) + 1
  /\ recommended # 0 =>
       /\ plan = MeasurementPlan(Profile) /\ Len(ran) = Len(plan) + 1
       /\ recommended = Recommendation

-----------------------------------------------------------------------------
(***************************************************************************)
(* Processes.                                                              *)
(***************************************************************************)
\* A set of numbers that has an element has a least one.
LEMMA LeastNumber ==
  ASSUME NEW S \in SUBSET Nat, S # {}
  PROVE  \E x \in S : \A y \in S : x <= y
  <1>1. PICK x \in S : \A y \in S : <<y, x>> \notin OpToRel(<, Nat)
    BY NatLessThanWellFounded, WFMin
  <1>2. \A y \in S : ~ (y < x)
    BY <1>1 DEF OpToRel
  <1> QED
    BY <1>2

\* The operating system finds the least free number if there is one.
LEMMA LeastFreeIsFree ==
  ASSUME NEW n \in Pids, Free(n)
  PROVE  LeastFree \in Pids /\ Free(LeastFree)
  <1> DEFINE S == {k \in Pids : Free(k)}
  <1>1. S \in SUBSET Nat /\ S # {}
    BY TreeAssumption
  <1>2. \E x \in S : \A y \in S : x <= y
    BY <1>1, LeastNumber
  <1> QED
    BY <1>2 DEF LeastFree

\* The first number is one of them.
LEMMA LeastPid ==
  (CHOOSE n \in Pids : \A k \in Pids : n <= k) \in Pids
  BY TreeAssumption, LeastNumber

\* What has S and the children of all it has, has the descendants of S.
LEMMA DescendantsWithin ==
  ASSUME NEW S, NEW T \in SUBSET Procs, S \subseteq T,
         \A p \in Procs : life[p] = "alive" /\ parent[p] \in T => p \in T
  PROVE  Descendants(S) \subseteq T
  BY DEF Descendants

\* Descendants are alive, and children of somebody.
LEMMA DescendantsAreAlive ==
  ASSUME NEW S \in SUBSET Procs
  PROVE  \A p \in Descendants(S) : p \in Procs /\ life[p] = "alive" /\ parent[p] # None
  <1> DEFINE T == S \union {p \in Procs : life[p] = "alive" /\ parent[p] # None}
  <1>1. T \in SUBSET Procs /\ S \subseteq T
    OBVIOUS
  <1>2. \A p \in Procs : life[p] = "alive" /\ parent[p] \in T => p \in T
    BY TreeAssumption
  <1>3. Descendants(S) \subseteq T
    BY <1>1, <1>2, DescendantsWithin
  <1>4. \A p \in Descendants(S) : p \in Procs \ S
    BY DEF Descendants
  <1> QED
    BY <1>3, <1>4

\* Our processes have no strangers below them.
LEMMA OwnDescendants ==
  ASSUME Sides, NEW S \in SUBSET Own
  PROVE  Descendants(S) \in SUBSET Own
  <1>1. Own \in SUBSET Procs
    BY DEF Own
  <1>2. \A p \in Procs : life[p] = "alive" /\ parent[p] \in Own => p \in Own
    BY TreeAssumption DEF Sides, Own
  <1> QED
    BY <1>1, <1>2, DescendantsWithin

LEMMA RootIsOwn == Root \in Own /\ Root \in Procs /\ Root \notin Strangers
  BY TreeAssumption DEF Own, Procs

\* The tracker sees our processes only, and only such as exist.
LEMMA CapturedIsOwn ==
  ASSUME TreeInv
  PROVE  Captured \in SUBSET Own /\ \A p \in Captured : p \in Procs /\ Exists(p)
  <1> DEFINE kept == {p \in known : Exists(p)}
             start == {p \in {Root} : Exists(p)} \union kept
  <1>1. known \in SUBSET Own /\ Own \in SUBSET Procs /\ Sides
    BY DEF TreeInv, TreeTypeOK, Tracked, Own
  <1>2. start \in SUBSET Own /\ kept \in SUBSET Own
    BY <1>1, RootIsOwn
  <1>3. Captured = kept \union Descendants(start)
    BY DEF Captured
  <1>4. Descendants(start) \in SUBSET Own
    BY <1>1, <1>2, OwnDescendants
  <1>5. \A p \in Descendants(start) : p \in Procs /\ Exists(p)
    BY <1>1, <1>2, DescendantsAreAlive DEF Exists
  <1>6. \A p \in kept : p \in Procs /\ Exists(p)
    BY <1>1
  <1> HIDE DEF kept, start
  <1> QED
    BY <1>2, <1>3, <1>4, <1>5, <1>6

\* While the command exists, nobody else has its number.
LEMMA OnlyRootHasItsNumber ==
  ASSUME TreeTypeOK, Exists(Root)
  PROVE  Holders(pid[Root]) = {Root}
  BY RootIsOwn DEF TreeTypeOK, Holders

\* Whoever a listing finds is ours or an heir.
LEMMA ListedAreOwnOrHeirs ==
  ASSUME TreeInv, NEW p \in Descendants(Holders(pid[Root])), p \in Strangers
  PROVE  ~Exists(Root) /\ p \in Heirs
  <1>1. TreeTypeOK /\ Sides
    BY DEF TreeInv
  <1>2. CASE Exists(Root)
    <2>1. Holders(pid[Root]) \in SUBSET Own
      BY <1>1, <1>2, OnlyRootHasItsNumber, RootIsOwn
    <2>2. p \in Own
      BY <1>1, <2>1, OwnDescendants
    <2> QED
      BY <2>2 DEF Own
  <1>3. CASE ~Exists(Root)
    <2>1. Holders(pid[Root]) \ {Root} = Holders(pid[Root])
      BY <1>3 DEF Holders
    <2> QED
      BY <1>3, <2>1 DEF Heirs
  <1> QED
    BY <1>2, <1>3

-----------------------------------------------------------------------------
(***************************************************************************)
(* The steps of the process tree.                                          *)
(***************************************************************************)
\* What the end of processes may do: nobody is born, and nobody comes back.
Deaths ==
  /\ life' \in [Procs -> {"unborn", "alive", "zombie", "dead"}]
  /\ parent' \in [Procs -> Procs \union {None}]
  /\ pid' = pid /\ group' = group
  /\ \A p \in Procs :
       /\ life'[p] = "alive" => life[p] = "alive"
       /\ life'[p] = "unborn" <=> life[p] = "unborn"
       /\ life'[p] = "zombie" => p = Root /\ Exists(p)
       /\ life[p] = "dead" => life'[p] = "dead"
       /\ parent'[p] \in {parent[p], None}

\* The processes themselves keep their invariant then.
LEMMA DeathsKeep ==
  ASSUME TreeTypeOK, Sides, Deaths
  PROVE  /\ Sides'
         /\ pid' \in [Procs -> Pids \union {0}] /\ group' \in [Procs -> Procs]
         /\ \A p \in Procs : Exists(p)' => Exists(p)
         /\ \A p, q \in Procs : Exists(p)' /\ Exists(q)' /\ p # q => pid'[p] # pid'[q]
  <1>1. \A p \in Procs : Exists(p)' => Exists(p)
    BY DEF Deaths, Exists
  <1>2. Sides'
    BY DEF Deaths, Sides
  <1>3. pid' \in [Procs -> Pids \union {0}] /\ group' \in [Procs -> Procs]
    BY DEF Deaths, TreeTypeOK
  <1>4. \A p, q \in Procs : Exists(p)' /\ Exists(q)' /\ p # q => pid'[p] # pid'[q]
    BY <1>1 DEF Deaths, TreeTypeOK
  <1> QED
    BY <1>1, <1>2, <1>3, <1>4

\* Nothing happens to a tree that nobody touches.
LEMMA StaysPut ==
  ASSUME TreeInv, UNCHANGED treeVars
  PROVE  TreeInv'
  BY DEF treeVars, TreeInv, TreeTypeOK, Sides, RootAt, Tracked, Done, Exists

\* If nobody is born or dies, the rest depends on the stage and on what is known.
LEMMA Remembering ==
  ASSUME TreeInv, UNCHANGED <<life, pid, parent, group>>
  PROVE  Sides' /\ Deaths
         /\ \A p \in Procs : Exists(p)' = Exists(p)
  BY DEF TreeInv, TreeTypeOK, Sides, Exists, Deaths

LEMMA StartTrackerStep == ASSUME TreeInv, StartTracker PROVE TreeInv'
  <1>1. Captured \in SUBSET Own /\ \A p \in Captured : p \in Procs /\ Exists(p)
    BY CapturedIsOwn
  <1>2. Sides' /\ \A p \in Procs : Exists(p)' = Exists(p)
    BY Remembering DEF StartTracker
  <1> QED
    BY <1>1, <1>2, RootIsOwn
    DEF StartTracker, TreeInv, TreeTypeOK, RootAt, Tracked, Done, Own, Exists

LEMMA CaptureStep == ASSUME TreeInv, Capture PROVE TreeInv'
  <1>1. Captured \in SUBSET Own /\ \A p \in Captured : p \in Procs /\ Exists(p)
    BY CapturedIsOwn
  <1>2. Sides' /\ \A p \in Procs : Exists(p)' = Exists(p)
    BY Remembering DEF Capture
  <1> QED
    BY <1>1, <1>2, RootIsOwn
    DEF Capture, TreeInv, TreeTypeOK, RootAt, Tracked, Done, Own, Exists

LEMMA StopAfterReturnStep == ASSUME TreeInv, StopAfterReturn PROVE TreeInv'
  <1>1. Captured \in SUBSET Own /\ \A p \in Captured : p \in Procs /\ Exists(p)
    BY CapturedIsOwn
  <1>2. Sides' /\ \A p \in Procs : Exists(p)' = Exists(p)
    BY Remembering DEF StopAfterReturn
  <1> QED
    BY <1>1, <1>2, RootIsOwn
    DEF StopAfterReturn, StopTracker, TreeInv, TreeTypeOK, RootAt, Tracked, Done, Own, Exists

LEMMA StopsWaitingStep == ASSUME TreeInv, StopsWaiting PROVE TreeInv'
  <1>1. Captured \in SUBSET Own /\ \A p \in Captured : p \in Procs /\ Exists(p)
    BY CapturedIsOwn
  <1>2. Sides' /\ \A p \in Procs : Exists(p)' = Exists(p)
    BY Remembering DEF StopsWaiting
  <1> QED
    BY <1>1, <1>2, RootIsOwn
    DEF StopsWaiting, StopTracker, TreeInv, TreeTypeOK, RootAt, Tracked, Done, Own, Exists

LEMMA CleanupInterruptedStep == ASSUME TreeInv, CleanupInterrupted PROVE TreeInv'
  <1>1. Sides' /\ \A p \in Procs : Exists(p)' = Exists(p)
    BY Remembering DEF CleanupInterrupted
  <1> QED
    BY <1>1, RootIsOwn
    DEF CleanupInterrupted, TreeInv, TreeTypeOK, RootAt, Tracked, Done, Exists

LEMMA InterruptedEarlyStep == ASSUME TreeInv, InterruptedEarly PROVE TreeInv'
  <1>2. Sides' /\ \A p \in Procs : Exists(p)' = Exists(p)
    BY Remembering DEF InterruptedEarly
  <1> QED
    BY <1>2, RootIsOwn
    DEF InterruptedEarly, TreeInv, TreeTypeOK, RootAt, Tracked, Done, Exists

\* The listings, by the number of the command.
LEMMA ListedStep ==
  ASSUME TreeInv,
         \/ ListByNumber("listing", "terminating")
         \/ ListByNumber("listing-again", "killing")
  PROVE  TreeInv'
  <1> DEFINE listed == Descendants(Holders(pid[Root]))
  <1>1. \A p \in listed : p \in Procs /\ life[p] = "alive"
    BY DescendantsAreAlive DEF Holders
  <1>2. Sides' /\ \A p \in Procs : Exists(p)' = Exists(p)
    BY Remembering DEF ListByNumber
  <1>3. targets' = targets \union listed
    BY DEF ListByNumber
  <1> HIDE DEF listed
  <1> QED
    BY <1>1, <1>2, <1>3, RootIsOwn
    DEF ListByNumber, TreeInv, TreeTypeOK, RootAt, Tracked, Done, Exists

\* A signal ends whom it is sent to, and nobody else.
LEMMA SignalFacts ==
  ASSUME TreeInv, NEW owned \in BOOLEAN, NEW dies \in SUBSET Procs, NEW to,
         SignalTree(owned, dies, to)
  PROVE  /\ Deaths
         /\ \A p \in Addressed(owned) \intersect dies : life'[p] # "alive"
         /\ signalled' = signalled \union Addressed(owned)
         /\ stage' = to /\ UNCHANGED <<pid, group, known, targets, ending>>
  <1> DEFINE hit == Addressed(owned) \intersect dies
             lives == [p \in Procs |-> IF p \notin hit THEN life[p]
                                      ELSE IF p = Root THEN "zombie" ELSE "dead"]
  <1>1. /\ life' = IF life[Root] = "zombie" THEN Polled(lives) ELSE lives
        /\ parent' = [p \in Procs |-> IF {p, parent[p]} \intersect hit # {}
                                        THEN None ELSE parent[p]]
        /\ signalled' = signalled \union Addressed(owned)
        /\ stage' = to /\ UNCHANGED <<pid, group, known, targets, ending>>
    BY DEF SignalTree
  <1>2. hit \in SUBSET Procs /\ \A p \in hit : life[p] = "alive"
    BY DEF Addressed
  <1> HIDE DEF hit
  <1>3. lives \in [Procs -> {"unborn", "alive", "zombie", "dead"}]
    BY DEF TreeInv, TreeTypeOK
  <1>4. life' = [p \in Procs |-> IF p = Root /\ life[Root] = "zombie" THEN "dead" ELSE lives[p]]
    <2>1. CASE life[Root] = "zombie"
      <3>1. Root \notin hit
        BY <1>2, <2>1
      <3>2. lives[Root] = "zombie"
        BY <2>1, <3>1, RootIsOwn
      <3>3. life' = [lives EXCEPT ![Root] = "dead"]
        BY <1>1, <2>1, <3>2 DEF Polled
      <3> QED
        BY <2>1, <3>3
    <2>2. CASE life[Root] # "zombie"
      BY <1>1, <2>2
    <2> QED
      BY <2>1, <2>2
  <1>5. \A p \in Procs : life'[p] = IF p = Root /\ life[Root] = "zombie" THEN "dead"
                                    ELSE IF p \notin hit THEN life[p]
                                    ELSE IF p = Root THEN "zombie" ELSE "dead"
    BY <1>4
  <1>6. life' \in [Procs -> {"unborn", "alive", "zombie", "dead"}]
    BY <1>3, <1>4
  <1> HIDE DEF lives
  <1>7. parent' \in [Procs -> Procs \union {None}]
        /\ \A p \in Procs : parent'[p] \in {parent[p], None}
    BY <1>1 DEF TreeInv, TreeTypeOK
  <1>8. \A p \in hit : life'[p] # "alive"
    BY <1>2, <1>5
  <1>9. Deaths
    BY <1>1, <1>2, <1>5, <1>6, <1>7 DEF Deaths, TreeInv, Sides, Exists
  <1> QED
    BY <1>1, <1>8, <1>9 DEF hit

LEMMA CommandReturnsStep == ASSUME TreeInv, CommandReturns PROVE TreeInv'
  <1>1. Deaths
    BY RootIsOwn DEF CommandReturns, Deaths, TreeInv, TreeTypeOK, Sides, Exists
  <1>2. Sides' /\ \A p, q \in Procs : Exists(p)' /\ Exists(q)' /\ p # q => pid'[p] # pid'[q]
    BY <1>1, DeathsKeep DEF TreeInv
  <1> QED
    BY <1>1, <1>2, RootIsOwn
    DEF CommandReturns, TreeInv, TreeTypeOK, RootAt, Tracked, Done, Exists, Deaths

LEMMA KillAfterReturnStep == ASSUME TreeInv, KillAfterReturn PROVE TreeInv'
  <1>1. stage = "clearing" /\ SignalTree(FALSE, Procs, "over")
    BY DEF KillAfterReturn
  <1>2. /\ Deaths
        /\ \A p \in Addressed(FALSE) \intersect Procs : life'[p] # "alive"
        /\ signalled' = signalled \union Addressed(FALSE)
        /\ stage' = "over" /\ UNCHANGED <<pid, group, known, targets, ending>>
    BY <1>1, SignalFacts
  <1>3. Sides' /\ \A p, q \in Procs : Exists(p)' /\ Exists(q)' /\ p # q => pid'[p] # pid'[q]
    BY <1>2, DeathsKeep DEF TreeInv
  <1>4. \A p \in targets : p \in Procs /\ (life[p] = "alive" => p \in Addressed(FALSE))
    BY DEF TreeInv, TreeTypeOK, Addressed, Exists
  <1>5. \A p \in targets : life'[p] # "alive"
    BY <1>2, <1>4 DEF Deaths
  <1>6. Addressed(FALSE) \subseteq Procs
    BY DEF Addressed
  <1> QED
    BY <1>1, <1>2, <1>3, <1>5, <1>6, RootIsOwn
    DEF TreeInv, TreeTypeOK, RootAt, Tracked, Done, Exists, Deaths

LEMMA TerminateStep == ASSUME TreeInv, Terminate PROVE TreeInv'
  <1> DEFINE owned == life[Root] = "alive"
  <1>1. stage = "terminating" /\ SignalTree(owned, Procs \ Stubborn, "grace")
    BY DEF Terminate
  <1>2. owned \in BOOLEAN /\ Procs \ Stubborn \in SUBSET Procs
    OBVIOUS
  <1> HIDE DEF owned
  <1>3. /\ Deaths
        /\ signalled' = signalled \union Addressed(owned)
        /\ stage' = "grace" /\ UNCHANGED <<pid, group, known, targets, ending>>
    BY <1>1, <1>2, SignalFacts
  <1>4. Sides' /\ \A p, q \in Procs : Exists(p)' /\ Exists(q)' /\ p # q => pid'[p] # pid'[q]
    BY <1>3, DeathsKeep DEF TreeInv
  <1>5. Addressed(owned) \subseteq Procs
    BY DEF Addressed
  <1> QED
    BY <1>1, <1>3, <1>4, <1>5, RootIsOwn
    DEF TreeInv, TreeTypeOK, RootAt, Tracked, Done, Exists, Deaths

LEMMA KillStep == ASSUME TreeInv, Kill PROVE TreeInv'
  <1> DEFINE owned == life[Root] = "alive"
  <1>1. stage = "killing" /\ SignalTree(owned, Procs, "waiting")
    BY DEF Kill
  <1>2. owned \in BOOLEAN
    OBVIOUS
  <1>3. \A p \in targets : p \in Procs /\ (life[p] = "alive" => p \in Addressed(owned))
    BY DEF TreeInv, TreeTypeOK, Addressed, Exists
  <1>4. life[Root] = "alive" => Root \in Addressed(owned)
    BY RootIsOwn DEF TreeInv, RootAt, Addressed
  <1> HIDE DEF owned
  <1>5. /\ Deaths
        /\ \A p \in Addressed(owned) \intersect Procs : life'[p] # "alive"
        /\ signalled' = signalled \union Addressed(owned)
        /\ stage' = "waiting" /\ UNCHANGED <<pid, group, known, targets, ending>>
    BY <1>1, <1>2, SignalFacts
  <1>6. Sides' /\ \A p, q \in Procs : Exists(p)' /\ Exists(q)' /\ p # q => pid'[p] # pid'[q]
    BY <1>5, DeathsKeep DEF TreeInv
  <1>7. \A p \in targets \union {Root} : life'[p] # "alive"
    BY <1>3, <1>4, <1>5, RootIsOwn DEF Deaths
  <1>8. Addressed(owned) \subseteq Procs
    BY DEF Addressed
  <1> QED
    BY <1>1, <1>5, <1>6, <1>7, <1>8, RootIsOwn
    DEF TreeInv, TreeTypeOK, RootAt, Tracked, Done, Exists, Deaths

\* poll() and wait() end nothing but the command, if it has exited.
LEMMA PolledFacts ==
  ASSUME TreeInv, life' = Polled(life), UNCHANGED <<pid, parent, group>>
  PROVE  Deaths /\ (life'[Root] # "alive" => life'[Root] \in {"unborn", "dead"})
  <1>1. life' = [p \in Procs |-> IF p = Root /\ life[Root] = "zombie" THEN "dead" ELSE life[p]]
    BY RootIsOwn DEF Polled, TreeInv, TreeTypeOK
  <1>2. life' \in [Procs -> {"unborn", "alive", "zombie", "dead"}]
    BY <1>1 DEF TreeInv, TreeTypeOK
  <1>3. Deaths
    BY <1>1, <1>2 DEF Deaths, TreeInv, TreeTypeOK, Sides, Exists
  <1>4. life'[Root] # "alive" => life'[Root] \in {"unborn", "dead"}
    BY <1>1, RootIsOwn DEF TreeInv, TreeTypeOK
  <1> QED
    BY <1>3, <1>4

LEMMA GraceEndsStep == ASSUME TreeInv, GraceEnds PROVE TreeInv'
  <1>1. Deaths
    BY PolledFacts DEF GraceEnds
  <1>2. Sides' /\ \A p, q \in Procs : Exists(p)' /\ Exists(q)' /\ p # q => pid'[p] # pid'[q]
    BY <1>1, DeathsKeep DEF TreeInv
  <1>3. /\ stage = "grace" /\ stage' = "listing-again"
        /\ UNCHANGED <<pid, parent, group, known, targets, signalled, ending>>
    BY DEF GraceEnds
  <1> QED
    BY <1>1, <1>2, <1>3, RootIsOwn
    DEF TreeInv, TreeTypeOK, RootAt, Tracked, Done, Exists, Deaths

LEMMA WaitForKilledStep == ASSUME TreeInv, WaitForKilled PROVE TreeInv'
  <1>1. Deaths /\ (life'[Root] # "alive" => life'[Root] \in {"unborn", "dead"})
    BY PolledFacts DEF WaitForKilled
  <1>2. Sides' /\ \A p, q \in Procs : Exists(p)' /\ Exists(q)' /\ p # q => pid'[p] # pid'[q]
    BY <1>1, DeathsKeep DEF TreeInv
  <1>3. /\ stage = "waiting" /\ stage' = "over"
        /\ UNCHANGED <<pid, parent, group, known, targets, signalled, ending>>
    BY DEF WaitForKilled
  <1>4. life'[Root] = "dead"
    BY <1>1, <1>3, RootIsOwn DEF TreeInv, RootAt, Deaths
  <1> QED
    BY <1>1, <1>2, <1>3, <1>4, RootIsOwn
    DEF TreeInv, TreeTypeOK, RootAt, Tracked, Done, Exists, Deaths

\* A command is launched alone in its world, and forgotten when it is over.
LEMMA RenewStep ==
  ASSUME TreeInv, NEW where \in {"started", "idle"}, NEW who \in {{Root}, {}},
         where = "started" <=> who = {Root}, Renew(where, who)
  PROVE  TreeInv'
  <1>1. (CHOOSE n \in Pids : \A k \in Pids : n <= k) \in Pids
    BY LeastPid
  <1>2. \A p \in Procs : /\ life'[p] = (IF p \in who THEN "alive" ELSE "unborn")
                          /\ parent'[p] = None /\ group'[p] = p
    BY DEF Renew
  <1>3. TreeTypeOK'
    BY <1>1, RootIsOwn DEF Renew, TreeTypeOK, Exists
  <1>4. Sides' /\ RootAt'
    BY <1>2, RootIsOwn DEF Renew, Sides, RootAt, Done, Exists
  <1>5. Tracked'
    BY RootIsOwn DEF Renew, Tracked, Done
  <1> QED
    BY <1>3, <1>4, <1>5 DEF TreeInv

LEMMA LaunchStep == ASSUME TreeInv, Launch PROVE TreeInv'
  BY RenewStep DEF Launch

LEMMA LeaveStep == ASSUME TreeInv, Leave PROVE TreeInv'
  BY RenewStep DEF Leave

\* What others do between two steps of the cleanup.
LEMMA ExitsStep ==
  ASSUME TreeInv, stage # "idle", NEW p \in Procs, Exits(p)
  PROVE  TreeInv'
  <1>1. /\ life' = [q \in Procs |-> IF q # p THEN life[q]
                                   ELSE IF q = Root THEN "zombie" ELSE "dead"]
        /\ parent' = [q \in Procs |-> IF q = p \/ parent[q] = p THEN None ELSE parent[q]]
        /\ life[p] = "alive" /\ p \notin Strangers
        /\ UNCHANGED <<stage, pid, group, known, targets, signalled, ending>>
    BY DEF Exits, Exit
  <1>2. Deaths
    BY <1>1 DEF Deaths, TreeInv, TreeTypeOK, Sides, Exists
  <1>3. Sides' /\ \A q, r \in Procs : Exists(q)' /\ Exists(r)' /\ q # r => pid'[q] # pid'[r]
    BY <1>2, DeathsKeep DEF TreeInv
  <1>4. TreeTypeOK'
    BY <1>1, <1>2, <1>3 DEF TreeInv, TreeTypeOK, Deaths
  <1>5. RootAt'
    BY <1>1, RootIsOwn DEF TreeInv, TreeTypeOK, RootAt, Done, Exists
  <1>6. Tracked'
    BY <1>1, <1>2 DEF TreeInv, TreeTypeOK, Tracked, Done, Deaths
  <1> QED
    BY <1>3, <1>4, <1>5, <1>6 DEF TreeInv

LEMMA ForkStep ==
  ASSUME TreeInv, stage # "idle", NEW p \in Procs, NEW child \in Procs, Fork(p, child)
  PROVE  TreeInv'
  <1>1. LeastFree \in Pids /\ Free(LeastFree)
    BY LeastFreeIsFree DEF Fork
  <1>2. PICK leader \in {group[p], child} : group' = [group EXCEPT ![child] = leader]
    BY DEF Fork
  <1>3. /\ life[p] = "alive" /\ life[child] = "unborn" /\ (p \in Strangers <=> child \in Strangers)
        /\ life' = [life EXCEPT ![child] = "alive"]
        /\ pid' = [pid EXCEPT ![child] = LeastFree]
        /\ parent' = [parent EXCEPT ![child] = p]
        /\ UNCHANGED <<stage, known, targets, signalled, ending>>
    BY DEF Fork
  <1>4. child # Root /\ Root \in Procs
    BY <1>3, RootIsOwn DEF TreeInv, RootAt
  <1>5. \A q \in Procs : Exists(q)' <=> Exists(q) \/ q = child
    BY <1>3 DEF TreeInv, TreeTypeOK, Exists
  <1>6. \A q, r \in Procs : Exists(q)' /\ Exists(r)' /\ q # r => pid'[q] # pid'[r]
    BY <1>1, <1>3, <1>5 DEF Free, TreeInv, TreeTypeOK
  <1>7. TreeTypeOK'
    BY <1>1, <1>2, <1>3, <1>6 DEF TreeInv, TreeTypeOK
  <1>8. Sides'
    <2>1. \A q \in Procs : group'[q] \in Strangers <=> q \in Strangers
      <3>1. leader \in Strangers <=> child \in Strangers
        BY <1>2, <1>3 DEF TreeInv, Sides
      <3>2. \A q \in Procs : group'[q] = IF q = child THEN leader ELSE group[q]
        BY <1>2 DEF TreeInv, TreeTypeOK
      <3> QED
        BY <3>1, <3>2 DEF TreeInv, Sides
    <2>2. \A q \in Procs : parent'[q] # None => (parent'[q] \in Strangers <=> q \in Strangers)
      <3>1. \A q \in Procs : parent'[q] = IF q = child THEN p ELSE parent[q]
        BY <1>3 DEF TreeInv, TreeTypeOK
      <3> QED
        BY <1>3, <3>1 DEF TreeInv, Sides
    <2>3. \A q \in Procs : life'[q] = "zombie" => q = Root
      BY <1>3 DEF TreeInv, TreeTypeOK, Sides
    <2> QED
      BY <2>1, <2>2, <2>3 DEF Sides
  <1>9. RootAt' /\ Tracked'
    BY <1>2, <1>3, <1>4, <1>5 DEF TreeInv, TreeTypeOK, RootAt, Tracked, Done
  <1> QED
    BY <1>7, <1>8, <1>9 DEF TreeInv

LEMMA StrangerAppearsStep ==
  ASSUME TreeInv, stage # "idle", NEW s \in Strangers, StrangerAppears(s)
  PROVE  TreeInv'
  <1>1. PICK n \in Pids : Free(n) /\ pid' = [pid EXCEPT ![s] = n]
    BY DEF StrangerAppears
  <1>2. /\ life[s] = "unborn"
        /\ life' = [life EXCEPT ![s] = "alive"]
        /\ group' = [group EXCEPT ![s] = s]
        /\ UNCHANGED <<stage, parent, known, targets, signalled, ending>>
    BY DEF StrangerAppears
  <1>3. s # Root /\ Root \in Procs /\ s \in Procs
    BY RootIsOwn DEF Procs
  <1>4. \A q \in Procs : Exists(q)' <=> Exists(q) \/ q = s
    BY <1>2, <1>3 DEF TreeInv, TreeTypeOK, Exists
  <1>5. \A q, r \in Procs : Exists(q)' /\ Exists(r)' /\ q # r => pid'[q] # pid'[r]
    BY <1>1, <1>2, <1>3, <1>4 DEF Free, TreeInv, TreeTypeOK
  <1>6. TreeTypeOK'
    BY <1>1, <1>2, <1>3, <1>5 DEF TreeInv, TreeTypeOK
  <1>7. Sides'
    BY <1>2, <1>3 DEF TreeInv, TreeTypeOK, Sides
  <1>8. RootAt' /\ Tracked'
    BY <1>2, <1>3, <1>4 DEF TreeInv, TreeTypeOK, RootAt, Tracked, Done
  <1> QED
    BY <1>6, <1>7, <1>8 DEF TreeInv

LEMMA EnvironmentStep == ASSUME TreeInv, Environment PROVE TreeInv'
  <1>1. stage # "idle"
    BY DEF Environment
  <1>2. CASE \E p, child \in Procs : Fork(p, child)
    BY <1>1, <1>2, ForkStep
  <1>3. CASE \E s \in Strangers : StrangerAppears(s)
    BY <1>1, <1>3, StrangerAppearsStep
  <1>4. CASE \E p \in Procs : Exits(p)
    BY <1>1, <1>4, ExitsStep
  <1> QED
    BY <1>2, <1>3, <1>4 DEF Environment

\* Every step of the process tree keeps its invariant.
LEMMA TreeNextStep == ASSUME TreeInv, TreeNext PROVE TreeInv'
  <1>1. CASE CleanUp
    BY <1>1, CommandReturnsStep, StopAfterReturnStep, KillAfterReturnStep, StopsWaitingStep,
       InterruptedEarlyStep, ListedStep, TerminateStep, GraceEndsStep, KillStep,
       WaitForKilledStep, CleanupInterruptedStep DEF CleanUp
  <1> QED
    BY <1>1, EnvironmentStep, StartTrackerStep, CaptureStep DEF TreeNext

LEMMA TreeStarts == ASSUME TreeInit PROVE TreeInv
  <1>1. TreeTypeOK
    BY DEF TreeInit, TreeTypeOK, Exists
  <1>2. Sides /\ RootAt
    BY RootIsOwn DEF TreeInit, Sides, RootAt, Done, Exists
  <1>3. Tracked
    BY DEF TreeInit, Tracked, Done
  <1> QED
    BY <1>1, <1>2, <1>3 DEF TreeInv

-----------------------------------------------------------------------------
(***************************************************************************)
(* The steps of the session.                                               *)
(***************************************************************************)
\* While the command runs, the process tree does not go back to being idle.
LEMMA TreeNextStays ==
  ASSUME stage # "idle", TreeNext
  PROVE  stage' # "idle"
  <1>1. CASE CleanUp
    BY <1>1 DEF CleanUp, CommandReturns, StopAfterReturn, KillAfterReturn, StopsWaiting,
       InterruptedEarly, ListByNumber, Terminate, GraceEnds, Kill, WaitForKilled, StopTracker,
       CleanupInterrupted, SignalTree
  <1>2. CASE Environment
    BY <1>2 DEF Environment, Fork, StrangerAppears, Exits
  <1> QED
    BY <1>1, <1>2 DEF TreeNext, StartTracker, Capture

\* A step of the session lets the tree alone, runs one of its steps, or enters or
\* leaves it.
LEMMA SessionAndTree ==
  ASSUME Inv, [Next]_vars
  PROVE  \/ UNCHANGED treeVars /\ (pc' = "running" <=> pc = "running")
         \/ TreeNext /\ pc = "running" /\ pc' = "running"
         \/ Launch /\ pc = "measure" /\ pc' = "running"
         \/ Leave /\ pc = "running" /\ pc' # "running"
  <1>1. CASE LoadConfig
    BY <1>1 DEF LoadConfig, Session
  <1>2. CASE ReadSnapshot
    BY <1>2 DEF ReadSnapshot, Session
  <1>3. CASE Fingerprint
    BY <1>3 DEF Fingerprint, Session
  <1>4. CASE MeasureNative \/ MeasurePytest
    BY <1>4 DEF MeasureNative, MeasurePytest, Measure
  <1>5. CASE TreeStep
    BY <1>5 DEF TreeStep
  <1>6. CASE CommandOver
    BY <1>6 DEF CommandOver
  <1>7. CASE RequireUnchangedSources
    BY <1>7 DEF RequireUnchangedSources, Session
  <1>8. CASE Judge
    BY <1>8 DEF Judge, Session
  <1>9. CASE Recommend
    BY <1>9 DEF Recommend, Session
  <1>10. CASE CompareConfig \/ ReadConfig \/ KeepConfig
    BY <1>10 DEF CompareConfig, ReadConfig, KeepConfig, Session
  <1>11. CASE PrepareConfig \/ LastLook \/ RenameConfig
    BY <1>11 DEF PrepareConfig, LastLook, RenameConfig, Session
  <1>12. CASE WriteFails
    BY <1>12 DEF WriteFails, Session
  <1>13. CASE Edit
    BY <1>13 DEF Edit
  <1>14. CASE UNCHANGED vars
    BY <1>14 DEF vars
  <1> QED
    BY <1>1, <1>2, <1>3, <1>4, <1>5, <1>6, <1>7, <1>8, <1>9, <1>10, <1>11, <1>12, <1>13, <1>14
    DEF Next

LEMMA TreeInvStep ==
  ASSUME Inv, [Next]_vars
  PROVE  TreeInv' /\ InStep'
  <1>1. TreeInv /\ InStep
    BY DEF Inv
  <1>2. CASE UNCHANGED treeVars /\ (pc' = "running" <=> pc = "running")
    <2>1. TreeInv'
      BY <1>1, <1>2, StaysPut
    <2>2. InStep'
      BY <1>1, <1>2 DEF InStep, treeVars
    <2> QED
      BY <2>1, <2>2
  <1>3. CASE TreeNext /\ pc = "running" /\ pc' = "running"
    <2>1. TreeInv'
      BY <1>1, <1>3, TreeNextStep
    <2>2. InStep'
      BY <1>1, <1>3, TreeNextStays DEF InStep
    <2> QED
      BY <2>1, <2>2
  <1>4. CASE Launch /\ pc = "measure" /\ pc' = "running"
    <2>1. TreeInv'
      BY <1>1, <1>4, LaunchStep
    <2>2. InStep'
      BY <1>4 DEF InStep, Launch, Renew
    <2> QED
      BY <2>1, <2>2
  <1>5. CASE Leave /\ pc = "running" /\ pc' # "running"
    <2>1. TreeInv'
      BY <1>1, <1>5, LeaveStep
    <2>2. InStep'
      BY <1>5 DEF InStep, Leave, Renew
    <2> QED
      BY <2>1, <2>2
  <1> QED
    BY <1>2, <1>3, <1>4, <1>5, SessionAndTree

\* What is known of the configuration stays true, whoever edits it.
LEMMA FileInvStep ==
  ASSUME Inv, [Next]_vars
  PROVE  FileInv'
  <1>0. FileInv
    BY DEF Inv
  <1>1. CASE LoadConfig
    BY <1>0, <1>1 DEF LoadConfig, Session, FileInv, commandLine
  <1>2. CASE ReadSnapshot
    BY <1>0, <1>2 DEF ReadSnapshot, Session, FileInv, commandLine
  <1>3. CASE Fingerprint
    BY <1>0, <1>3 DEF Fingerprint, Session, FileInv, commandLine
  <1>4. CASE MeasureNative \/ MeasurePytest
    BY <1>0, <1>4 DEF MeasureNative, MeasurePytest, Measure, FileInv, commandLine, fileVars
  <1>5. CASE TreeStep
    BY <1>0, <1>5 DEF TreeStep, FileInv, commandLine, fileVars, sessionVars, Updated
  <1>6. CASE CommandOver
    BY <1>0, <1>6 DEF CommandOver, FileInv, commandLine, fileVars, sessionVars, Updated
  <1>7. CASE RequireUnchangedSources
    BY <1>0, <1>7 DEF RequireUnchangedSources, Session, FileInv, commandLine, sessionVars
  <1>8. CASE Judge
    BY <1>0, <1>8 DEF Judge, Session, FileInv, commandLine
  <1>9. CASE Recommend
    BY <1>0, <1>9 DEF Recommend, Session, FileInv, commandLine
  <1>10. CASE CompareConfig
    BY <1>0, <1>10 DEF CompareConfig, Session, FileInv, commandLine, sessionVars
  <1>11. CASE ReadConfig
    BY <1>0, <1>11 DEF ReadConfig, Session, FileInv, commandLine, sessionVars, Updated
  <1>12. CASE KeepConfig
    BY <1>0, <1>12 DEF KeepConfig, Session, FileInv, commandLine, sessionVars
  <1>13. CASE PrepareConfig
    BY <1>0, <1>13 DEF PrepareConfig, Session, FileInv, commandLine
  <1>14. CASE LastLook
    BY <1>0, <1>14 DEF LastLook, Session, FileInv, commandLine
  <1>15. CASE RenameConfig
    BY <1>0, <1>15 DEF RenameConfig, Session, FileInv, commandLine
  <1>16. CASE WriteFails
    BY <1>0, <1>16 DEF WriteFails, Session, FileInv, commandLine
  <1>17. CASE Edit
    BY <1>0, <1>17, TuningAssumption
    DEF Edit, EditConfig, EditSources, Ended, FileInv, commandLine, sessionVars, Updated
  <1>18. CASE UNCHANGED vars
    BY <1>0, <1>18 DEF vars, FileInv, fileVars, commandLine, sessionVars, Updated
  <1> QED
    BY <1>1, <1>2, <1>3, <1>4, <1>5, <1>6, <1>7, <1>8, <1>9, <1>10, <1>11, <1>12, <1>13, <1>14,
       <1>15, <1>16, <1>17, <1>18 DEF Next

\* A fingerprint is never ahead of the sources.
LEMMA SourcesInvStep ==
  ASSUME Inv, [Next]_vars
  PROVE  SourcesInv'
  <1>0. SourcesInv
    BY DEF Inv
  <1>1. CASE sources' = sources /\ fingerprint' \in {fingerprint, sources}
    BY <1>0, <1>1 DEF SourcesInv, NoLater
  <1>2. CASE Edit
    <2>1. CASE EditConfig
      BY <1>0, <1>2, <2>1 DEF Edit, EditConfig, sessionVars, SourcesInv, NoLater
    <2>2. CASE EditSources
      <3>1. PICK contents \in Contents :
              sources' = [contents |-> contents, identity |-> sources.identity + 1]
        BY <2>2 DEF EditSources
      <3>2. fingerprint' = fingerprint
        BY <1>2 DEF Edit, sessionVars
      <3> QED
        BY <1>0, <3>1, <3>2 DEF SourcesInv, NoLater
    <2> QED
      BY <1>2, <2>1, <2>2 DEF Edit
  <1>3. ~Edit => sources' = sources /\ fingerprint' \in {fingerprint, sources}
    BY DEF Next, vars, LoadConfig, ReadSnapshot, Fingerprint, MeasureNative, MeasurePytest, Measure,
       TreeStep, CommandOver, RequireUnchangedSources, Judge, Recommend, CompareConfig, ReadConfig,
       KeepConfig, PrepareConfig, LastLook, RenameConfig, WriteFails, Session, fileVars, sessionVars
  <1> QED
    BY <1>1, <1>2, <1>3

\* A sequence is one of its own elements.
LEMMA OwnElements ==
  ASSUME NEW T, NEW s \in Seq(T)
  PROVE  IsSequence(s)
  BY DEF IsSequence

\* What is to be known of a sequence t that is s with x appended.
Extended(s, x, t) ==
  /\ IsSequence(t)
  /\ DOMAIN t = 1 .. Len(t) /\ Len(t) = Len(s) + 1 /\ Len(s) \in Nat
  /\ DOMAIN s = 1 .. Len(s)
  /\ t # << >>
  /\ \A i \in DOMAIN t : t[i] = IF i = Len(t) THEN x ELSE s[i]

LEMMA OneMore ==
  ASSUME NEW s, IsSequence(s), NEW x, NEW t, t = Append(s, x)
  PROVE  Extended(s, x, t)
  <1> DEFINE T == {s[i] : i \in DOMAIN s} \union {x}
  <1>1. s \in Seq(T)
    BY DEF IsSequence
  <1> HIDE DEF T
  <1>2. x \in T
    BY DEF T
  <1>3. t \in Seq(T)
    BY <1>1, <1>2
  <1>4. IsSequence(t)
    BY <1>3, OwnElements
  <1> QED
    BY <1>1, <1>2, <1>3, <1>4 DEF Extended

\* The same for a sequence t that is s with x for its last element.
Amended(s, x, t) ==
  /\ IsSequence(t)
  /\ DOMAIN t = 1 .. Len(t) /\ Len(t) = Len(s) /\ Len(s) \in Nat \ {0}
  /\ DOMAIN s = 1 .. Len(s)
  /\ \A i \in DOMAIN t : t[i] = IF i = Len(t) THEN x ELSE s[i]

LEMMA OneChanged ==
  ASSUME NEW s, IsSequence(s), s # << >>, NEW x, NEW t,
         t = [s EXCEPT ![Len(s)] = x]
  PROVE  Amended(s, x, t)
  <1> DEFINE T == {s[i] : i \in DOMAIN s} \union {x}
  <1>1. s \in Seq(T) /\ x \in T
    BY DEF IsSequence
  <1> HIDE DEF T
  <1>2. Len(s) \in Nat \ {0} /\ DOMAIN s = 1 .. Len(s)
    BY <1>1
  <1>3. t \in Seq(T)
    BY <1>1, <1>2
  <1>4. IsSequence(t)
    BY <1>3, OwnElements
  <1>5. DOMAIN t = DOMAIN s
    OBVIOUS
  <1>6. Len(t) = Len(s)
    BY <1>1, <1>3, <1>5
  <1> QED
    BY <1>2, <1>4, <1>5, <1>6 DEF Amended

\* A measurement counts once it has been judged, and only if the sources are still
\* those of the fingerprint.
LEMMA MeasuredInvStep ==
  ASSUME Inv, [Next]_vars
  PROVE  MeasuredInv'
  <1>0. MeasuredInv /\ SourcesInv
    BY DEF Inv
  <1>1. CASE UNCHANGED <<ran, fingerprint, sources, recommended>> /\ pc' = pc
    BY <1>0, <1>1 DEF MeasuredInv, IsSequence, Good, NoLater
  <1>2. CASE LoadConfig \/ ReadSnapshot
    BY <1>0, <1>2 DEF LoadConfig, ReadSnapshot, Session, MeasuredInv, IsSequence, Good
  <1>3. CASE Fingerprint
    BY <1>0, <1>3 DEF Fingerprint, Session, MeasuredInv, IsSequence, Good
  <1>4. CASE MeasureNative \/ MeasurePytest
    <2> DEFINE new == [kind |-> Following.kind, workers |-> Following.workers,
                       sources |-> sources, outcome |-> "unknown"]
    <2>1. /\ pc = "measure" /\ pc' = "running" /\ ran' = Append(ran, new)
          /\ UNCHANGED <<sources, fingerprint, recommended>>
      BY <1>4 DEF MeasureNative, MeasurePytest, Measure, fileVars
    <2>2. DOMAIN new = {"kind", "workers", "sources", "outcome"} /\ new.sources = sources
      OBVIOUS
    <2> HIDE DEF new
    <2>3. IsSequence(ran) /\ recommended = 0
      BY <1>0, <2>1 DEF MeasuredInv
    <2>4. Extended(ran, new, ran')
      BY <2>1, <2>3, OneMore
    <2>5. \A i \in DOMAIN ran' : DOMAIN ran'[i] = {"kind", "workers", "sources", "outcome"}
      BY <1>0, <2>2, <2>4 DEF MeasuredInv, Extended
    <2>6. \A i \in DOMAIN ran' : i < Len(ran') => Good(i)'
      BY <1>0, <2>1, <2>4 DEF MeasuredInv, Good, Extended
    <2>7. ran'[Len(ran')].sources = sources
      BY <2>2, <2>4 DEF Extended
    <2>8. NoLater(fingerprint, sources) /\ NoLater(sources, sources)
          /\ sources \in [contents : Contents, identity : Nat]
      BY <1>0 DEF SourcesInv, NoLater
    <2> QED
      BY <2>1, <2>3, <2>4, <2>5, <2>6, <2>7, <2>8 DEF MeasuredInv, Extended
  <1>5. CASE CommandOver
    BY <1>0, <1>5
    DEF CommandOver, fileVars, sessionVars, MeasuredInv, IsSequence, Good, NoLater
  <1>6. CASE RequireUnchangedSources
    <2>1. /\ pc = "check" /\ pc' = IF sources = fingerprint THEN "judge" ELSE "failed"
          /\ UNCHANGED <<ran, fingerprint, sources, recommended>>
      BY <1>6 DEF RequireUnchangedSources, Session, SameSources, sessionVars
    <2>2. sources = fingerprint => ran[Len(ran)].sources = fingerprint
      BY <1>0, <2>1 DEF MeasuredInv, SourcesInv, NoLater
    <2> QED
      BY <1>0, <2>1, <2>2 DEF MeasuredInv, IsSequence, Good, NoLater
  <1>7. CASE Judge
    <2>1. PICK outcome \in {"same", "different", "red"} :
            /\ ran' = [ran EXCEPT ![Len(ran)].outcome = outcome]
            /\ pc = "judge" /\ pc' \in {"failed", "recommend", "measure"}
            /\ outcome # "same" => pc' = "failed"
            /\ UNCHANGED <<fingerprint, sources, recommended>>
      BY <1>7 DEF Judge, Session
    <2> DEFINE last == [ran[Len(ran)] EXCEPT !.outcome = outcome]
    <2>2. ran' = [ran EXCEPT ![Len(ran)] = last]
      BY <2>1
    <2>3. /\ IsSequence(ran) /\ ran # << >> /\ recommended = 0
          /\ ran[Len(ran)].sources = fingerprint
      BY <1>0, <2>1 DEF MeasuredInv
    <2> HIDE DEF last
    <2>4. Amended(ran, last, ran')
      BY <2>2, <2>3, OneChanged
    <2>5. DOMAIN ran[Len(ran)] = {"kind", "workers", "sources", "outcome"}
      BY <1>0, <2>4 DEF MeasuredInv, Amended
    <2>6. /\ DOMAIN last = {"kind", "workers", "sources", "outcome"}
          /\ last.sources = fingerprint /\ last.outcome = outcome
      BY <2>3, <2>5 DEF last
    <2>7. \A i \in DOMAIN ran' : DOMAIN ran'[i] = {"kind", "workers", "sources", "outcome"}
      BY <1>0, <2>4, <2>6 DEF MeasuredInv, Amended
    <2>8. outcome = "same" => \A i \in DOMAIN ran' : Good(i)'
      BY <1>0, <2>1, <2>4, <2>6 DEF MeasuredInv, Good, Amended
    <2> QED
      BY <2>1, <2>3, <2>4, <2>7, <2>8 DEF MeasuredInv, Amended
  <1>8. CASE Recommend
    BY <1>0, <1>8 DEF Recommend, Session, MeasuredInv, IsSequence, Good
  <1>9. CASE CompareConfig \/ ReadConfig \/ KeepConfig
    BY <1>0, <1>9
    DEF CompareConfig, ReadConfig, KeepConfig, Session, sessionVars, MeasuredInv, IsSequence, Good
  <1>10. CASE PrepareConfig \/ LastLook \/ RenameConfig
    BY <1>0, <1>10
    DEF PrepareConfig, LastLook, RenameConfig, Session, MeasuredInv, IsSequence, Good
  <1>11. CASE WriteFails
    BY <1>0, <1>11 DEF WriteFails, Session, MeasuredInv, IsSequence, Good
  <1>12. CASE Edit
    <2>1. UNCHANGED <<pc, ran, fingerprint, recommended>>
      BY <1>12 DEF Edit, sessionVars
    <2>2. CASE sources' = sources
      BY <1>1, <2>1, <2>2
    <2>3. CASE \E contents \in Contents :
                 sources' = [contents |-> contents, identity |-> sources.identity + 1]
      <3>1. \A one \in [contents : Contents, identity : Nat] :
              NoLater(one, sources) => NoLater(one, sources')
        BY <1>0, <2>3 DEF SourcesInv, NoLater
      <3>2. pc \in {"running", "check", "judge"} => NoLater(ran[Len(ran)].sources, sources')
        BY <1>0, <3>1 DEF MeasuredInv
      <3> QED
        BY <1>0, <2>1, <3>2 DEF MeasuredInv, IsSequence, Good, NoLater
    <2> QED
      BY <1>12, <2>2, <2>3 DEF Edit, EditConfig, EditSources
  <1>13. CASE TreeStep \/ UNCHANGED vars
    BY <1>1, <1>13 DEF TreeStep, vars, fileVars, sessionVars
  <1> QED
    BY <1>1, <1>2, <1>3, <1>4, <1>5, <1>6, <1>7, <1>8, <1>9, <1>10, <1>11, <1>12, <1>13 DEF Next

-----------------------------------------------------------------------------
(***************************************************************************)
(* Sorting by counting: x has the place that the number of elements before *)
(* it says.  An order is the set R of its pairs.                           *)
(***************************************************************************)
Linear(S, R) ==
  /\ IsFiniteSet(S)
  /\ \A x \in S : <<x, x>> \notin R
  /\ \A x, y, z \in S : <<x, y>> \in R /\ <<y, z>> \in R => <<x, z>> \in R
  /\ \A x, y \in S : x = y \/ <<x, y>> \in R \/ <<y, x>> \in R

Before(S, R, x) == {y \in S : <<y, x>> \in R}
Rank(S, R, x) == Cardinality(Before(S, R, x))

\* The sequence f has each element of S once, in the order R.
Lists(f, S, R) ==
  /\ f \in [1 .. Cardinality(S) -> S]
  /\ \A x \in S : \E i \in 1 .. Cardinality(S) : f[i] = x
  /\ \A i, j \in 1 .. Cardinality(S) : i < j => <<f[i], f[j]>> \in R

LEMMA OneLess ==
  ASSUME NEW S, IsFiniteSet(S), NEW x \in S
  PROVE  /\ IsFiniteSet(S \ {x})
         /\ Cardinality(S) \in Nat \ {0}
         /\ Cardinality(S \ {x}) = Cardinality(S) - 1
  <1>1. IsFiniteSet(S \ {x}) /\ (S \ {x}) \union {x} = S
    BY FS_RemoveElement
  <1>2. Cardinality(S) = Cardinality(S \ {x}) + 1
    BY <1>1, FS_AddElement
  <1>3. Cardinality(S \ {x}) \in Nat
    BY <1>1, FS_CardinalityType
  <1> QED
    BY <1>1, <1>2, <1>3

\* There are n numbers up to n.
LEMMA UpTo ==
  ASSUME NEW n \in Nat
  PROVE  IsFiniteSet(1 .. n) /\ Cardinality(1 .. n) = n
  <1>1. 1 \in Int /\ n \in Int /\ (IF 1 > n THEN 0 ELSE n - 1 + 1) = n
    OBVIOUS
  <1> QED
    BY <1>1, FS_Interval

\* The set of what n places hold, all different, has n elements.
LEMMA AllDifferent ==
  ASSUME NEW n \in Nat, NEW f, NEW S, \A x : x \in S <=> \E i \in 1 .. n : x = f[i],
         \A i, j \in 1 .. n : i # j => f[i] # f[j]
  PROVE  IsFiniteSet(S) /\ Cardinality(S) = n
  <1> PICK g : g = [i \in 1 .. n |-> f[i]]
    OBVIOUS
  <1>1. g \in Surjection(1 .. n, S) /\ g \in Injection(1 .. n, S)
    BY DEF Surjection, Injection, IsInjective
  <1> QED
    BY <1>1, UpTo, FS_Surjection

LEMMA RanksGrow ==
  ASSUME NEW S, NEW R, Linear(S, R), NEW x \in S, NEW y \in S, <<x, y>> \in R
  PROVE  Rank(S, R, x) < Rank(S, R, y)
  <1> PICK X, Y : X = Before(S, R, x) /\ Y = Before(S, R, y)
    OBVIOUS
  <1>1. IsFiniteSet(Y)
    BY FS_Subset DEF Before, Linear
  <1>2. X \in SUBSET Y /\ x \in Y /\ x \notin X
    BY DEF Before, Linear
  <1>3. /\ Cardinality(X) <= Cardinality(Y) /\ Cardinality(X) # Cardinality(Y)
        /\ IsFiniteSet(X)
    BY <1>1, <1>2, FS_Subset
  <1>4. Cardinality(X) \in Nat /\ Cardinality(Y) \in Nat
    BY <1>1, <1>3, FS_CardinalityType
  <1> QED
    BY <1>3, <1>4 DEF Rank

LEMMA RanksAreBelow ==
  ASSUME NEW S, NEW R, Linear(S, R), NEW x \in S
  PROVE  Rank(S, R, x) \in 0 .. Cardinality(S) - 1
  <1> PICK X : X = Before(S, R, x)
    OBVIOUS
  <1>1. X \in SUBSET S /\ x \notin X
    BY DEF Before, Linear
  <1>2. IsFiniteSet(X) /\ Cardinality(X) <= Cardinality(S) /\ Cardinality(X) # Cardinality(S)
    BY <1>1, FS_Subset DEF Linear
  <1>3. Cardinality(X) \in Nat /\ Cardinality(S) \in Nat
    BY <1>2, FS_CardinalityType DEF Linear
  <1> QED
    BY <1>2, <1>3 DEF Rank

LEMMA RanksDiffer ==
  ASSUME NEW S, NEW R, Linear(S, R), NEW x \in S, NEW y \in S, Rank(S, R, x) = Rank(S, R, y)
  PROVE  x = y
  <1>1. Rank(S, R, x) \in Int
    BY RanksAreBelow
  <1>2. <<x, y>> \notin R /\ <<y, x>> \notin R
    BY <1>1, RanksGrow
  <1> QED
    BY <1>2 DEF Linear

LEMMA EveryRankIsTaken ==
  ASSUME NEW S, NEW R, Linear(S, R), NEW i \in 1 .. Cardinality(S)
  PROVE  \E x \in S : Rank(S, R, x) = i - 1
  <1> PICK n, T, f : n = Cardinality(S) /\ T = 0 .. n - 1 /\ f = [x \in S |-> Rank(S, R, x)]
    OBVIOUS
  <1>1. n \in Nat
    BY FS_CardinalityType DEF Linear
  <1>2. IsFiniteSet(T) /\ Cardinality(T) = n
    BY <1>1, FS_Interval
  <1>3. f \in [S -> T]
    BY RanksAreBelow
  <1>4. IsInjective(f)
    BY RanksDiffer DEF IsInjective
  <1>5. f \in Surjection(S, T)
    BY <1>2, <1>3, <1>4, FS_Injection DEF Injection, Linear
  <1>6. i - 1 \in T
    BY <1>1
  <1>7. PICK x \in S : f[x] = i - 1
    BY <1>5, <1>6 DEF Surjection
  <1> QED
    BY <1>7

LEMMA CountingSorts ==
  ASSUME NEW S, NEW R, Linear(S, R), NEW f,
         f = [i \in 1 .. Cardinality(S) |-> CHOOSE x \in S : Rank(S, R, x) = i - 1]
  PROVE  Lists(f, S, R)
  <1> PICK n : n = Cardinality(S)
    OBVIOUS
  <1>1. n \in Nat
    BY FS_CardinalityType DEF Linear
  <1>2. \A i \in 1 .. n : f[i] \in S /\ Rank(S, R, f[i]) = i - 1
    BY EveryRankIsTaken
  <1>3. \A x \in S : \E i \in 1 .. n : f[i] = x
    <2> TAKE x \in S
    <2> PICK i : i = Rank(S, R, x) + 1
      OBVIOUS
    <2>1. Rank(S, R, x) \in 0 .. n - 1
      BY RanksAreBelow
    <2>2. i \in 1 .. n /\ Rank(S, R, x) = i - 1
      BY <1>1, <2>1
    <2>3. f[i] \in S /\ Rank(S, R, f[i]) = Rank(S, R, x)
      BY <1>2, <2>2
    <2>4. f[i] = x
      BY <2>3, RanksDiffer
    <2> QED
      BY <2>2, <2>4
  <1>4. ASSUME NEW i \in 1 .. n, NEW j \in 1 .. n, i < j
        PROVE  <<f[i], f[j]>> \in R
    <2> PICK x, y : x = f[i] /\ y = f[j]
      OBVIOUS
    <2>1. x \in S /\ y \in S /\ Rank(S, R, x) = i - 1 /\ Rank(S, R, y) = j - 1
      BY <1>2
    <2>2. x # y /\ <<y, x>> \notin R
      BY <1>1, <1>4, <2>1, RanksGrow
    <2> QED
      BY <2>1, <2>2 DEF Linear
  <1> QED
    BY <1>2, <1>3, <1>4 DEF Lists

\* Numbers in their order.
LEMMA AscendingLists ==
  ASSUME NEW S \in SUBSET Int, IsFiniteSet(S)
  PROVE  /\ Cardinality(S) \in Nat
         /\ Ascending(S) \in [1 .. Cardinality(S) -> S]
         /\ \A x \in S : \E i \in 1 .. Cardinality(S) : Ascending(S)[i] = x
         /\ \A i, j \in 1 .. Cardinality(S) : i < j => Ascending(S)[i] < Ascending(S)[j]
  <1> DEFINE R == {p \in S \X S : p[1] < p[2]}
  <1>1. \A x, y \in S : <<x, y>> \in R <=> x < y
    OBVIOUS
  <1>2. Linear(S, R)
    BY <1>1 DEF Linear
  <1>3. \A x \in S : {y \in S : y < x} = Before(S, R, x)
    BY <1>1 DEF Before
  <1>4. Ascending(S) = [i \in 1 .. Cardinality(S) |->
                          CHOOSE x \in S : Cardinality({y \in S : y < x}) = i - 1]
    BY DEF Ascending, Sorted
  <1>5. Ascending(S) = [i \in 1 .. Cardinality(S) |-> CHOOSE x \in S : Rank(S, R, x) = i - 1]
    <2> HIDE DEF R
    <2> QED
      BY <1>3, <1>4 DEF Rank
  <1>6. Lists(Ascending(S), S, R)
    BY <1>2, <1>5, CountingSorts
  <1> QED
    BY <1>1, <1>6, FS_CardinalityType DEF Lists

\* A sequence of growing numbers is the only one with these numbers.
LEMMA GrowingIsAscending ==
  ASSUME NEW n \in Nat, NEW f \in [1 .. n -> Int], NEW S,
         \A x : x \in S <=> \E i \in 1 .. n : x = f[i],
         \A i, j \in 1 .. n : i < j => f[i] < f[j]
  PROVE  Ascending(S) = f
  <1>1. \A i, j \in 1 .. n : i # j => f[i] # f[j]
    <2> TAKE i, j \in 1 .. n
    <2>1. i < j \/ j < i \/ i = j
      OBVIOUS
    <2> QED
      BY <2>1
  <1>2. IsFiniteSet(S) /\ Cardinality(S) = n /\ S \in SUBSET Int
    BY <1>1, AllDifferent
  <1> DEFINE R == {p \in S \X S : p[1] < p[2]}
  <1>3. \A x, y \in S : <<x, y>> \in R <=> x < y
    OBVIOUS
  <1>4. Linear(S, R)
    BY <1>2, <1>3 DEF Linear
  <1>5. \A x \in S : {y \in S : y < x} = Before(S, R, x)
    BY <1>3 DEF Before
  <1>6. Ascending(S) = [i \in 1 .. n |-> CHOOSE x \in S : Rank(S, R, x) = i - 1]
    <2>1. Ascending(S) = [i \in 1 .. Cardinality(S) |->
                            CHOOSE x \in S : Cardinality({y \in S : y < x}) = i - 1]
      BY DEF Ascending, Sorted
    <2> HIDE DEF R
    <2>2. Ascending(S) = [i \in 1 .. Cardinality(S) |-> CHOOSE x \in S : Rank(S, R, x) = i - 1]
      BY <1>5, <2>1 DEF Rank
    <2> QED
      BY <1>2, <2>2
  <1>7. ASSUME NEW i \in 1 .. n
        PROVE  f[i] \in S /\ Rank(S, R, f[i]) = i - 1
    <2> PICK T, k : T = Before(S, R, f[i]) /\ k = i - 1
      OBVIOUS
    <2>1. k \in Nat /\ \A j \in 1 .. k : j \in 1 .. n /\ j < i
      OBVIOUS
    <2>2. \A j \in 1 .. n : f[j] < f[i] => j \in 1 .. k
      <3> SUFFICES ASSUME NEW j \in 1 .. n, f[j] < f[i] PROVE j < i
        OBVIOUS
      <3>1. ~ (i < j) /\ i # j
        OBVIOUS
      <3> QED
        BY <3>1
    <2>3. \A x : x \in T <=> \E j \in 1 .. k : x = f[j]
      <3>1. \A x : x \in T <=> x \in S /\ x < f[i]
        BY <1>3 DEF Before
      <3> HIDE DEF R
      <3> QED
        BY <2>1, <2>2, <3>1
    <2>4. Cardinality(T) = k
      <3>1. \A j, l \in 1 .. k : j # l => f[j] # f[l]
        BY <1>1, <2>1
      <3>2. ASSUME NEW m \in Nat, NEW U, \A x : x \in U <=> \E j \in 1 .. m : x = f[j],
                   \A j, l \in 1 .. m : j # l => f[j] # f[l]
            PROVE  Cardinality(U) = m
        BY <3>2, AllDifferent
      <3>3. k \in Nat
        BY <2>1
      <3> HIDE DEF R
      <3> QED
        BY <2>3, <3>1, <3>2, <3>3
    <2> QED
      BY <2>4 DEF Rank
  <1>8. \A i \in 1 .. n : Ascending(S)[i] = f[i]
    <2> HIDE DEF R
    <2> TAKE i \in 1 .. n
    <2>1. \A x \in S : Rank(S, R, x) = i - 1 => x = f[i]
      BY <1>4, <1>7, RanksDiffer
    <2> QED
      BY <1>6, <1>7, <2>1
  <1>9. Ascending(S) = [i \in 1 .. n |-> Ascending(S)[i]]
    BY <1>6
  <1> QED
    BY <1>8, <1>9

-----------------------------------------------------------------------------
(***************************************************************************)
(* Folds.  They are defined by recursion on the subsets of a finite set.   *)
(***************************************************************************)
\* If g has a value outside V at s, it has one at s without some element.
PassesUp(g, s, V) == g[s] \in V \/ \E x \in s : g[s \ {x}] \notin V

\* Then it has none.
LEMMA FoldTyped ==
  ASSUME NEW S, IsFiniteSet(S), NEW V, NEW g,
         \A s \in SUBSET S : PassesUp(g, s, V)
  PROVE  g[S] \in V
  <1> DEFINE Bad == {Cardinality(s) : s \in {r \in SUBSET S : g[r] \notin V}}
  <1> SUFFICES ASSUME g[S] \notin V PROVE FALSE
    OBVIOUS
  <1>1. \A s \in SUBSET S : IsFiniteSet(s) /\ Cardinality(s) \in Nat
    BY FS_Subset, FS_CardinalityType
  <1>2. Bad # {} /\ Bad \in SUBSET Nat
    BY <1>1
  <1>3. PICK m \in Bad : \A j \in Bad : m <= j
    BY <1>2, LeastNumber
  <1>4. PICK s \in SUBSET S : g[s] \notin V /\ m = Cardinality(s)
    OBVIOUS
  <1>5. PICK x \in s : g[s \ {x}] \notin V
    BY <1>4 DEF PassesUp
  <1>6. Cardinality(s \ {x}) = m - 1 /\ m \in Nat
    BY <1>1, <1>4, OneLess
  <1>7. Cardinality(s \ {x}) \in Bad
    BY <1>5
  <1> HIDE DEF Bad
  <1> QED
    BY <1>3, <1>6, <1>7

\* The value of g at s is made of an element of s and its value at the others.
FoldsAt(g, s, base, pick, H) ==
  g[s] = IF s = {} THEN base ELSE H[<<pick[s], g[s \ {pick[s]}]>>]

\* There is such a function for all subsets.
LEMMA FoldsExist ==
  ASSUME NEW S, IsFiniteSet(S), NEW base, NEW pick, NEW H,
         \A s \in SUBSET S : s # {} => pick[s] \in s
  PROVE  \E g : \A s \in SUBSET S : FoldsAt(g, s, base, pick, H)
  <1> DEFINE Step(g, s) == g[s] = IF s = {} THEN base ELSE H[<<pick[s], g[s \ {pick[s]}]>>]
             Found(n) == \E g : \A s \in SUBSET S : Cardinality(s) <= n => Step(g, s)
             Bad == {n \in Nat : ~Found(n)}
  <1>0. \A s \in SUBSET S : IsFiniteSet(s) /\ Cardinality(s) \in Nat
    BY FS_Subset, FS_CardinalityType
  <1>1. Found(0)
    <2> DEFINE g == [s \in SUBSET S |-> base]
    <2>1. \A s \in SUBSET S : Cardinality(s) <= 0 => s = {}
      BY <1>0, FS_EmptySet
    <2>2. \A s \in SUBSET S : Cardinality(s) <= 0 => Step(g, s)
      BY <2>1
    <2> HIDE DEF g, Step
    <2> QED
      BY <2>2
  <1>2. ASSUME NEW n \in Nat, Found(n) PROVE Found(n + 1)
    <2> PICK g : \A s \in SUBSET S : Cardinality(s) <= n => Step(g, s)
      BY <1>2
    <2> DEFINE h == [s \in SUBSET S |-> IF Cardinality(s) <= n THEN g[s]
                                       ELSE H[<<pick[s], g[s \ {pick[s]}]>>]]
    <2>1. ASSUME NEW s \in SUBSET S, Cardinality(s) <= n + 1
          PROVE  Step(h, s)
      <3>1. CASE s = {}
        <4>1. Cardinality(s) <= n /\ h[s] = g[s]
          BY <3>1, FS_EmptySet
        <4> QED
          BY <3>1, <4>1
      <3>2. CASE s # {}
        <4> PICK x : x = pick[s]
          OBVIOUS
        <4>1. x \in s
          BY <3>2
        <4>2. s \ {x} \in SUBSET S /\ Cardinality(s \ {x}) <= n
          BY <1>0, <2>1, <4>1, OneLess
        <4>3. h[s \ {x}] = g[s \ {x}]
          BY <4>2
        <4>4. h[s] = H[<<x, g[s \ {x}]>>]
          <5>1. CASE Cardinality(s) <= n
            <6>1. h[s] = g[s] /\ Step(g, s)
              BY <5>1
            <6> QED
              BY <3>2, <6>1
          <5>2. CASE ~(Cardinality(s) <= n)
            BY <5>2
          <5> QED
            BY <5>1, <5>2
        <4> QED
          BY <3>2, <4>3, <4>4
      <3> QED
        BY <3>1, <3>2
    <2> HIDE DEF h, Step
    <2> QED
      BY <2>1
  <1>3. Bad = {}
    <2> SUFFICES ASSUME Bad # {} PROVE FALSE
      OBVIOUS
    <2>1. PICK m \in Bad : \A j \in Bad : m <= j
      BY LeastNumber
    <2>2. m # 0 /\ m \in Nat
      BY <1>1
    <2>3. m - 1 \in Nat /\ m - 1 \notin Bad /\ (m - 1) + 1 = m
      <3> HIDE DEF Bad
      <3> QED
        BY <2>1, <2>2
    <2>4. Found(m - 1)
      BY <2>3
    <2> HIDE DEF Found
    <2> QED
      BY <1>2, <2>3, <2>4
  <1>4. Cardinality(S) \in Nat /\ \A s \in SUBSET S : Cardinality(s) <= Cardinality(S)
    BY FS_CardinalityType, FS_Subset
  <1>5. Found(Cardinality(S))
    <2> HIDE DEF Found
    <2> QED
      BY <1>3, <1>4
  <1> QED
    BY <1>4, <1>5 DEF FoldsAt

-----------------------------------------------------------------------------
(***************************************************************************)
(* Least and largest numbers.                                              *)
(***************************************************************************)
LEMMA MinOf ==
  ASSUME NEW S \in SUBSET Int, IsFiniteSet(S), S # {}
  PROVE  Min(S) \in S /\ \A x \in S : Min(S) <= x
  <1> PICK n, f : n = Cardinality(S) /\ f = Ascending(S)
    OBVIOUS
  <1>1. /\ n \in Nat /\ f \in [1 .. n -> S]
        /\ \A x \in S : \E i \in 1 .. n : f[i] = x
        /\ \A i, j \in 1 .. n : i < j => f[i] < f[j]
    BY AscendingLists
  <1>2. 1 \in 1 .. n
    <2> PICK x \in S : TRUE
      OBVIOUS
    <2> PICK i \in 1 .. n : f[i] = x
      BY <1>1
    <2> QED
      BY <1>1
  <1>3. \A x \in S : f[1] <= x
    <2> TAKE x \in S
    <2> PICK i \in 1 .. n : f[i] = x
      BY <1>1
    <2>1. i = 1 \/ 1 < i
      BY <1>1
    <2>2. f[1] \in Int /\ f[i] \in Int
      BY <1>1, <1>2
    <2> QED
      BY <1>1, <1>2, <2>1, <2>2
  <1>4. f[1] \in S
    BY <1>1, <1>2
  <1> QED
    BY <1>3, <1>4 DEF Min

LEMMA MaxOf ==
  ASSUME NEW S \in SUBSET Int, IsFiniteSet(S), S # {}
  PROVE  Max(S) \in S /\ \A x \in S : x <= Max(S)
  <1> PICK n, f : n = Cardinality(S) /\ f = Ascending(S)
    OBVIOUS
  <1>1. /\ n \in Nat /\ f \in [1 .. n -> S]
        /\ \A x \in S : \E i \in 1 .. n : f[i] = x
        /\ \A i, j \in 1 .. n : i < j => f[i] < f[j]
    BY AscendingLists
  <1>2. n \in 1 .. n
    <2> PICK x \in S : TRUE
      OBVIOUS
    <2> PICK i \in 1 .. n : f[i] = x
      BY <1>1
    <2> QED
      BY <1>1
  <1>3. \A x \in S : x <= f[n]
    <2> TAKE x \in S
    <2> PICK i \in 1 .. n : f[i] = x
      BY <1>1
    <2>1. i = n \/ i < n
      BY <1>1
    <2>2. f[n] \in Int /\ f[i] \in Int
      BY <1>1, <1>2
    <2> QED
      BY <1>1, <1>2, <2>1, <2>2
  <1>4. f[n] \in S
    BY <1>1, <1>2
  <1>5. \E m \in S : \A x \in S : m >= x
    BY <1>3, <1>4
  <1> QED
    BY <1>5 DEF Max

LEMMA OfTwo ==
  ASSUME NEW a \in Nat, NEW b \in Nat
  PROVE  /\ Min({a, b}) = (IF a <= b THEN a ELSE b) /\ Min({a, b}) \in Nat
         /\ Max({a, b}) = (IF a <= b THEN b ELSE a) /\ Max({a, b}) \in Nat
  BY DEF Min, Max

LEMMA LeastOfThree ==
  ASSUME NEW a \in Nat, NEW b \in Nat, NEW c \in Nat
  PROVE  /\ Min({a, b, c}) \in {a, b, c}
         /\ Min({a, b, c}) <= a /\ Min({a, b, c}) <= b /\ Min({a, b, c}) <= c
  <1>1. \E x \in {a, b, c} : x <= a /\ x <= b /\ x <= c
    <2>1. CASE a <= b /\ a <= c
      BY <2>1
    <2>2. CASE b <= a /\ b <= c
      BY <2>2
    <2>3. CASE c <= a /\ c <= b
      BY <2>3
    <2> QED
      BY <2>1, <2>2, <2>3
  <1>2. \A x \in {a, b, c} : (\A y \in {a, b, c} : x <= y) <=> x <= a /\ x <= b /\ x <= c
    OBVIOUS
  <1> QED
    BY <1>1, <1>2 DEF Min

-----------------------------------------------------------------------------
(***************************************************************************)
(* The execution units, and what the cost model makes of them.             *)
(***************************************************************************)
LEMMA CostsAreNumbers ==
  ASSUME NEW durations \in [Tests -> Nat], NEW S \in SUBSET Tests, IsFiniteSet(S)
  PROVE  Sum(S, LAMBDA t : Estimate(t, durations)) \in Nat
  <1> DEFINE First(s) == CHOOSE x \in s : TRUE
             Equation(g) == g = [s \in SUBSET S |->
                                   IF s = {} THEN 0
                                   ELSE Estimate(First(s), durations) + g[s \ {First(s)}]]
  <1>1. \A t \in Tests : Estimate(t, durations) \in Nat
    BY DEF Estimate
  <1>2. \E g : Equation(g)
    <2>0. PICK pick, H :
            /\ pick = [s \in SUBSET S |-> First(s)]
            /\ H = [p \in S \X Nat |-> Estimate(p[1], durations) + p[2]]
      OBVIOUS
    <2>1. \A s \in SUBSET S : s # {} => pick[s] \in s /\ pick[s] = First(s)
      BY <2>0
    <2>2. \A x \in S, v \in Nat : H[<<x, v>>] = Estimate(x, durations) + v /\ H[<<x, v>>] \in Nat
      <3> TAKE x \in S, v \in Nat
      <3>1. H[<<x, v>>] = Estimate(x, durations) + v
        BY <2>0
      <3> PICK e : e = Estimate(x, durations)
        OBVIOUS
      <3>2. e \in Nat
        BY <1>1
      <3> QED
        BY <3>1, <3>2
    <2> HIDE DEF First
    <2>6. \A s \in SUBSET S : s # {} => pick[s] \in s
      BY <2>1
    <2>7. PICK g : \A s \in SUBSET S : FoldsAt(g, s, 0, pick, H)
      BY <2>6, FoldsExist
    <2>8. \A s \in SUBSET S : IF s = {} THEN g[s] = 0 ELSE g[s] = H[<<pick[s], g[s \ {pick[s]}]>>]
      BY <2>7 DEF FoldsAt
    <2>3. \A s \in SUBSET S : g[s] \in Nat
      <3> TAKE s \in SUBSET S
      <3>1. \A r \in SUBSET s : PassesUp(g, r, Nat)
        <4> TAKE r \in SUBSET s
        <4>1. r \in SUBSET S
          OBVIOUS
        <4>2. CASE r = {}
          <5>1. g[r] = 0
            BY <2>8, <4>1, <4>2
          <5> QED
            BY <5>1 DEF PassesUp
        <4>3. CASE r # {}
          <5>1. g[r] = H[<<pick[r], g[r \ {pick[r]}]>>] /\ pick[r] \in r
            BY <2>1, <2>8, <4>1, <4>3
          <5> QED
            BY <2>2, <4>1, <5>1 DEF PassesUp
        <4> QED
          BY <4>2, <4>3 DEF PassesUp
      <3>2. IsFiniteSet(s)
        BY FS_Subset
      <3> QED
        BY <3>1, <3>2, FoldTyped
    <2> PICK h : h = [s \in SUBSET S |-> g[s]]
      OBVIOUS
    <2>4. \A s \in SUBSET S :
            h[s] = IF s = {} THEN 0 ELSE Estimate(First(s), durations) + h[s \ {First(s)}]
      <3> TAKE s \in SUBSET S
      <3>1. CASE s = {}
        BY <2>8, <3>1
      <3>2. CASE s # {}
        <4>1. pick[s] \in S /\ g[s \ {pick[s]}] \in Nat /\ pick[s] = First(s)
          BY <2>1, <2>3, <3>2
        <4>2. g[s] = H[<<pick[s], g[s \ {pick[s]}]>>]
          BY <2>8, <3>2
        <4>3. g[s] = Estimate(First(s), durations) + g[s \ {First(s)}]
          BY <2>2, <4>1, <4>2
        <4> QED
          BY <3>2, <4>3
      <3> QED
        BY <3>1, <3>2
    <2>5. Equation(h)
      BY <2>4
    <2> QED
      BY <2>5
  <1> PICK cost : cost = CHOOSE g : Equation(g)
    OBVIOUS
  <1>3. Equation(cost)
    <2> HIDE DEF Equation
    <2> QED
      BY <1>2
  <1>4. \A s \in SUBSET S : PassesUp(cost, s, Nat)
    <2> TAKE s \in SUBSET S
    <2>1. CASE s = {}
      <3>1. cost[s] = 0
        <4> HIDE DEF First
        <4> QED
          BY <1>3, <2>1
      <3> QED
        BY <3>1 DEF PassesUp
    <2>2. CASE s # {}
      <3> PICK x \in s : x = First(s)
        BY <2>2
      <3>1. cost[s] = Estimate(x, durations) + cost[s \ {x}]
        <4> HIDE DEF First
        <4> QED
          BY <1>3, <2>2
      <3> PICK e, c, d : e = Estimate(x, durations) /\ c = cost[s \ {x}] /\ d = cost[s]
        OBVIOUS
      <3>2. e \in Nat /\ d = e + c
        BY <1>1, <3>1
      <3>3. c \in Nat => d \in Nat
        BY <3>2
      <3> QED
        BY <3>3 DEF PassesUp
    <2> QED
      BY <2>1, <2>2
  <1>5. cost[S] \in Nat
    BY <1>4, FoldTyped
  <1> QED
    BY <1>5 DEF Sum, MapThenSumSet, MapThenFoldSet

\* What f has at the places P: finitely many, if the places are.
Held(f, P) == {f[i] : i \in P}

LEMMA HeldAreFinite ==
  ASSUME NEW P, IsFiniteSet(P), NEW f
  PROVE  IsFiniteSet(Held(f, P))
  <1> PICK g, S : g = [i \in P |-> f[i]] /\ S = Held(f, P)
    OBVIOUS
  <1>1. g \in Surjection(P, S)
    BY DEF Surjection, Held
  <1> QED
    BY <1>1, FS_Surjection

\* Finitely many units, each with a cost, told apart by their keys.
LEMMA UnitsAre ==
  ASSUME NEW durations \in [Tests -> Nat], NEW shardable, NEW units,
         units = ExecutionUnits(Tests, durations, shardable)
  PROVE  /\ IsFiniteSet(units)
         /\ \A u \in units : /\ u.cost \in Nat
                             /\ u.key = <<u.key[1], u.key[2]>>
                             /\ u.key[1] \in Nat /\ u.key[2] \in Nat
         /\ \A u, v \in units : u.key = v.key => u = v
  <1> DEFINE In(key) == {t \in Tests : UnitKey(t, shardable) = key}
             unitOf == [t \in Tests |->
                [key |-> UnitKey(t, shardable), tests |-> In(UnitKey(t, shardable)),
                 cost |-> Sum(In(UnitKey(t, shardable)), LAMBDA u : Estimate(u, durations))]]
  <1>1. units = {unitOf[t] : t \in Tests}
    BY DEF ExecutionUnits
  <1>2. \A t \in Tests : unitOf[t].cost \in Nat
    <2> TAKE t \in Tests
    <2> PICK S : S = In(UnitKey(t, shardable))
      OBVIOUS
    <2>1. S \in SUBSET Tests /\ IsFiniteSet(S)
      BY TimesAssumption, FS_Subset
    <2>2. Sum(S, LAMBDA u : Estimate(u, durations)) \in Nat
      BY <2>1, CostsAreNumbers
    <2> QED
      BY <2>2
  <1>3. \A t \in Tests : LET key == UnitKey(t, shardable) IN
          key = <<key[1], key[2]>> /\ key[1] \in Nat /\ key[2] \in Nat
    BY SchedulingAssumption DEF UnitKey, Kind, Isolated, Module, Sharded
  <1>4. \A t \in Tests : unitOf[t].key = UnitKey(t, shardable)
    OBVIOUS
  <1>5. \A t, u \in Tests : UnitKey(t, shardable) = UnitKey(u, shardable) => unitOf[t] = unitOf[u]
    OBVIOUS
  <1> HIDE DEF unitOf
  <1>6. IsFiniteSet(units)
    <2>1. units = Held(unitOf, Tests)
      BY <1>1 DEF Held
    <2> QED
      BY <2>1, TimesAssumption, HeldAreFinite
  <1> QED
    BY <1>1, <1>2, <1>3, <1>4, <1>5, <1>6

\* The units in the order in which they are placed.
LEMMA UnitsSorted ==
  ASSUME NEW durations \in [Tests -> Nat], NEW shardable, NEW units,
         units = ExecutionUnits(Tests, durations, shardable)
  PROVE  /\ Cardinality(units) \in Nat
         /\ Sorted(units, Heavier) \in [1 .. Cardinality(units) -> units]
  <1> DEFINE R == {p \in units \X units : Heavier(p[1], p[2])}
  <1>1. \A u, v \in units : <<u, v>> \in R <=> Heavier(u, v)
    OBVIOUS
  <1>2. Linear(units, R)
    <2> HIDE DEF R
    <2>1. /\ IsFiniteSet(units)
          /\ \A u \in units : /\ u.cost \in Nat
                              /\ u.key = <<u.key[1], u.key[2]>>
                              /\ u.key[1] \in Nat /\ u.key[2] \in Nat
          /\ \A u, v \in units : u.key = v.key => u = v
      BY UnitsAre
    <2>2. \A u \in units : ~Heavier(u, u)
      BY <2>1 DEF Heavier, KeyBefore
    <2>3. \A u, v, w \in units : Heavier(u, v) /\ Heavier(v, w) => Heavier(u, w)
      BY <2>1 DEF Heavier, KeyBefore
    <2>4. \A u, v \in units : u = v \/ Heavier(u, v) \/ Heavier(v, u)
      <3> TAKE u, v \in units
      <3>1. u.key # v.key => u.key[1] # v.key[1] \/ u.key[2] # v.key[2]
        BY <2>1
      <3> QED
        BY <2>1, <3>1 DEF Heavier, KeyBefore
    <2> QED
      BY <1>1, <2>1, <2>2, <2>3, <2>4 DEF Linear
  <1>3. \A u \in units : {v \in units : Heavier(v, u)} = Before(units, R, u)
    BY <1>1 DEF Before
  <1>4. Sorted(units, Heavier) =
          [i \in 1 .. Cardinality(units) |->
             CHOOSE u \in units : Cardinality({v \in units : Heavier(v, u)}) = i - 1]
    BY DEF Sorted
  <1>5. Sorted(units, Heavier) =
          [i \in 1 .. Cardinality(units) |-> CHOOSE u \in units : Rank(units, R, u) = i - 1]
    <2> HIDE DEF R
    <2> QED
      BY <1>3, <1>4 DEF Rank
  <1>6. Lists(Sorted(units, Heavier), units, R)
    <2> HIDE DEF R
    <2> QED
      BY <1>2, <1>5, CountingSorts
  <1> QED
    BY <1>2, <1>6, FS_CardinalityType DEF Lists, Linear

Loads(workers) == [1 .. workers -> [cost : Nat, units : Nat]]

LEMMA PlaceIsTyped ==
  ASSUME NEW workers, NEW loads \in Loads(workers), NEW unit, unit.cost \in Nat
  PROVE  Place(loads, unit) \in Loads(workers)
  <1> DEFINE least == CHOOSE i \in DOMAIN loads :
                        \A j \in DOMAIN loads :
                          \/ loads[i].cost < loads[j].cost
                          \/ /\ loads[i].cost = loads[j].cost
                             /\ \/ loads[i].units < loads[j].units
                                \/ loads[i].units = loads[j].units /\ i <= j
  <1> PICK k : k = least
    OBVIOUS
  <1>1. Place(loads, unit) =
          [loads EXCEPT ![k] = [cost |-> @.cost + unit.cost, units |-> @.units + 1]]
    BY DEF Place
  <1> HIDE DEF least
  <1> PICK load : load = [cost |-> loads[k].cost + unit.cost, units |-> loads[k].units + 1]
    OBVIOUS
  <1>2. Place(loads, unit) = [loads EXCEPT ![k] = load]
    BY <1>1
  <1>3. k \in 1 .. workers => load \in [cost : Nat, units : Nat]
    BY DEF Loads
  <1>4. CASE k \in 1 .. workers
    BY <1>2, <1>3, <1>4 DEF Loads
  <1>5. CASE k \notin 1 .. workers
    <2>1. [loads EXCEPT ![k] = load] = loads
      BY <1>5 DEF Loads
    <2> QED
      BY <1>2, <2>1
  <1> QED
    BY <1>4, <1>5

LEMMA BusiestIsNumber ==
  ASSUME NEW workers \in Nat \ {0}, NEW loads \in Loads(workers)
  PROVE  Max({loads[i].cost : i \in 1 .. workers}) \in Nat
  <1> PICK c : c = [i \in 1 .. workers |-> loads[i].cost]
    OBVIOUS
  <1>1. c \in [1 .. workers -> Nat]
    BY DEF Loads
  <1> PICK S : S = {c[i] : i \in 1 .. workers}
    OBVIOUS
  <1>2. S \in SUBSET Nat /\ c[1] \in S
    BY <1>1
  <1>4. IsFiniteSet(S)
    <2>1. S = Held(c, 1 .. workers)
      BY DEF Held
    <2> QED
      BY <2>1, UpTo, HeldAreFinite
  <1>5. S \in SUBSET Int /\ S # {}
    BY <1>2
  <1>6. Max(S) \in S
    BY <1>4, <1>5, MaxOf
  <1>7. {loads[i].cost : i \in 1 .. workers} = S
    OBVIOUS
  <1> QED
    BY <1>2, <1>6, <1>7

\* worker_estimates: the load of the busiest worker.
LEMMA MakespanIsNumber ==
  ASSUME NEW durations \in [Tests -> Nat], NEW shardable, NEW units,
         units = ExecutionUnits(Tests, durations, shardable), NEW workers \in Nat \ {0}
  PROVE  Makespan(units, workers) \in Nat
  <1> DEFINE V == Loads(workers)
             none == [i \in 1 .. workers |-> [cost |-> 0, units |-> 0]]
             seq == Sorted(units, Heavier)
             D == DOMAIN seq
             Equation(g) == g = [s \in SUBSET D |->
                                   IF s = {} THEN none ELSE Place(g[s \ {Max(s)}], seq[Max(s)])]
  <1>0. D \in SUBSET Int /\ IsFiniteSet(D) /\ seq \in [D -> units]
    <2>1. D = 1 .. Cardinality(units) /\ Cardinality(units) \in Nat /\ seq \in [D -> units]
      BY UnitsSorted
    <2> HIDE DEF seq
    <2> QED
      BY <2>1, UpTo
  <1>1. \A i \in D, v \in V : Place(v, seq[i]) \in V
    <2> TAKE i \in D, v \in V
    <2>1. seq[i] \in units
      BY <1>0
    <2>2. seq[i].cost \in Nat
      BY <2>1, UnitsAre
    <2> HIDE DEF seq
    <2> QED
      BY <2>2, PlaceIsTyped
  <1>2. none \in V
    BY DEF Loads
  <1> HIDE DEF V, none, seq, D
  <1>3. \A s \in SUBSET D : s # {} => Max(s) \in s
    <2> TAKE s \in SUBSET D
    <2>1. s \in SUBSET Int /\ IsFiniteSet(s)
      BY <1>0, FS_Subset
    <2> QED
      BY <2>1, MaxOf
  <1>4. \E g : Equation(g)
    <2>0. PICK pick, H :
            /\ pick = [s \in SUBSET D |-> Max(s)]
            /\ H = [p \in D \X V |-> Place(p[2], seq[p[1]])]
      OBVIOUS
    <2>1. \A s \in SUBSET D : s # {} => pick[s] \in s /\ pick[s] = Max(s)
      BY <1>3, <2>0
    <2>2. \A i \in D, v \in V : H[<<i, v>>] = Place(v, seq[i]) /\ H[<<i, v>>] \in V
      BY <1>1, <2>0
    <2>3. \A s \in SUBSET D : s # {} => pick[s] \in s
      BY <2>1
    <2>4. PICK g : \A s \in SUBSET D : FoldsAt(g, s, none, pick, H)
      BY <1>0, <2>3, FoldsExist
    <2>5. \A s \in SUBSET D :
            IF s = {} THEN g[s] = none ELSE g[s] = H[<<pick[s], g[s \ {pick[s]}]>>]
      BY <2>4 DEF FoldsAt
    <2>6. \A s \in SUBSET D : g[s] \in V
      <3> TAKE s \in SUBSET D
      <3>1. \A r \in SUBSET s : PassesUp(g, r, V)
        <4> TAKE r \in SUBSET s
        <4>1. r \in SUBSET D
          OBVIOUS
        <4>2. CASE r = {}
          <5>1. g[r] = none
            BY <2>5, <4>1, <4>2
          <5> QED
            BY <1>2, <5>1 DEF PassesUp
        <4>3. CASE r # {}
          <5>1. g[r] = H[<<pick[r], g[r \ {pick[r]}]>>] /\ pick[r] \in r
            BY <2>1, <2>5, <4>1, <4>3
          <5> QED
            BY <2>2, <4>1, <5>1 DEF PassesUp
        <4> QED
          BY <4>2, <4>3
      <3>2. IsFiniteSet(s)
        BY <1>0, FS_Subset
      <3> QED
        BY <3>1, <3>2, FoldTyped
    <2> PICK h : h = [s \in SUBSET D |-> g[s]]
      OBVIOUS
    <2>7. \A s \in SUBSET D :
            h[s] = IF s = {} THEN none ELSE Place(h[s \ {Max(s)}], seq[Max(s)])
      <3> TAKE s \in SUBSET D
      <3>1. CASE s = {}
        BY <2>5, <3>1
      <3>2. CASE s # {}
        <4>1. pick[s] \in D /\ g[s \ {pick[s]}] \in V /\ pick[s] = Max(s)
          BY <2>1, <2>6, <3>2
        <4>2. g[s] = H[<<pick[s], g[s \ {pick[s]}]>>]
          BY <2>5, <3>2
        <4>3. g[s] = Place(g[s \ {Max(s)}], seq[Max(s)])
          BY <2>2, <4>1, <4>2
        <4> QED
          BY <3>2, <4>3
      <3> QED
        BY <3>1, <3>2
    <2>8. Equation(h)
      BY <2>7
    <2> QED
      BY <2>8
  <1>a. PICK folded : folded = CHOOSE g : Equation(g)
    OBVIOUS
  <1>5. Equation(folded)
    <2> HIDE DEF Equation
    <2> QED
      BY <1>4, <1>a
  <1>6. \A s \in SUBSET D : PassesUp(folded, s, V)
    <2> TAKE s \in SUBSET D
    <2>1. CASE s = {}
      <3>1. folded[s] = none
        BY <1>5, <2>1
      <3> QED
        BY <1>2, <3>1 DEF PassesUp
    <2>2. CASE s # {}
      <3> PICK i \in s : i = Max(s)
        BY <1>3, <2>2
      <3>1. folded[s] = Place(folded[s \ {i}], seq[i])
        BY <1>5, <2>2
      <3> QED
        BY <1>1, <3>1 DEF PassesUp
    <2> QED
      BY <2>1, <2>2
  <1>7. folded[D] \in V
    BY <1>0, <1>6, FoldTyped
  <1> PICK loads : loads = folded[D]
    OBVIOUS
  <1>8. Makespan(units, workers) = Max({loads[i].cost : i \in 1 .. workers})
    <2>1. FoldLeft(Place, none, seq) = folded[D]
      BY <1>a DEF FoldLeft, MapThenFoldSet, D
    <2> QED
      BY <2>1 DEF Makespan, none, seq
  <1> QED
    BY <1>7, <1>8, BusiestIsNumber DEF V

LEMMA BestIsNearBest ==
  ASSUME NEW best \in Nat
  PROVE  NearBest(best, best)
  <1>1. Max({100 * NearBestFloor, 2 * best}) \in Nat
    <2> PICK a, b : a = 100 * NearBestFloor /\ b = 2 * best
      OBVIOUS
    <2>1. a \in Nat /\ b \in Nat
      BY DEF NearBestFloor
    <2> QED
      BY <2>1, OfTwo
  <1> QED
    BY <1>1 DEF NearBest

\* resolve_adaptive_workers recommends some number of workers.
LEMMA AdaptiveIsNumber ==
  ASSUME NEW durations \in [Tests -> Nat], NEW shardable
  PROVE  AdaptiveWorkers(Tests, durations, shardable, Capacity) \in Nat
  <1> PICK units : units = ExecutionUnits(Tests, durations, shardable)
    OBVIOUS
  <1> PICK maximum : maximum = IF Capacity < Cardinality(units)
                                 THEN Capacity ELSE Cardinality(units)
    OBVIOUS
  <1> DEFINE times == [w \in 1 .. maximum |-> TotalTime(units, w)]
             best == Min({times[w] : w \in 1 .. maximum})
             near == {w \in 1 .. maximum : NearBest(times[w], best)}
  <1>1. IsFiniteSet(units) /\ Cardinality(units) \in Nat
    BY UnitsAre, FS_CardinalityType
  <1>2. maximum \in Nat
    BY <1>1, TuningAssumption
  <1>3. CASE units # {}
    <2>1. maximum \in Nat \ {0}
      <3>1. Cardinality(units) # 0
        BY <1>1, <1>3, FS_EmptySet
      <3> QED
        BY <1>1, <1>2, <3>1, TuningAssumption
    <2>2. \A w \in 1 .. maximum : times[w] \in Nat
      <3> TAKE w \in 1 .. maximum
      <3>1. w \in Nat \ {0}
        BY <2>1
      <3> PICK span, startup : span = Makespan(units, w) /\ startup = Startup(w)
        OBVIOUS
      <3>2. span \in Nat
        BY <3>1, MakespanIsNumber
      <3>3. startup \in Nat
        <4>1. 240 \div 4 \in Nat /\ w - 1 \in Nat
          BY <3>1
        <4> PICK quarter, more : quarter = 240 \div 4 /\ more = w - 1
          OBVIOUS
        <4>2. quarter * more \in Nat
          BY <4>1
        <4>3. startup = 240 + quarter * more
          BY DEF Startup, SpawnCost
        <4> QED
          BY <4>2, <4>3
      <3>4. times[w] = span + startup
        BY DEF TotalTime
      <3> QED
        BY <3>2, <3>3, <3>4
    <2> HIDE DEF times
    <2>a. PICK T : T = {times[w] : w \in 1 .. maximum}
      OBVIOUS
    <2>3. T \in SUBSET Nat /\ times[1] \in T
      BY <2>1, <2>2, <2>a
    <2>4. IsFiniteSet(T)
      <3>1. T = Held(times, 1 .. maximum)
        BY <2>a DEF Held
      <3> QED
        BY <1>2, <3>1, UpTo, HeldAreFinite
    <2>5. best \in T /\ best \in Nat
      <3>1. T \in SUBSET Int /\ T # {}
        BY <2>3
      <3>2. best = Min(T)
        BY <2>a
      <3> QED
        BY <2>3, <2>4, <3>1, <3>2, MinOf
    <2>b. PICK w \in 1 .. maximum : times[w] = best
      <3> HIDE DEF best
      <3> QED
        BY <2>5, <2>a
    <2>6. w \in near
      BY <2>5, <2>b, BestIsNearBest
    <2> HIDE DEF near
    <2>7. near \in SUBSET (1 .. maximum)
      BY DEF near
    <2>8. IsFiniteSet(near)
      BY <2>1, <2>7, UpTo, FS_Subset
    <2>9. Min(near) \in near
      <3>1. near \in SUBSET Int /\ near # {}
        BY <2>6, <2>7
      <3> QED
        BY <2>8, <3>1, MinOf
    <2>10. Min(near) \in Nat
      <3>1. \A k \in 1 .. maximum : k \in Nat
        OBVIOUS
      <3> QED
        BY <2>7, <2>9, <3>1
    <2>11. Min({ColdStartWorkers, maximum}) \in Nat
      <3>1. ColdStartWorkers \in Nat
        BY DEF ColdStartWorkers
      <3> QED
        BY <1>2, <3>1, OfTwo
    <2> QED
      BY <1>3, <2>10, <2>11 DEF AdaptiveWorkers, near, times
  <1>4. CASE units = {}
    BY <1>4 DEF AdaptiveWorkers
  <1> QED
    BY <1>3, <1>4

\* default_worker_candidates, or those asked for: at least one, and none beyond
\* the units there are.
Chosen(profile) ==
  LET units == UnitCount(profile)
      model == AdaptiveWorkers(Tests, Times[profile].probe, Divisible(profile), Capacity)
  IN IF Requested = {} THEN Candidates(units, model, Capacity)
     ELSE {Min({w, Max({1, units})}) : w \in Requested}

LEMMA UnitsAreCounted ==
  ASSUME NEW profile \in {"modules", "sharding"}
  PROVE  UnitCount(profile) \in Nat /\ Max({1, UnitCount(profile)}) \in Nat \ {0}
  <1> PICK units : units = ExecutionUnits(Tests, Times[profile].probe, Divisible(profile))
    OBVIOUS
  <1>1. IsFiniteSet(units)
    BY TimesAssumption, UnitsAre
  <1>2. UnitCount(profile) \in Nat
    BY <1>1, FS_CardinalityType DEF UnitCount
  <1> QED
    BY <1>2, OfTwo

LEMMA ChosenAre ==
  ASSUME NEW profile \in {"modules", "sharding"}
  PROVE  /\ IsFiniteSet(Chosen(profile)) /\ Chosen(profile) # {}
         /\ Chosen(profile) \in SUBSET (1 .. Max({1, UnitCount(profile)}))
  <1> PICK units, most, model :
        /\ units = UnitCount(profile) /\ most = Max({1, UnitCount(profile)})
        /\ model = AdaptiveWorkers(Tests, Times[profile].probe, Divisible(profile), Capacity)
    OBVIOUS
  <1>1. /\ units \in Nat /\ most \in Nat \ {0}
        /\ most = IF 1 <= units THEN units ELSE 1
    <2>1. units \in Nat /\ 1 \in Nat /\ most \in Nat \ {0}
      BY UnitsAreCounted
    <2>2. Max({1, units}) = IF 1 <= units THEN units ELSE 1
      BY <2>1, OfTwo
    <2> QED
      BY <2>1, <2>2
  <1>2. model \in Nat
    BY TimesAssumption, AdaptiveIsNumber
  <1>3. CASE Requested = {}
    <2>1. CASE units < 1
      <3>1. Chosen(profile) = {1}
        BY <1>3, <2>1 DEF Chosen, Candidates
      <3> PICK one : one = 1
        OBVIOUS
      <3>2. IsFiniteSet({one})
        BY FS_Singleton
      <3> QED
        BY <1>1, <3>1, <3>2
    <2>2. CASE ~(units < 1)
      <3> PICK limit, wanted, place, two :
            /\ limit = Min({units, Capacity, ColdStartWorkers})
            /\ wanted = Max({1, model})
            /\ place = Min({limit, Max({1, model})})
            /\ two = {w \in {2} : w < limit}
        OBVIOUS
      <3>1. limit \in Nat /\ 1 <= limit /\ limit <= units
        <4>1. /\ units \in Nat /\ Capacity \in Nat /\ ColdStartWorkers \in Nat
              /\ 1 <= units /\ 1 <= Capacity /\ 1 <= ColdStartWorkers
          BY <1>1, <2>2, TuningAssumption DEF ColdStartWorkers
        <4>2. /\ limit \in {units, Capacity, ColdStartWorkers}
              /\ limit <= units
          BY <4>1, LeastOfThree
        <4> QED
          BY <4>1, <4>2
      <3>2. wanted \in Nat /\ 1 <= wanted
        <4>1. 1 \in Nat /\ wanted = IF 1 <= model THEN model ELSE 1
          BY <1>2, OfTwo
        <4> QED
          BY <1>2, <4>1
      <3>3. place \in Nat /\ 1 <= place /\ place <= limit
        <4>1. place = IF limit <= wanted THEN limit ELSE wanted
          BY <3>1, <3>2, OfTwo
        <4> QED
          BY <3>1, <3>2, <4>1
      <3>4. Chosen(profile) = {1, limit, place} \union two
        BY <1>3, <2>2 DEF Chosen, Candidates
      <3>5. IsFiniteSet({1} \union {limit} \union {place} \union two)
        <4> PICK one : one = 1
          OBVIOUS
        <4>2. IsFiniteSet({one}) /\ IsFiniteSet({limit}) /\ IsFiniteSet({place})
          BY FS_Singleton
        <4>3. IsFiniteSet(two)
          <5>1. two \in SUBSET {2}
            OBVIOUS
          <5> PICK pair : pair = 2
            OBVIOUS
          <5>2. IsFiniteSet({pair})
            BY FS_Singleton
          <5> QED
            BY <5>1, <5>2, FS_Subset
        <4>1. IsFiniteSet({1}) /\ IsFiniteSet({limit}) /\ IsFiniteSet({place}) /\ IsFiniteSet(two)
          BY <4>2, <4>3
        <4> QED
          BY <4>1, FS_Union
      <3>6. {1, limit, place} \union two = {1} \union {limit} \union {place} \union two
        OBVIOUS
      <3>7. two \in SUBSET (1 .. most)
        BY <1>1, <2>2, <3>1
      <3>8. {1, limit, place} \in SUBSET (1 .. most)
        BY <1>1, <2>2, <3>1, <3>3
      <3> QED
        BY <3>4, <3>5, <3>6, <3>7, <3>8
    <2> QED
      BY <2>1, <2>2
  <1>4. CASE Requested # {}
    <2> PICK f : f = [w \in Requested |-> Min({w, Max({1, units})})]
      OBVIOUS
    <2>1. Chosen(profile) = Held(f, Requested)
      BY <1>4 DEF Chosen, Held
    <2>2. \A w \in Requested : f[w] \in 1 .. most
      <3> TAKE w \in Requested
      <3>1. w \in Nat /\ 1 <= w
        BY TuningAssumption
      <3>2. f[w] = Min({w, most})
        OBVIOUS
      <3>3. Min({w, most}) = IF w <= most THEN w ELSE most
        BY <1>1, <3>1, OfTwo
      <3> QED
        BY <1>1, <3>1, <3>2, <3>3
    <2>3. IsFiniteSet(Held(f, Requested))
      BY TuningAssumption, HeldAreFinite
    <2> QED
      BY <1>4, <2>1, <2>2, <2>3 DEF Held
  <1> QED
    BY <1>3, <1>4

LEMMA SelectedIsAscending ==
  ASSUME NEW profile
  PROVE  SelectedCandidates(profile) = Ascending(Chosen(profile))
  BY DEF SelectedCandidates, Chosen

-----------------------------------------------------------------------------
(***************************************************************************)
(* Rounds of m places, one after another: round r has the places from      *)
(* (r - 1) * m + 1 to r * m.                                               *)
(***************************************************************************)
LEMMA Rounds ==
  ASSUME NEW m \in Nat, NEW r \in Nat, NEW s \in Nat
  PROVE  /\ r * m \in Nat
         /\ (r + 1) * m = r * m + m
         /\ r <= s => r * m <= s * m
  <1>1. r * m \in Nat /\ (r + 1) * m = r * m + m
    OBVIOUS
  <1>2. ASSUME r <= s PROVE r * m <= s * m
    <2> PICK d : d = s - r
      OBVIOUS
    <2>1. d \in Nat /\ s = r + d
      BY <1>2
    <2>2. s * m = r * m + d * m /\ d * m \in Nat
      BY <2>1
    <2> QED
      BY <1>1, <2>2
  <1> QED
    BY <1>1, <1>2

InARound(i, n, m) == \E r \in 1 .. n : \E k \in 1 .. m : i = (r - 1) * m + k

LEMMA EveryPlaceIsInARound ==
  ASSUME NEW n \in Nat, NEW m \in Nat, NEW i \in 1 .. n * m
  PROVE  InARound(i, n, m)
  <1> DEFINE S == {s \in Nat : i <= s * m}
  <1>1. PICK r \in S : \A s \in S : r <= s
    <2>1. S \in SUBSET Nat /\ n \in S
      OBVIOUS
    <2> HIDE DEF S
    <2> QED
      BY <2>1, LeastNumber
  <1>2. r # 0
    <2>1. 0 * m = 0
      OBVIOUS
    <2> QED
      BY <2>1
  <1> PICK q : q = r - 1
    OBVIOUS
  <1>3. q \in Nat /\ r = q + 1 /\ q \notin S /\ r <= n
    <2>1. r \in Nat /\ n \in S
      OBVIOUS
    <2> HIDE DEF S
    <2> QED
      BY <1>1, <1>2, <2>1
  <1>4. q * m \in Nat /\ r * m = q * m + m
    BY <1>3, Rounds
  <1>5. ~(i <= q * m) /\ i <= r * m
    BY <1>3
  <1> PICK k : k = i - q * m
    OBVIOUS
  <1>6. k \in 1 .. m /\ i = q * m + k
    BY <1>4, <1>5
  <1>7. r \in 1 .. n
    BY <1>2, <1>3
  <1> QED
    BY <1>3, <1>6, <1>7 DEF InARound

LEMMA LaterRoundsAreLater ==
  ASSUME NEW m \in Nat, NEW r \in Nat \ {0}, NEW s \in Nat \ {0}, r < s,
         NEW k \in 1 .. m, NEW l \in 1 .. m
  PROVE  (r - 1) * m + k < (s - 1) * m + l
  <1> PICK p, q : p = r - 1 /\ q = s - 1
    OBVIOUS
  <1>1. p \in Nat /\ q \in Nat /\ p + 1 \in Nat /\ p + 1 <= q
    OBVIOUS
  <1>2. p * m \in Nat /\ q * m \in Nat /\ (p + 1) * m = p * m + m
    BY <1>1, Rounds
  <1>3. (p + 1) * m <= q * m
    BY <1>1, Rounds
  <1>4. p * m + k < q * m + l
    BY <1>2, <1>3
  <1> QED
    BY <1>4

\* The places of the rounds up to r, and those of the next.
LEMMA PlacesOfRounds ==
  ASSUME NEW m \in Nat, NEW n \in Nat, NEW r \in 1 .. n, NEW k \in 1 .. m
  PROVE  (r - 1) * m + k \in 1 .. n * m
  <1> PICK p : p = r - 1
    OBVIOUS
  <1>1. p \in Nat /\ p + 1 <= n /\ p + 1 \in Nat
    OBVIOUS
  <1>2. p * m \in Nat /\ n * m \in Nat /\ (p + 1) * m = p * m + m
    BY <1>1, Rounds
  <1>3. (p + 1) * m <= n * m
    BY <1>1, Rounds
  <1>4. p * m + k \in 1 .. n * m
    BY <1>2, <1>3
  <1> QED
    BY <1>4

\* The sequence s of elements of X consists of such rounds, the n sequences of a.
HasRounds(s, X, n, m, a) ==
  /\ s \in Seq(X) /\ Len(s) = n * m
  /\ \A r \in 1 .. n, k \in 1 .. m : s[(r - 1) * m + k] = a[r][k]

LEMMA Flattened ==
  ASSUME NEW n \in Nat, NEW m \in Nat, NEW X, NEW a \in [1 .. n -> Seq(X)],
         \A r \in 1 .. n : Len(a[r]) = m
  PROVE  HasRounds(FlattenSeq(a), X, n, m, a)
  <1> DEFINE Step(g, i) == g[i] = IF i = 1 THEN a[i] ELSE g[i - 1] \o a[i]
             Equation(g) == g = [i \in 1 .. n |-> IF i = 1 THEN a[i] ELSE g[i - 1] \o a[i]]
  <1>0. a \in Seq(Seq(X)) /\ Len(a) = n
    OBVIOUS
  <1>1. CASE n = 0
    <2>1. FlattenSeq(a) = a /\ a = << >>
      BY <1>0, <1>1 DEF FlattenSeq
    <2>2. n * m = 0 /\ 1 .. n = {} /\ Len(a) = 0
      BY <1>0, <1>1
    <2> QED
      BY <2>1, <2>2 DEF HasRounds
  <1>2. CASE n # 0
    <2>1. \E g : Equation(g)
      <3> DEFINE Added(j) == \E g : \A i \in 1 .. j : Step(g, i)
                 Bad == {j \in 1 .. n : ~Added(j)}
      <3>1. Added(1)
        <4> PICK g : g = [i \in {1} |-> a[i]]
          OBVIOUS
        <4>1. \A i \in 1 .. 1 : Step(g, i)
          OBVIOUS
        <4> QED
          BY <4>1
      <3>2. ASSUME NEW j \in 1 .. n, Added(j) PROVE Added(j + 1)
        <4>1. PICK g : \A i \in 1 .. j : Step(g, i)
          BY <3>2
        <4>2. PICK h : h = [i \in 1 .. j + 1 |-> IF i = j + 1 THEN g[j] \o a[i] ELSE g[i]]
          OBVIOUS
        <4>3. ASSUME NEW i \in 1 .. j + 1 PROVE Step(h, i)
          <5>1. CASE i = j + 1
            <6>1. i # 1 /\ i - 1 = j /\ j # j + 1 /\ j \in 1 .. j + 1 /\ j + 1 \in 1 .. j + 1
              BY <5>1
            <6>2. h[j + 1] = g[j] \o a[j + 1] /\ h[j] = g[j]
              BY <4>2, <6>1
            <6> QED
              BY <5>1, <6>1, <6>2
          <5>2. CASE i # j + 1
            <6>1. i \in 1 .. j /\ (i = 1 \/ i - 1 \in 1 .. j)
              BY <5>2
            <6>2. h[i] = g[i] /\ (i = 1 \/ h[i - 1] = g[i - 1])
              BY <4>2, <6>1
            <6>3. Step(g, i)
              BY <4>1, <6>1
            <6> QED
              BY <6>2, <6>3
          <5> QED
            BY <5>1, <5>2
        <4> HIDE DEF Step
        <4> QED
          BY <4>3
      <3>3. Bad = {}
        <4> SUFFICES ASSUME Bad # {} PROVE FALSE
          OBVIOUS
        <4>1. Bad \in SUBSET Nat
          OBVIOUS
        <4>2. PICK j \in Bad : \A l \in Bad : j <= l
          <5> HIDE DEF Bad
          <5> QED
            BY <4>1, LeastNumber
        <4> HIDE DEF Added
        <4>3. j # 1 /\ j \in 1 .. n
          BY <3>1
        <4>4. j - 1 \in 1 .. n /\ j - 1 \notin Bad /\ (j - 1) + 1 = j
          <5> HIDE DEF Bad
          <5> QED
            BY <4>2, <4>3
        <4> QED
          BY <3>2, <4>4
      <3>4. Added(n)
        <4> HIDE DEF Added
        <4> QED
          BY <1>2, <3>3
      <3>5. PICK g : \A i \in 1 .. n : Step(g, i)
        BY <3>4
      <3>6. PICK h : h = [i \in 1 .. n |-> g[i]]
        OBVIOUS
      <3>7. \A i \in 1 .. n : h[i] = IF i = 1 THEN a[i] ELSE h[i - 1] \o a[i]
        <4> TAKE i \in 1 .. n
        <4>1. h[i] = g[i] /\ (i = 1 \/ h[i - 1] = g[i - 1])
          BY <3>6
        <4>2. Step(g, i)
          BY <3>5
        <4> QED
          BY <4>1, <4>2
      <3>8. Equation(h)
        BY <3>6, <3>7
      <3> QED
        BY <3>8
    <2>2. PICK flat : flat = CHOOSE g : Equation(g)
      OBVIOUS
    <2>3. Equation(flat)
      <3> HIDE DEF Equation
      <3> QED
        BY <2>1, <2>2
    <2>4. FlattenSeq(a) = flat[n]
      BY <1>0, <1>2, <2>2 DEF FlattenSeq
    <2> DEFINE Fine(j) ==
          /\ flat[j] \in Seq(X) /\ Len(flat[j]) = j * m
          /\ \A r \in 1 .. j, k \in 1 .. m : flat[j][(r - 1) * m + k] = a[r][k]
          Bad == {j \in 1 .. n : ~Fine(j)}
    <2>5. Fine(1)
      <3>1. flat[1] = a[1] /\ 1 * m = m /\ 1 \in 1 .. n /\ (1 - 1) * m = 0
        BY <1>2, <2>3
      <3>2. \A r \in 1 .. 1 : r = 1
        OBVIOUS
      <3>3. \A k \in 1 .. m : 0 + k = k
        OBVIOUS
      <3> QED
        BY <3>1, <3>2, <3>3
    <2>6. ASSUME NEW j \in 1 .. n, Fine(j), j + 1 \in 1 .. n PROVE Fine(j + 1)
      <3>1. flat[j + 1] = flat[j] \o a[j + 1]
        <4>1. j + 1 # 1 /\ (j + 1) - 1 = j
          OBVIOUS
        <4>2. \A i \in 1 .. n : flat[i] = IF i = 1 THEN a[i] ELSE flat[i - 1] \o a[i]
          BY <2>3
        <4> QED
          BY <2>6, <4>1, <4>2
      <3>0. PICK s, t, u, more : s = flat[j] /\ t = a[j + 1] /\ u = flat[j + 1] /\ more = j + 1
        OBVIOUS
      <3>2. /\ s \in Seq(X) /\ t \in Seq(X) /\ Len(t) = m /\ Len(s) = j * m
            /\ u = s \o t
        BY <2>6, <3>0, <3>1
      <3>3. j \in Nat /\ j * m \in Nat /\ more * m = j * m + m
        BY <3>0, Rounds
      <3>4. /\ u \in Seq(X) /\ Len(u) = more * m
            /\ \A p \in 1 .. j * m : u[p] = s[p]
            /\ \A k \in 1 .. m : u[j * m + k] = t[k]
        <4>1. /\ s \o t \in Seq(X) /\ Len(s \o t) = Len(s) + Len(t)
              /\ \A p \in 1 .. Len(s) : (s \o t)[p] = s[p]
              /\ \A k \in 1 .. Len(t) : (s \o t)[Len(s) + k] = t[k]
          <5>1. s \in Seq(X) /\ t \in Seq(X)
            BY <3>2
          <5> QED
            BY <5>1
        <4> QED
          BY <3>2, <3>3, <4>1
      <3>5. ASSUME NEW r \in 1 .. more, NEW k \in 1 .. m
            PROVE  u[(r - 1) * m + k] = a[r][k]
        <4>1. CASE r = more
          <5>1. r - 1 = j
            BY <3>0, <4>1
          <5> QED
            BY <3>0, <3>4, <4>1, <5>1
        <4>2. CASE r # more
          <5>1. r \in 1 .. j
            BY <3>0, <4>2
          <5>2. (r - 1) * m + k \in 1 .. j * m
            BY <3>3, <5>1, PlacesOfRounds
          <5>3. s[(r - 1) * m + k] = a[r][k]
            BY <2>6, <3>0, <5>1
          <5> QED
            BY <3>4, <5>2, <5>3
        <4> QED
          BY <4>1, <4>2
      <3> QED
        BY <3>0, <3>4, <3>5
    <2>7. Bad = {}
      <3> SUFFICES ASSUME Bad # {} PROVE FALSE
        OBVIOUS
      <3>1. Bad \in SUBSET Nat
        OBVIOUS
      <3>2. PICK j \in Bad : \A l \in Bad : j <= l
        <4> HIDE DEF Bad
        <4> QED
          BY <3>1, LeastNumber
      <3> HIDE DEF Fine
      <3>3. j # 1 /\ j \in 1 .. n
        BY <2>5
      <3>4. j - 1 \in 1 .. n /\ j - 1 \notin Bad /\ (j - 1) + 1 = j
        <4> HIDE DEF Bad
        <4> QED
          BY <3>2, <3>3
      <3> QED
        BY <2>6, <3>3, <3>4
    <2>8. Fine(n)
      <3> HIDE DEF Fine
      <3> QED
        BY <1>2, <2>7
    <2> QED
      BY <2>4, <2>8 DEF HasRounds
  <1> QED
    BY <1>1, <1>2

-----------------------------------------------------------------------------
(***************************************************************************)
(* The measurement plan: whom it measures, and when.                       *)
(***************************************************************************)
\* The order of the even rounds: the candidates, and pytest at the end.
Count(profile) == Cardinality(Chosen(profile))
Ordered(profile) ==
  [j \in 1 .. Count(profile) + 1 |->
     IF j = Count(profile) + 1 THEN 0 ELSE SelectedCandidates(profile)[j]]

\* The place that has the turn at place k of round r, of m.
Turn(m, r, k) == IF r % 2 = 1 THEN k ELSE m - k + 1

Measurements == [kind : {"warmup", "sample"}, workers : Nat]

\* Whom the order e names.
IsNamed(w, e, m) == \E j \in 1 .. m : w = e[j]

LEMMA OrderedAre ==
  ASSUME NEW profile \in {"modules", "sharding"}, NEW c, c = Count(profile), NEW e, e = Ordered(profile)
  PROVE  /\ c \in Nat
         /\ SelectedCandidates(profile) \in [1 .. c -> Nat \ {0}]
         /\ e \in [1 .. c + 1 -> Nat] /\ e[c + 1] = 0
         /\ \A j \in 1 .. c : e[j] = SelectedCandidates(profile)[j]
         /\ \A i, j \in 1 .. c + 1 : e[i] = e[j] => i = j
         /\ \A w : w \in Chosen(profile) <=> w # 0 /\ IsNamed(w, e, c + 1)
  <1> PICK S, s : S = Chosen(profile) /\ s = SelectedCandidates(profile)
    OBVIOUS
  <1>1. IsFiniteSet(S) /\ S \in SUBSET Int /\ S \in SUBSET (Nat \ {0})
    <2>1. IsFiniteSet(S) /\ S \in SUBSET (1 .. Max({1, UnitCount(profile)}))
      BY ChosenAre
    <2> QED
      BY <2>1
  <1>2. /\ c \in Nat /\ s \in [1 .. c -> S]
        /\ \A x \in S : \E i \in 1 .. c : s[i] = x
        /\ \A i, j \in 1 .. c : i < j => s[i] < s[j]
    <2>1. s = Ascending(S)
      BY SelectedIsAscending
    <2> QED
      BY <1>1, <2>1, AscendingLists DEF Count
  <1>3. \A j \in 1 .. c : s[j] \in Nat \ {0}
    BY <1>1, <1>2
  <1>4. e = [j \in 1 .. c + 1 |-> IF j = c + 1 THEN 0 ELSE s[j]]
    BY DEF Ordered
  <1>5. \A j \in 1 .. c + 1 : j = c + 1 \/ j \in 1 .. c
    BY <1>2
  <1>6. \A j \in 1 .. c : e[j] = s[j] /\ e[j] \in Nat \ {0}
    BY <1>2, <1>3, <1>4
  <1>7. e[c + 1] = 0
    BY <1>2, <1>4
  <1>8. e \in [1 .. c + 1 -> Nat]
    <2>1. \A j \in 1 .. c + 1 : e[j] \in Nat
      BY <1>5, <1>6, <1>7
    <2> QED
      BY <1>4, <2>1
  <1>9. \A i, j \in 1 .. c + 1 : e[i] = e[j] => i = j
    <2> SUFFICES ASSUME NEW i \in 1 .. c + 1, NEW j \in 1 .. c + 1, e[i] = e[j]
                 PROVE  i = j
      OBVIOUS
    <2>1. CASE i \in 1 .. c /\ j \in 1 .. c
      <3>1. s[i] = s[j] /\ s[i] \in Int
        BY <1>3, <1>6, <2>1
      <3>2. ~(i < j) /\ ~(j < i)
        BY <1>2, <2>1, <3>1
      <3> QED
        BY <1>2, <3>2
    <2>2. CASE ~(i \in 1 .. c /\ j \in 1 .. c)
      BY <1>5, <1>6, <1>7, <2>2
    <2> QED
      BY <2>1, <2>2
  <1>10. s \in [1 .. c -> Nat \ {0}]
    BY <1>2, <1>3
  <1>11. ASSUME NEW w
         PROVE  w \in S <=> w # 0 /\ \E j \in 1 .. c + 1 : e[j] = w
    <2>1. ASSUME w \in S
          PROVE  w # 0 /\ \E j \in 1 .. c + 1 : e[j] = w
      <3> PICK j \in 1 .. c : s[j] = w
        BY <1>2, <2>1
      <3>1. j \in 1 .. c + 1
        BY <1>2
      <3> QED
        BY <1>6, <3>1
    <2>2. ASSUME w # 0, NEW j \in 1 .. c + 1, e[j] = w
          PROVE  w \in S
      <3>1. j \in 1 .. c
        BY <1>5, <1>7, <2>2
      <3> QED
        BY <1>2, <1>6, <2>2, <3>1
    <2> QED
      BY <2>1, <2>2
  <1> QED
    BY <1>2, <1>6, <1>7, <1>8, <1>9, <1>10, <1>11 DEF IsNamed

\* What is measured, at each place, when a round has the candidates s.
RoundHas(round, kind, s, c, number) ==
  /\ round \in Seq(Measurements) /\ Len(round) = c + 1
  /\ \A k \in 1 .. c + 1 :
       round[k] = [kind |-> kind,
                   workers |-> IF number % 2 = 1 THEN IF k = 1 THEN 0 ELSE s[k - 1]
                               ELSE IF k = c + 1 THEN 0 ELSE s[k]]

LEMMA RoundIs ==
  ASSUME NEW c \in Nat, NEW s \in [1 .. c -> Nat], NEW number \in Nat, NEW kind \in {"warmup", "sample"}
  PROVE  RoundHas(Round(kind, s, number), kind, s, c, number)
  <1>0. PICK round : round = Round(kind, s, number)
    OBVIOUS
  <1>1. PICK native, pytest :
          /\ native = [i \in 1 .. c |-> [kind |-> kind, workers |-> s[i]]]
          /\ pytest = <<[kind |-> kind, workers |-> 0]>>
    OBVIOUS
  <1>2. native \in [1 .. c -> Measurements] /\ pytest \in [1 .. 1 -> Measurements]
    BY <1>1 DEF Measurements
  <1>3. native \in Seq(Measurements) /\ Len(native) = c /\ pytest \in Seq(Measurements) /\ Len(pytest) = 1
    BY <1>1, <1>2
  <1>4. round = IF number % 2 = 1 THEN pytest \o native ELSE native \o pytest
    BY <1>0, <1>1 DEF Round
  <1>5. CASE number % 2 = 1
    <2>1. round = pytest \o native
      BY <1>4, <1>5
    <2>3. \A k \in 1 .. c + 1 : k # 1 => k - 1 \in 1 .. c /\ 1 + (k - 1) = k
      OBVIOUS
    <2>5. /\ round \in Seq(Measurements) /\ Len(round) = c + 1
          /\ round[1] = pytest[1]
          /\ \A k \in 1 .. c : round[1 + k] = native[k]
      <3>1. native \in Seq(Measurements) /\ pytest \in Seq(Measurements)
        BY <1>3
      <3>2. /\ pytest \o native \in Seq(Measurements)
            /\ Len(pytest \o native) = Len(pytest) + Len(native)
            /\ \A k \in 1 .. Len(pytest) : (pytest \o native)[k] = pytest[k]
            /\ \A k \in 1 .. Len(native) : (pytest \o native)[Len(pytest) + k] = native[k]
        BY <3>1
      <3> QED
        BY <1>3, <2>1, <3>2
    <2>2. \A k \in 1 .. c + 1 : round[k] = IF k = 1 THEN pytest[1] ELSE native[k - 1]
      BY <2>3, <2>5
    <2>4. \A k \in 1 .. c + 1 : k # 1 => native[k - 1] = [kind |-> kind, workers |-> s[k - 1]]
      BY <1>1, <2>3
    <2> QED
      BY <1>0, <1>1, <1>5, <2>2, <2>4, <2>5 DEF RoundHas
  <1>6. CASE number % 2 # 1
    <2>1. round = native \o pytest
      BY <1>4, <1>6
    <2>3. \A k \in 1 .. c + 1 : k # c + 1 => k \in 1 .. c
      OBVIOUS
    <2>5. /\ round \in Seq(Measurements) /\ Len(round) = c + 1
          /\ round[c + 1] = pytest[1]
          /\ \A k \in 1 .. c : round[k] = native[k]
      <3>1. native \in Seq(Measurements) /\ pytest \in Seq(Measurements)
        BY <1>3
      <3>2. /\ native \o pytest \in Seq(Measurements)
            /\ Len(native \o pytest) = Len(native) + Len(pytest)
            /\ \A k \in 1 .. Len(native) : (native \o pytest)[k] = native[k]
            /\ \A k \in 1 .. Len(pytest) : (native \o pytest)[Len(native) + k] = pytest[k]
        BY <3>1
      <3> QED
        BY <1>3, <2>1, <3>2
    <2>2. \A k \in 1 .. c + 1 : round[k] = IF k = c + 1 THEN pytest[1] ELSE native[k]
      BY <2>3, <2>5
    <2>4. \A k \in 1 .. c + 1 : k # c + 1 => native[k] = [kind |-> kind, workers |-> s[k]]
      BY <1>1, <2>3
    <2> QED
      BY <1>0, <1>1, <1>6, <2>2, <2>4, <2>5 DEF RoundHas
  <1> QED
    BY <1>5, <1>6

LEMMA FunctionsAreSequences ==
  ASSUME NEW n \in Nat, NEW S, NEW f \in [1 .. n -> S]
  PROVE  f \in Seq(S) /\ Len(f) = n
  OBVIOUS

LEMMA PlanIs ==
  ASSUME NEW profile \in {"modules", "sharding"}, NEW m, m = Count(profile) + 1,
         NEW e, e = Ordered(profile), NEW p, p = MeasurementPlan(profile)
  PROVE  /\ p \in Seq(Measurements) /\ Len(p) = Warmups * m + Repeats * m
         /\ \A i \in 1 .. Warmups * m :
              p[i].kind = "warmup" /\ IsNamed(p[i].workers, e, m)
         /\ \A r \in 1 .. Repeats, k \in 1 .. m :
              p[Warmups * m + ((r - 1) * m + k)] =
                [kind |-> "sample", workers |-> e[Turn(m, r, k)]]
  <1>0. PICK c, s : c = Count(profile) /\ s = SelectedCandidates(profile)
    OBVIOUS
  <1>1. /\ c \in Nat /\ m = c + 1 /\ m \in Nat
        /\ s \in [1 .. c -> Nat]
        /\ e \in [1 .. m -> Nat] /\ e[m] = 0
        /\ \A j \in 1 .. c : e[j] = s[j]
    <2>1. /\ c \in Nat /\ s \in [1 .. c -> Nat \ {0}]
          /\ e \in [1 .. c + 1 -> Nat] /\ e[c + 1] = 0
          /\ \A j \in 1 .. c : e[j] = s[j]
      BY <1>0, OrderedAre
    <2> QED
      BY <1>0, <2>1
  <1>2. Warmups \in Nat /\ Repeats \in Nat
    BY TuningAssumption
  <1>3. PICK warmups, samples :
          /\ warmups = [n \in 1 .. Warmups |-> Round("warmup", s, n - 1)]
          /\ samples = [n \in 1 .. Repeats |->
                          Round("sample", IF (n - 1) % 2 = 1 THEN Reverse(s) ELSE s, n - 1)]
    OBVIOUS
  <1>4. p = FlattenSeq(warmups) \o FlattenSeq(samples)
    BY <1>0, <1>3 DEF MeasurementPlan
  <1>5. ASSUME NEW n \in 1 .. Warmups
        PROVE  /\ warmups[n] \in Seq(Measurements) /\ Len(warmups[n]) = m
               /\ \A k \in 1 .. m : /\ warmups[n][k].kind = "warmup"
                                    /\ \E j \in 1 .. m : warmups[n][k].workers = e[j]
    <2>0. PICK round : round = warmups[n]
      OBVIOUS
    <2>1. round = Round("warmup", s, n - 1) /\ n - 1 \in Nat
      BY <1>3, <2>0
    <2>2. /\ round \in Seq(Measurements) /\ Len(round) = c + 1
          /\ \A k \in 1 .. c + 1 :
               round[k] = [kind |-> "warmup",
                           workers |-> IF (n - 1) % 2 = 1 THEN IF k = 1 THEN 0 ELSE s[k - 1]
                                       ELSE IF k = c + 1 THEN 0 ELSE s[k]]
      <3>3. RoundHas(Round("warmup", s, n - 1), "warmup", s, c, n - 1)
        BY <1>1, <2>1, RoundIs
      <3>1. RoundHas(round, "warmup", s, c, n - 1)
        BY <2>1, <3>3
      <3> QED
        BY <3>1 DEF RoundHas
    <2>3. ASSUME NEW k \in 1 .. m
          PROVE  round[k].kind = "warmup" /\ \E j \in 1 .. m : round[k].workers = e[j]
      <3>1. PICK w : w = IF (n - 1) % 2 = 1 THEN IF k = 1 THEN 0 ELSE s[k - 1]
                         ELSE IF k = c + 1 THEN 0 ELSE s[k]
        OBVIOUS
      <3>2. round[k] = [kind |-> "warmup", workers |-> w]
        BY <1>1, <2>2, <3>1
      <3>3. w = 0 \/ \E j \in 1 .. c : w = s[j]
        <4>1. k # 1 => k - 1 \in 1 .. c
          BY <1>1
        <4>2. k # c + 1 => k \in 1 .. c
          BY <1>1
        <4> QED
          BY <3>1, <4>1, <4>2
      <3>4. \E j \in 1 .. m : w = e[j]
        <4>1. CASE w = 0
          <5>1. m \in 1 .. m
            BY <1>1
          <5> QED
            BY <1>1, <4>1, <5>1
        <4>2. ASSUME NEW j \in 1 .. c, w = s[j] PROVE \E i \in 1 .. m : w = e[i]
          <5>1. j \in 1 .. m
            BY <1>1
          <5> QED
            BY <1>1, <4>2, <5>1
        <4> QED
          BY <3>3, <4>1, <4>2
      <3> QED
        BY <3>2, <3>4
    <2> QED
      BY <1>1, <2>0, <2>2, <2>3
  <1>6. ASSUME NEW r \in 1 .. Repeats
        PROVE  /\ samples[r] \in Seq(Measurements) /\ Len(samples[r]) = m
               /\ \A k \in 1 .. m :
                    samples[r][k] = [kind |-> "sample", workers |-> e[Turn(m, r, k)]]
    <2>0. PICK round, number, order :
            /\ round = samples[r] /\ number = r - 1
            /\ order = IF number % 2 = 1 THEN Reverse(s) ELSE s
      OBVIOUS
    <2>1. /\ number \in Nat /\ (number % 2 = 1 <=> r % 2 # 1)
          /\ round = Round("sample", order, number)
      <3>1. number \in Nat /\ r = number + 1
        BY <1>2, <2>0
      <3>2. number % 2 = 1 <=> r % 2 # 1
        BY <3>1
      <3>3. round = Round("sample", order, number)
        BY <1>3, <2>0
      <3> QED
        BY <3>1, <3>2, <3>3
    <2>2. s \in Seq(Nat) /\ Len(s) = c
      BY <1>1, FunctionsAreSequences
    <2>3. /\ order \in [1 .. c -> Nat]
          /\ \A i \in 1 .. c : order[i] = IF number % 2 = 1 THEN s[c - i + 1] ELSE s[i]
      BY <1>1, <2>0, <2>2 DEF Reverse
    <2>4. /\ round \in Seq(Measurements) /\ Len(round) = c + 1
          /\ \A k \in 1 .. c + 1 :
               round[k] = [kind |-> "sample",
                           workers |-> IF number % 2 = 1 THEN IF k = 1 THEN 0 ELSE order[k - 1]
                                       ELSE IF k = c + 1 THEN 0 ELSE order[k]]
      <3>3. RoundHas(Round("sample", order, number), "sample", order, c, number)
        BY <1>1, <2>1, <2>3, RoundIs
      <3>1. RoundHas(round, "sample", order, c, number)
        BY <2>1, <3>3
      <3> QED
        BY <3>1 DEF RoundHas
    <2>5. ASSUME NEW k \in 1 .. m
          PROVE  round[k] = [kind |-> "sample", workers |-> e[Turn(m, r, k)]]
      <3>1. CASE number % 2 = 1
        <4>1. Turn(m, r, k) = m - k + 1
          BY <2>1, <3>1 DEF Turn
        <4>2. CASE k = 1
          <5>1. m - k + 1 = m
            BY <1>1, <4>2
          <5>2. round[k] = [kind |-> "sample", workers |-> 0]
            BY <1>1, <2>4, <3>1, <4>2
          <5> QED
            BY <1>1, <4>1, <5>1, <5>2
        <4>3. CASE k # 1
          <5>1. k - 1 \in 1 .. c /\ c - (k - 1) + 1 \in 1 .. c /\ c - (k - 1) + 1 = m - k + 1
            BY <1>1, <4>3
          <5>2. round[k] = [kind |-> "sample", workers |-> order[k - 1]]
            BY <1>1, <2>4, <3>1, <4>3
          <5>3. order[k - 1] = s[m - k + 1] /\ e[m - k + 1] = s[m - k + 1]
            BY <1>1, <2>3, <3>1, <5>1
          <5> QED
            BY <4>1, <5>2, <5>3
        <4> QED
          BY <4>2, <4>3
      <3>2. CASE number % 2 # 1
        <4>1. Turn(m, r, k) = k
          BY <2>1, <3>2 DEF Turn
        <4>2. CASE k = m
          <5>1. round[k] = [kind |-> "sample", workers |-> 0]
            BY <1>1, <2>4, <3>2, <4>2
          <5> QED
            BY <1>1, <4>1, <4>2, <5>1
        <4>3. CASE k # m
          <5>1. k \in 1 .. c /\ k # c + 1
            BY <1>1, <4>3
          <5>2. round[k] = [kind |-> "sample", workers |-> order[k]]
            BY <1>1, <2>4, <3>2, <5>1
          <5>3. order[k] = s[k] /\ e[k] = s[k]
            BY <1>1, <2>3, <3>2, <5>1
          <5> QED
            BY <4>1, <5>2, <5>3
        <4> QED
          BY <4>2, <4>3
      <3> QED
        BY <3>1, <3>2
    <2> QED
      BY <1>1, <2>0, <2>4, <2>5
  <1>7. PICK a, b : a = FlattenSeq(warmups) /\ b = FlattenSeq(samples)
    OBVIOUS
  <1>8. /\ a \in Seq(Measurements) /\ Len(a) = Warmups * m
        /\ \A n \in 1 .. Warmups, k \in 1 .. m : a[(n - 1) * m + k] = warmups[n][k]
    <2>1. warmups \in [1 .. Warmups -> Seq(Measurements)]
      BY <1>3, <1>5
    <2>2. \A n \in 1 .. Warmups : Len(warmups[n]) = m
      BY <1>5
    <2> QED
      <3>1. HasRounds(FlattenSeq(warmups), Measurements, Warmups, m, warmups)
        BY <1>1, <1>2, <2>1, <2>2, Flattened
      <3> QED
        BY <1>7, <3>1 DEF HasRounds
  <1>9. /\ b \in Seq(Measurements) /\ Len(b) = Repeats * m
        /\ \A r \in 1 .. Repeats, k \in 1 .. m : b[(r - 1) * m + k] = samples[r][k]
    <2>1. samples \in [1 .. Repeats -> Seq(Measurements)]
      BY <1>3, <1>6
    <2>2. \A r \in 1 .. Repeats : Len(samples[r]) = m
      BY <1>6
    <2> QED
      <3>1. HasRounds(FlattenSeq(samples), Measurements, Repeats, m, samples)
        BY <1>1, <1>2, <2>1, <2>2, Flattened
      <3> QED
        BY <1>7, <3>1 DEF HasRounds
  <1>10. /\ p \in Seq(Measurements) /\ Len(p) = Len(a) + Len(b)
         /\ \A i \in 1 .. Len(a) : p[i] = a[i]
         /\ \A i \in 1 .. Len(b) : p[Len(a) + i] = b[i]
    <2>1. a \in Seq(Measurements) /\ b \in Seq(Measurements) /\ p = a \o b
      BY <1>4, <1>7, <1>8, <1>9
    <2> QED
      BY <2>1
  <1>11. ASSUME NEW i \in 1 .. Warmups * m
         PROVE  p[i].kind = "warmup" /\ \E j \in 1 .. m : p[i].workers = e[j]
    <2>1. PICK n \in 1 .. Warmups : \E k \in 1 .. m : i = (n - 1) * m + k
      <3>1. InARound(i, Warmups, m)
        BY <1>1, <1>2, EveryPlaceIsInARound
      <3> QED
        BY <3>1 DEF InARound
    <2>3. PICK k \in 1 .. m : i = (n - 1) * m + k
      BY <2>1
    <2>2. p[i] = warmups[n][k]
      BY <1>8, <1>10, <2>3
    <2> QED
      BY <1>5, <2>2
  <1>12. ASSUME NEW r \in 1 .. Repeats, NEW k \in 1 .. m
         PROVE  p[Warmups * m + ((r - 1) * m + k)] =
                  [kind |-> "sample", workers |-> e[Turn(m, r, k)]]
    <2>1. (r - 1) * m + k \in 1 .. Repeats * m
      BY <1>1, <1>2, PlacesOfRounds
    <2>2. p[Warmups * m + ((r - 1) * m + k)] = b[(r - 1) * m + k]
      BY <1>8, <1>9, <1>10, <2>1
    <2>3. b[(r - 1) * m + k] = samples[r][k]
      BY <1>9
    <2>4. samples[r][k] = [kind |-> "sample", workers |-> e[Turn(m, r, k)]]
      BY <1>6
    <2> QED
      BY <2>2, <2>3, <2>4
  <1> QED
    BY <1>8, <1>9, <1>10, <1>11, <1>12 DEF IsNamed

-----------------------------------------------------------------------------
(***************************************************************************)
(* The places of what was measured.  With ran one place ahead of the plan, *)
(* for the probe, the j-th of the order has one place in each round.       *)
(***************************************************************************)
At(m, r, j) == 1 + (Warmups * m + ((r - 1) * m + Turn(m, r, j)))

\* The measurements s are the probe and what the plan p says.
Followed(s, p) ==
  /\ DOMAIN s = 1 .. Len(p) + 1
  /\ s[1].kind = "probe"
  /\ \A i \in 2 .. Len(p) + 1 : s[i].kind = p[i - 1].kind /\ s[i].workers = p[i - 1].workers

LEMMA Turns ==
  ASSUME NEW m \in Nat, NEW r \in Nat, NEW k \in 1 .. m
  PROVE  Turn(m, r, k) \in 1 .. m /\ Turn(m, r, Turn(m, r, k)) = k
  <1>1. CASE r % 2 = 1
    BY <1>1 DEF Turn
  <1>2. CASE r % 2 # 1
    <2>1. Turn(m, r, k) = m - k + 1 /\ m - k + 1 \in 1 .. m
      BY <1>2 DEF Turn
    <2>2. Turn(m, r, m - k + 1) = m - (m - k + 1) + 1
      BY <1>2 DEF Turn
    <2>3. m - (m - k + 1) + 1 = k
      OBVIOUS
    <2> QED
      BY <2>1, <2>2, <2>3
  <1> QED
    BY <1>1, <1>2

LEMMA PlacesGrow ==
  ASSUME NEW m \in Nat, NEW j \in 1 .. m
  PROVE  /\ \A r \in 1 .. Repeats : At(m, r, j) \in Int
         /\ \A r, q \in 1 .. Repeats : r < q => At(m, r, j) < At(m, q, j)
  <1>1. Warmups * m \in Nat
    BY TuningAssumption, Rounds
  <1>2. PICK before : before = Warmups * m
    OBVIOUS
  <1>3. ASSUME NEW r \in 1 .. Repeats
        PROVE  (r - 1) * m + Turn(m, r, j) \in Int /\ Turn(m, r, j) \in 1 .. m /\ r \in Nat \ {0}
    <2>1. r \in Nat \ {0}
      BY TuningAssumption
    <2>2. PICK q : q = r - 1
      OBVIOUS
    <2>3. q \in Nat
      BY <2>1, <2>2
    <2>4. q * m \in Nat
      BY <2>3, Rounds
    <2>5. Turn(m, r, j) \in 1 .. m
      BY <2>1, Turns
    <2> QED
      BY <2>1, <2>2, <2>4, <2>5
  <1>4. ASSUME NEW r \in 1 .. Repeats, NEW q \in 1 .. Repeats, r < q
        PROVE  At(m, r, j) < At(m, q, j)
    <2>1. PICK x, y : x = (r - 1) * m + Turn(m, r, j) /\ y = (q - 1) * m + Turn(m, q, j)
      OBVIOUS
    <2>2. x < y
      BY <1>3, <1>4, <2>1, LaterRoundsAreLater
    <2>3. At(m, r, j) = 1 + (before + x) /\ At(m, q, j) = 1 + (before + y)
      BY <1>2, <2>1 DEF At
    <2>4. x \in Int /\ y \in Int /\ before \in Int
      BY <1>1, <1>2, <1>3, <2>1
    <2> QED
      BY <2>2, <2>3, <2>4
  <1>5. ASSUME NEW r \in 1 .. Repeats
        PROVE  At(m, r, j) \in Int
    <2>1. PICK x : x = (r - 1) * m + Turn(m, r, j)
      OBVIOUS
    <2>2. x \in Int /\ before \in Int
      BY <1>1, <1>2, <1>3, <2>1
    <2>3. At(m, r, j) = 1 + (before + x)
      BY <1>2, <2>1 DEF At
    <2> QED
      BY <2>2, <2>3
  <1> QED
    BY <1>4, <1>5

\* The places of the samples of the j-th.
LEMMA PlacesAre ==
  ASSUME NEW profile \in {"modules", "sharding"}, NEW m, m = Count(profile) + 1,
         NEW e, e = Ordered(profile), NEW s, Followed(s, MeasurementPlan(profile)),
         NEW j \in 1 .. m, NEW i
  PROVE  i \in DOMAIN s /\ s[i].kind = "sample" /\ s[i].workers = e[j] <=>
           \E r \in 1 .. Repeats : i = At(m, r, j)
  <1>0. PICK p, before : p = MeasurementPlan(profile) /\ before = Warmups * m
    OBVIOUS
  <1>1. /\ m \in Nat /\ \A k, l \in 1 .. m : e[k] = e[l] => k = l
        /\ Warmups \in Nat /\ Repeats \in Nat /\ before \in Nat /\ Repeats * m \in Nat
    <2>1. Count(profile) \in Nat /\ \A k, l \in 1 .. Count(profile) + 1 : e[k] = e[l] => k = l
      BY OrderedAre
    <2>2. m \in Nat
      BY <2>1
    <2>3. Warmups \in Nat /\ Repeats \in Nat
      BY TuningAssumption
    <2>4. Warmups * m \in Nat /\ Repeats * m \in Nat
      BY <2>2, <2>3, Rounds
    <2> QED
      BY <1>0, <2>1, <2>2, <2>3, <2>4
  <1>2. /\ Len(p) = before + Repeats * m
        /\ \A k \in 1 .. before : p[k].kind = "warmup"
        /\ \A r \in 1 .. Repeats, k \in 1 .. m :
             p[before + ((r - 1) * m + k)] = [kind |-> "sample", workers |-> e[Turn(m, r, k)]]
    BY <1>0, PlanIs
  <1>3. /\ DOMAIN s = 1 .. Len(p) + 1 /\ s[1].kind = "probe"
        /\ \A k \in 2 .. Len(p) + 1 : s[k].kind = p[k - 1].kind /\ s[k].workers = p[k - 1].workers
    BY <1>0 DEF Followed
  <1>4. ASSUME NEW r \in 1 .. Repeats, i = At(m, r, j)
        PROVE  i \in DOMAIN s /\ s[i].kind = "sample" /\ s[i].workers = e[j]
    <2>1. PICK k, x : k = Turn(m, r, j) /\ x = (r - 1) * m + k
      OBVIOUS
    <2>2. k \in 1 .. m /\ Turn(m, r, k) = j
      <3>1. r \in Nat
        BY <1>1
      <3> QED
        BY <1>1, <2>1, <3>1, Turns
    <2>3. x \in 1 .. Repeats * m
      BY <1>1, <2>1, <2>2, PlacesOfRounds
    <2>4. i = 1 + (before + x)
      BY <1>0, <1>4, <2>1 DEF At
    <2>5. i \in 2 .. Len(p) + 1 /\ i - 1 = before + x
      <3>1. PICK total : total = Repeats * m
        OBVIOUS
      <3>2. before \in Nat /\ total \in Nat /\ x \in 1 .. total /\ Len(p) = before + total
        BY <1>1, <1>2, <2>3, <3>1
      <3> QED
        BY <2>4, <3>2
    <2>6. p[before + x] = [kind |-> "sample", workers |-> e[Turn(m, r, k)]]
      BY <1>2, <2>1, <2>2
    <2>7. i \in DOMAIN s
      BY <1>1, <1>2, <1>3, <2>5
    <2> QED
      BY <1>3, <2>2, <2>5, <2>6, <2>7
  <1>5. ASSUME i \in DOMAIN s, s[i].kind = "sample", s[i].workers = e[j]
        PROVE  \E r \in 1 .. Repeats : i = At(m, r, j)
    <2>1. i \in 1 .. Len(p) + 1 /\ i # 1
      BY <1>3, <1>5
    <2>2. PICK x : x = i - 1
      OBVIOUS
    <2>3. /\ i \in Int /\ i \in 2 .. Len(p) + 1 /\ x \in 1 .. before + Repeats * m
          /\ p[x].kind = "sample" /\ p[x].workers = e[j]
      <3>1. PICK total : total = Repeats * m
        OBVIOUS
      <3>2. before \in Nat /\ total \in Nat /\ Len(p) = before + total
        BY <1>1, <1>2, <3>1
      <3>3. i \in Int /\ i \in 2 .. Len(p) + 1 /\ x \in 1 .. before + total
        BY <2>1, <2>2, <3>2
      <3>4. s[i].kind = p[i - 1].kind /\ s[i].workers = p[i - 1].workers
        BY <1>3, <3>3
      <3> QED
        BY <1>5, <2>2, <3>1, <3>3, <3>4
    <2>4. x \notin 1 .. before
      BY <1>2, <2>3
    <2>5. PICK y : y = x - before
      OBVIOUS
    <2>6. y \in 1 .. Repeats * m /\ x = before + y
      BY <1>1, <2>3, <2>4, <2>5
    <2>7. PICK r \in 1 .. Repeats : \E k \in 1 .. m : y = (r - 1) * m + k
      <3>1. InARound(y, Repeats, m)
        BY <1>1, <2>6, EveryPlaceIsInARound
      <3> QED
        BY <3>1 DEF InARound
    <2>8. PICK k \in 1 .. m : y = (r - 1) * m + k
      BY <2>7
    <2>9. p[before + ((r - 1) * m + k)] = [kind |-> "sample", workers |-> e[Turn(m, r, k)]]
      BY <1>2
    <2>10. e[Turn(m, r, k)] = e[j]
      BY <2>3, <2>6, <2>8, <2>9
    <2>11. Turn(m, r, k) \in 1 .. m /\ Turn(m, r, Turn(m, r, k)) = k
      <3>1. r \in Nat
        BY <1>1
      <3> QED
        BY <1>1, <3>1, Turns
    <2>12. Turn(m, r, k) = j
      BY <1>1, <2>10, <2>11
    <2>13. At(m, r, j) = 1 + (before + y)
      BY <1>0, <2>8, <2>11, <2>12 DEF At
    <2>14. i = At(m, r, j)
      <3>1. PICK total : total = Repeats * m
        OBVIOUS
      <3>2. y \in 1 .. total /\ total \in Nat /\ before \in Nat /\ i \in Int /\ x = before + y
        BY <1>1, <2>3, <2>6, <3>1
      <3>3. i = 1 + (before + y)
        BY <2>2, <3>2
      <3> QED
        BY <2>13, <3>3
    <2> QED
      BY <2>14
  <1> QED
    BY <1>4, <1>5

LEMMA TakenIs ==
  ASSUME NEW profile \in {"modules", "sharding"}, NEW m, m = Count(profile) + 1,
         NEW e, e = Ordered(profile), Followed(ran, MeasurementPlan(profile)), NEW j \in 1 .. m
  PROVE  /\ Taken(e[j]) = [r \in 1 .. Repeats |-> At(m, r, j)]
         /\ Len(Taken(e[j])) = Repeats
  <1>1. PICK f, S : /\ f = [r \in 1 .. Repeats |-> At(m, r, j)]
                    /\ S = {i \in DOMAIN ran : ran[i].kind = "sample" /\ ran[i].workers = e[j]}
    OBVIOUS
  <1>2. m \in Nat /\ Repeats \in Nat
    <2>1. Count(profile) \in Nat
      BY OrderedAre
    <2> QED
      BY <2>1, TuningAssumption
  <1>3. /\ \A r \in 1 .. Repeats : At(m, r, j) \in Int
        /\ \A r, q \in 1 .. Repeats : r < q => At(m, r, j) < At(m, q, j)
    BY <1>2, PlacesGrow
  <1>4. f \in [1 .. Repeats -> Int] /\ \A r, q \in 1 .. Repeats : r < q => f[r] < f[q]
    BY <1>1, <1>3
  <1>5. \A i : i \in S <=> \E r \in 1 .. Repeats : i = f[r]
    <2> TAKE i
    <2>1. i \in S <=> \E r \in 1 .. Repeats : i = At(m, r, j)
      <3>1. i \in S <=> i \in DOMAIN ran /\ ran[i].kind = "sample" /\ ran[i].workers = e[j]
        BY <1>1
      <3>2. i \in DOMAIN ran /\ ran[i].kind = "sample" /\ ran[i].workers = e[j] <=>
              \E r \in 1 .. Repeats : i = At(m, r, j)
        BY PlacesAre
      <3> QED
        BY <3>1, <3>2
    <2> QED
      BY <1>1, <2>1
  <1>6. Ascending(S) = f
    BY <1>2, <1>4, <1>5, GrowingIsAscending
  <1>7. Taken(e[j]) = f
    BY <1>1, <1>6 DEF Taken
  <1>8. Len(f) = Repeats
    BY <1>2, <1>4, FunctionsAreSequences
  <1> QED
    BY <1>1, <1>7, <1>8

\* Of the rounds, half are odd, and half even, but for one.
LEMMA OddAndEven ==
  ASSUME NEW n \in Nat, NEW S,
         \/ \A r : r \in S <=> r \in 1 .. n /\ r % 2 = 1
         \/ \A r : r \in S <=> r \in 1 .. n /\ r % 2 # 1
  PROVE  2 * Cardinality(S) \in n - 1 .. n + 1
  <1>1. CASE \A r : r \in S <=> r \in 1 .. n /\ r % 2 = 1
    <2>1. PICK h, f : h = (n + 1) \div 2 /\ f = [i \in 1 .. h |-> 2 * i - 1]
      OBVIOUS
    <2>2. h \in Nat /\ 2 * h \in n .. n + 1
      BY <2>1
    <2>3. \A i \in 1 .. h : f[i] = 2 * i - 1
      BY <2>1
    <2>4. \A i, j \in 1 .. h : i # j => f[i] # f[j]
      BY <2>2, <2>3
    <2>5. \A r : r \in S <=> \E i \in 1 .. h : r = f[i]
      <3> TAKE r
      <3>1. ASSUME r \in S PROVE \E i \in 1 .. h : r = f[i]
        <4>1. r \in 1 .. n /\ r % 2 = 1
          BY <1>1, <3>1
        <4>2. PICK i : i = (r + 1) \div 2
          OBVIOUS
        <4>3. i \in 1 .. h /\ r = 2 * i - 1
          BY <2>2, <4>1, <4>2
        <4> QED
          BY <2>3, <4>3
      <3>2. ASSUME NEW i \in 1 .. h, r = f[i] PROVE r \in S
        <4>1. r = 2 * i - 1 /\ i \in Nat
          BY <2>2, <2>3, <3>2
        <4>2. r \in 1 .. n /\ r % 2 = 1
          BY <2>2, <4>1
        <4> QED
          BY <1>1, <4>2
      <3> QED
        BY <3>1, <3>2
    <2>6. Cardinality(S) = h
      <3>1. ASSUME NEW k \in Nat, NEW U, \A x : x \in U <=> \E i \in 1 .. k : x = f[i],
                   \A i, j \in 1 .. k : i # j => f[i] # f[j]
            PROVE  Cardinality(U) = k
        BY <3>1, AllDifferent
      <3> QED
        BY <2>2, <2>4, <2>5, <3>1
    <2> QED
      BY <2>2, <2>6
  <1>2. CASE \A r : r \in S <=> r \in 1 .. n /\ r % 2 # 1
    <2>1. PICK h, f : h = n \div 2 /\ f = [i \in 1 .. h |-> 2 * i]
      OBVIOUS
    <2>2. h \in Nat /\ 2 * h \in n - 1 .. n
      BY <2>1
    <2>3. \A i \in 1 .. h : f[i] = 2 * i
      BY <2>1
    <2>4. \A i, j \in 1 .. h : i # j => f[i] # f[j]
      BY <2>2, <2>3
    <2>5. \A r : r \in S <=> \E i \in 1 .. h : r = f[i]
      <3> TAKE r
      <3>1. ASSUME r \in S PROVE \E i \in 1 .. h : r = f[i]
        <4>1. r \in 1 .. n /\ r % 2 # 1
          BY <1>2, <3>1
        <4>2. PICK i : i = r \div 2
          OBVIOUS
        <4>3. i \in 1 .. h /\ r = 2 * i
          BY <2>2, <4>1, <4>2
        <4> QED
          BY <2>3, <4>3
      <3>2. ASSUME NEW i \in 1 .. h, r = f[i] PROVE r \in S
        <4>1. r = 2 * i /\ i \in Nat
          BY <2>2, <2>3, <3>2
        <4>2. r \in 1 .. n /\ r % 2 # 1
          BY <2>2, <4>1
        <4> QED
          BY <1>2, <4>2
      <3> QED
        BY <3>1, <3>2
    <2>6. Cardinality(S) = h
      <3>1. ASSUME NEW k \in Nat, NEW U, \A x : x \in U <=> \E i \in 1 .. k : x = f[i],
                   \A i, j \in 1 .. k : i # j => f[i] # f[j]
            PROVE  Cardinality(U) = k
        BY <3>1, AllDifferent
      <3> QED
        BY <2>2, <2>4, <2>5, <3>1
    <2> QED
      BY <2>2, <2>6
  <1> QED
    BY <1>1, <1>2

\* Each of two comes before the other in half of the rounds.
LEMMA AheadIsHalf ==
  ASSUME NEW profile \in {"modules", "sharding"}, NEW m, m = Count(profile) + 1,
         NEW e, e = Ordered(profile), Followed(ran, MeasurementPlan(profile)),
         NEW i \in 1 .. m, NEW j \in 1 .. m, i # j
  PROVE  2 * Ahead(e[i], e[j]) \in Repeats - 1 .. Repeats + 1
  <1>1. m \in Nat /\ Repeats \in Nat /\ Warmups * m \in Int
    <2>1. Count(profile) \in Nat
      BY OrderedAre
    <2>2. m \in Nat /\ Repeats \in Nat /\ Warmups \in Nat
      BY <2>1, TuningAssumption
    <2> QED
      BY <2>2, Rounds
  <1>2. PICK S : S = {k \in 1 .. Repeats : Taken(e[i])[k] < Taken(e[j])[k]}
    OBVIOUS
  <1>3. ASSUME NEW r \in 1 .. Repeats
        PROVE  r \in S <=> Turn(m, r, i) < Turn(m, r, j)
    <2>1. Taken(e[i])[r] = At(m, r, i) /\ Taken(e[j])[r] = At(m, r, j)
      <3>1. /\ Taken(e[i]) = [q \in 1 .. Repeats |-> At(m, q, i)]
            /\ Taken(e[j]) = [q \in 1 .. Repeats |-> At(m, q, j)]
        BY TakenIs
      <3> QED
        BY <3>1
    <2>2. PICK before, round, x, y :
            /\ before = Warmups * m /\ round = (r - 1) * m
            /\ x = Turn(m, r, i) /\ y = Turn(m, r, j)
      OBVIOUS
    <2>3. round \in Int /\ before \in Int /\ x \in Int /\ y \in Int
      <3>1. r \in Nat
        BY <1>1
      <3>2. x \in 1 .. m /\ y \in 1 .. m
        BY <1>1, <2>2, <3>1, Turns
      <3>3. PICK q : q = r - 1
        OBVIOUS
      <3>4. q \in Nat
        BY <1>1, <3>3
      <3>5. q * m \in Nat
        BY <1>1, <3>4, Rounds
      <3> QED
        BY <1>1, <2>2, <3>2, <3>3, <3>5
    <2>4. At(m, r, i) = 1 + (before + (round + x)) /\ At(m, r, j) = 1 + (before + (round + y))
      BY <2>2 DEF At
    <2> QED
      BY <1>2, <2>1, <2>2, <2>3, <2>4
  <1>4. \A r : r \in S => r \in 1 .. Repeats
    BY <1>2
  <1>5. CASE i < j
    <2>1. \A r : r \in S <=> r \in 1 .. Repeats /\ r % 2 = 1
      BY <1>1, <1>3, <1>4, <1>5 DEF Turn
    <2>2. 2 * Cardinality(S) \in Repeats - 1 .. Repeats + 1
      BY <1>1, <2>1, OddAndEven
    <2> QED
      BY <1>2, <2>2 DEF Ahead
  <1>6. CASE j < i
    <2>1. \A r : r \in S <=> r \in 1 .. Repeats /\ r % 2 # 1
      BY <1>1, <1>3, <1>4, <1>6 DEF Turn
    <2>2. 2 * Cardinality(S) \in Repeats - 1 .. Repeats + 1
      BY <1>1, <2>1, OddAndEven
    <2> QED
      BY <1>2, <2>2 DEF Ahead
  <1>7. i < j \/ j < i
    BY <1>1
  <1> QED
    BY <1>5, <1>6, <1>7

-----------------------------------------------------------------------------
(***************************************************************************)
(* The recommendation.                                                     *)
(***************************************************************************)
Sooner(d, t, u) ==
  \/ d[t] < d[u]
  \/ d[t] = d[u] /\ t < u

\* The measurements of a candidate have a median.
LEMMA MedianIsNumber ==
  ASSUME NEW n \in Nat \ {0}, NEW d \in [1 .. n -> Nat]
  PROVE  Median(d) \in Nat
  <1>0. PICK S : S = 1 .. n
    OBVIOUS
  <1> DEFINE R == {p \in S \X S : Sooner(d, p[1], p[2])}
             sorted == Sorted(DOMAIN d, LAMBDA t, u : d[t] < d[u] \/ (d[t] = d[u] /\ t < u))
  <1>1. \A t, u \in S : <<t, u>> \in R <=> Sooner(d, t, u)
    OBVIOUS
  <1>2. DOMAIN d = S /\ IsFiniteSet(S) /\ Cardinality(S) = n /\ S \in SUBSET Nat
        /\ \A t \in S : d[t] \in Nat
    BY <1>0, UpTo
  <1>3. Linear(S, R)
    <2> HIDE DEF R
    <2>1. \A t \in S : ~Sooner(d, t, t)
      BY <1>2 DEF Sooner
    <2>2. \A t, u, v \in S : Sooner(d, t, u) /\ Sooner(d, u, v) => Sooner(d, t, v)
      BY <1>2 DEF Sooner
    <2>3. \A t, u \in S : t = u \/ Sooner(d, t, u) \/ Sooner(d, u, t)
      <3> TAKE t, u \in S
      <3>1. t \in Nat /\ u \in Nat /\ d[t] \in Nat /\ d[u] \in Nat
        BY <1>2
      <3> QED
        BY <3>1 DEF Sooner
    <2> QED
      BY <1>1, <1>2, <2>1, <2>2, <2>3 DEF Linear
  <1>4. \A t \in S : {u \in S : Sooner(d, u, t)} = Before(S, R, t)
    <2> HIDE DEF R
    <2> QED
      BY <1>1 DEF Before
  <1>5. sorted = [i \in 1 .. Cardinality(S) |->
                    CHOOSE t \in S : Cardinality({u \in S : Sooner(d, u, t)}) = i - 1]
    <2>1. sorted = Sorted(S, LAMBDA t, u : d[t] < d[u] \/ (d[t] = d[u] /\ t < u))
      BY <1>2
    <2> QED
      BY <2>1 DEF Sorted, Sooner
  <1> HIDE DEF sorted
  <1>6. sorted = [i \in 1 .. Cardinality(S) |-> CHOOSE t \in S : Rank(S, R, t) = i - 1]
    <2> HIDE DEF R
    <2>1. \A t \in S : Cardinality({u \in S : Sooner(d, u, t)}) = Rank(S, R, t)
      BY <1>4 DEF Rank
    <2> QED
      BY <1>5, <2>1
  <1> HIDE DEF R
  <1>7. Lists(sorted, S, R)
    BY <1>3, <1>6, CountingSorts
  <1>8. sorted \in [1 .. n -> S]
    BY <1>2, <1>7 DEF Lists
  <1>9. Len(sorted) = n
    BY <1>8
  <1>10. PICK middle : middle = (n + 1) \div 2
    OBVIOUS
  <1>11. Median(d) = IF n % 2 = 1 THEN d[sorted[middle]]
                     ELSE (d[sorted[middle]] + d[sorted[middle + 1]]) \div 2
    BY <1>9, <1>10 DEF Median, sorted
  <1>12. middle \in 1 .. n /\ (n % 2 # 1 => middle + 1 \in 1 .. n)
    BY <1>10
  <1>13. d[sorted[middle]] \in Nat
    BY <1>2, <1>8, <1>12
  <1>14. CASE n % 2 # 1
    <2>1. PICK a, b : a = d[sorted[middle]] /\ b = d[sorted[middle + 1]]
      OBVIOUS
    <2>2. a \in Nat /\ b \in Nat
      BY <1>2, <1>8, <1>12, <1>14, <2>1
    <2>3. (a + b) \div 2 \in Nat
      BY <2>2
    <2> QED
      BY <1>11, <1>14, <2>1, <2>3
  <1> QED
    BY <1>11, <1>13, <1>14

\* Whoever is near the best is near whoever is no better.
LEMMA NearBestOfWorse ==
  ASSUME NEW best \in Nat, NEW worse \in Nat, best <= worse, NEW time \in Nat,
         NearBest(time, best)
  PROVE  NearBest(time, worse)
  <1>1. PICK floor, a, b : floor = 100 * NearBestFloor /\ a = 2 * best /\ b = 2 * worse
    OBVIOUS
  <1>2. floor \in Nat /\ a \in Nat /\ b \in Nat /\ a <= b
    BY <1>1 DEF NearBestFloor
  <1>3. Max({floor, a}) = IF floor <= a THEN a ELSE floor
    BY <1>2, OfTwo
  <1>4. Max({floor, b}) = IF floor <= b THEN b ELSE floor
    BY <1>2, OfTwo
  <1>5. 100 * time <= 100 * best + Max({floor, a})
    BY <1>1 DEF NearBest
  <1>6. 100 * time <= 100 * worse + Max({floor, b})
    BY <1>2, <1>3, <1>4, <1>5
  <1> QED
    BY <1>1, <1>6 DEF NearBest

\* The plan p measures whom the order e names, and nobody else.
Measures(p, e, m) ==
  \A w : (\E i \in DOMAIN p : p[i].workers = w) <=> \E j \in 1 .. m : e[j] = w

LEMMA PlannedWorkers ==
  ASSUME NEW profile \in {"modules", "sharding"}, NEW m, m = Count(profile) + 1,
         NEW e, e = Ordered(profile), NEW p, p = MeasurementPlan(profile)
  PROVE  Measures(p, e, m)
  <1> SUFFICES ASSUME NEW w
               PROVE  (\E i \in DOMAIN p : p[i].workers = w) <=> \E j \in 1 .. m : e[j] = w
    BY DEF Measures
  <1>1. /\ m \in Nat /\ Warmups \in Nat /\ Repeats \in Nat \ {0}
        /\ Warmups * m \in Nat /\ Repeats * m \in Nat
    <2>1. Count(profile) \in Nat
      BY OrderedAre
    <2>2. m \in Nat /\ Warmups \in Nat /\ Repeats \in Nat \ {0} /\ Repeats \in Nat
      BY <2>1, TuningAssumption
    <2>3. Warmups * m \in Nat /\ Repeats * m \in Nat
      BY <2>2, Rounds
    <2> QED
      BY <2>2, <2>3
  <1>2. PICK before, total : before = Warmups * m /\ total = Repeats * m
    OBVIOUS
  <1>3. /\ p \in Seq(Measurements) /\ Len(p) = before + total
        /\ \A i \in 1 .. before : \E j \in 1 .. m : p[i].workers = e[j]
        /\ \A r \in 1 .. Repeats, k \in 1 .. m :
             p[before + ((r - 1) * m + k)] = [kind |-> "sample", workers |-> e[Turn(m, r, k)]]
    <2>1. /\ p \in Seq(Measurements) /\ Len(p) = Warmups * m + Repeats * m
          /\ \A i \in 1 .. Warmups * m : p[i].kind = "warmup" /\ IsNamed(p[i].workers, e, m)
          /\ \A r \in 1 .. Repeats, k \in 1 .. m :
               p[Warmups * m + ((r - 1) * m + k)] =
                 [kind |-> "sample", workers |-> e[Turn(m, r, k)]]
      BY PlanIs
    <2> QED
      BY <1>2, <2>1 DEF IsNamed
  <1>4. DOMAIN p = 1 .. before + total /\ before \in Nat /\ total \in Nat
    BY <1>1, <1>2, <1>3
  <1>5. ASSUME NEW i \in DOMAIN p, p[i].workers = w
        PROVE  \E j \in 1 .. m : e[j] = w
    <2>1. CASE i \in 1 .. before
      BY <1>3, <1>5, <2>1
    <2>2. CASE i \notin 1 .. before
      <3>1. PICK y : y = i - before
        OBVIOUS
      <3>2. y \in 1 .. total /\ i = before + y
        BY <1>4, <2>2, <3>1
      <3>3. InARound(y, Repeats, m)
        <4>1. y \in 1 .. Repeats * m /\ Repeats \in Nat
          BY <1>1, <1>2, <3>2
        <4> QED
          BY <1>1, <4>1, EveryPlaceIsInARound
      <3>4. PICK r \in 1 .. Repeats : \E k \in 1 .. m : y = (r - 1) * m + k
        BY <3>3 DEF InARound
      <3>5. PICK k \in 1 .. m : y = (r - 1) * m + k
        BY <3>4
      <3>6. p[before + ((r - 1) * m + k)] = [kind |-> "sample", workers |-> e[Turn(m, r, k)]]
        BY <1>3
      <3>7. w = e[Turn(m, r, k)]
        BY <1>5, <3>2, <3>5, <3>6
      <3>8. Turn(m, r, k) \in 1 .. m
        <4>1. r \in Nat
          BY <1>1
        <4> QED
          BY <1>1, <4>1, Turns
      <3> QED
        BY <3>7, <3>8
    <2> QED
      BY <2>1, <2>2
  <1>6. ASSUME NEW j \in 1 .. m, e[j] = w
        PROVE  \E i \in DOMAIN p : p[i].workers = w
    <2>1. PICK one : one = 1
      OBVIOUS
    <2>2. one \in 1 .. Repeats /\ Turn(m, one, j) = j
      BY <1>1, <2>1 DEF Turn
    <2>3. PICK i : i = before + ((one - 1) * m + j)
      OBVIOUS
    <2>4. p[i] = [kind |-> "sample", workers |-> e[Turn(m, one, j)]]
      BY <1>3, <2>2, <2>3
    <2>5. (one - 1) * m + j \in 1 .. Repeats * m
      <3>1. Repeats \in Nat
        BY <1>1
      <3> QED
        BY <1>1, <2>2, <3>1, PlacesOfRounds
    <2>6. i \in DOMAIN p
      <3>1. PICK y : y = (one - 1) * m + j
        OBVIOUS
      <3> QED
        BY <1>2, <1>4, <2>3, <2>5, <3>1
    <2> QED
      BY <1>6, <2>2, <2>4, <2>6
  <1> QED
    BY <1>5, <1>6

\* What is recommended is near every candidate's median.
Recommends(w, profile) ==
  /\ w \in Chosen(profile)
  /\ \A v \in Chosen(profile) :
       NearBest(Median(Times[profile].samples[w]), Median(Times[profile].samples[v]))

LEMMA RecommendationIs ==
  ASSUME Profile \in {"modules", "sharding"}, plan = MeasurementPlan(Profile)
  PROVE  Recommends(Recommendation, Profile) /\ Recommendation \in Nat \ {0}
  <1>1. PICK profile : profile = Profile
    OBVIOUS
  <1>2. PICK C, most, median :
          /\ C = Chosen(profile) /\ most = Max({1, UnitCount(profile)})
          /\ median = [w \in C |-> Median(Times[profile].samples[w])]
    OBVIOUS
  <1>3. IsFiniteSet(C) /\ C # {} /\ C \in SUBSET (1 .. most) /\ most \in Nat \ {0}
    <2>1. profile \in {"modules", "sharding"}
      BY <1>1
    <2>2. IsFiniteSet(C) /\ C # {} /\ C \in SUBSET (1 .. Max({1, UnitCount(profile)}))
      BY <1>2, <2>1, ChosenAre
    <2>3. Max({1, UnitCount(profile)}) \in Nat \ {0}
      BY <2>1, UnitsAreCounted
    <2> QED
      BY <1>2, <2>2, <2>3
  <1>4. \A w \in C : median[w] \in Nat
    <2> TAKE w \in C
    <2>1. w \in 1 .. Max({1, UnitCount(profile)})
      BY <1>2, <1>3
    <2>2. Times[profile].samples[w] \in [1 .. Repeats -> Nat]
      BY <1>1, <2>1, TimesAssumption
    <2>3. Repeats \in Nat \ {0}
      BY TuningAssumption
    <2>4. Median(Times[profile].samples[w]) \in Nat
      BY <2>2, <2>3, MedianIsNumber
    <2> QED
      BY <1>2, <2>4
  <1>5. {x.workers : x \in {plan[i] : i \in DOMAIN plan}} \ {0} = C
    <2>1. ASSUME NEW w
          PROVE  w \in {x.workers : x \in {plan[i] : i \in DOMAIN plan}} \ {0} <=> w \in C
      <3>1. w \in {x.workers : x \in {plan[i] : i \in DOMAIN plan}} \ {0} <=>
              w # 0 /\ \E i \in DOMAIN plan : plan[i].workers = w
        OBVIOUS
      <3>2. PICK m, e : m = Count(profile) + 1 /\ e = Ordered(profile)
        OBVIOUS
      <3>3. profile \in {"modules", "sharding"} /\ plan = MeasurementPlan(profile)
        BY <1>1
      <3>4. Measures(plan, e, m)
        BY <3>2, <3>3, PlannedWorkers
      <3>5. \A v : v \in Chosen(profile) <=> v # 0 /\ IsNamed(v, e, m)
        BY <3>2, <3>3, OrderedAre
      <3> QED
        BY <1>2, <3>1, <3>4, <3>5 DEF Measures, IsNamed
    <2> QED
      BY <2>1
  <1>6. PICK best, near : /\ best = Min(Held(median, C))
                          /\ near = {w \in C : NearBest(median[w], best)}
    OBVIOUS
  <1>7. Recommendation = Min(near)
    <2>1. Held(median, C) = {Median(Times[profile].samples[w]) : w \in C}
      BY <1>2 DEF Held
    <2>2. near = {w \in C : NearBest(Median(Times[profile].samples[w]), best)}
      BY <1>2, <1>6
    <2>3. PICK M : M = {x.workers : x \in {plan[i] : i \in DOMAIN plan}} \ {0}
      OBVIOUS
    <2>4. Recommendation =
            Min({w \in M : NearBest(Median(Times[Profile].samples[w]),
                                    Min({Median(Times[Profile].samples[v]) : v \in M}))})
      BY <2>3 DEF Recommendation
    <2>5. Recommendation =
            Min({w \in C : NearBest(Median(Times[profile].samples[w]),
                                    Min({Median(Times[profile].samples[v]) : v \in C}))})
      BY <1>1, <1>5, <2>3, <2>4
    <2> QED
      BY <1>6, <2>1, <2>2, <2>5
  <1>8. best \in Nat /\ (\E w \in C : median[w] = best) /\ \A w \in C : best <= median[w]
    <2>1. Held(median, C) \in SUBSET Int /\ Held(median, C) # {}
      <3>1. \A x \in Held(median, C) : x \in Int
        BY <1>4 DEF Held
      <3>2. PICK w \in C : TRUE
        BY <1>3
      <3>3. median[w] \in Held(median, C)
        BY DEF Held
      <3> QED
        BY <3>1, <3>3
    <2>2. IsFiniteSet(Held(median, C))
      BY <1>3, HeldAreFinite
    <2>3. best \in Held(median, C) /\ \A x \in Held(median, C) : best <= x
      BY <1>6, <2>1, <2>2, MinOf
    <2> QED
      BY <1>4, <2>3 DEF Held
  <1>9. Recommendation \in near
    <2>1. near \in SUBSET Int /\ IsFiniteSet(near)
      <3>1. near \in SUBSET C /\ C \in SUBSET Int
        BY <1>3, <1>6
      <3> QED
        BY <1>3, <3>1, FS_Subset
    <2>2. near # {}
      <3>1. PICK w \in C : median[w] = best
        BY <1>8
      <3>2. NearBest(best, best)
        BY <1>8, BestIsNearBest
      <3> QED
        BY <1>6, <3>1, <3>2
    <2> QED
      BY <1>7, <2>1, <2>2, MinOf
  <1>10. Recommendation \in C /\ NearBest(median[Recommendation], best)
    BY <1>6, <1>9
  <1>11. ASSUME NEW v \in C
         PROVE  NearBest(median[Recommendation], median[v])
    <2>1. PICK time, worse : time = median[Recommendation] /\ worse = median[v]
      OBVIOUS
    <2>2. time \in Nat /\ worse \in Nat /\ best <= worse /\ NearBest(time, best)
      BY <1>4, <1>8, <1>10, <2>1
    <2>3. NearBest(time, worse)
      BY <1>8, <2>2, NearBestOfWorse
    <2> QED
      BY <2>1, <2>3
  <1> QED
    BY <1>1, <1>2, <1>3, <1>10, <1>11 DEF Recommends

-----------------------------------------------------------------------------
(***************************************************************************)
(* The measurements follow the plan.                                       *)
(***************************************************************************)
\* Nothing about the plan changes with what others do.
LEMMA PlannedStays ==
  ASSUME PlannedInv, UNCHANGED <<plan, ran, recommended, override, loaded>>,
         pc' \in {"load", "measure", "recommend"} => pc' = pc
  PROVE  PlannedInv'
  <1>1. /\ MeasurementPlan(Profile)' = MeasurementPlan(Profile)
        /\ Recommendation' = Recommendation
    BY DEF MeasurementPlan, SelectedCandidates, Profile, Recommendation
  <1>2. \A i : AsPlanned(i, plan)' <=> AsPlanned(i, plan)
    BY DEF AsPlanned
  <1> QED
    BY <1>1, <1>2 DEF PlannedInv

LEMMA PlannedInvStep ==
  ASSUME Inv, PlannedInv, [Next]_vars
  PROVE  PlannedInv'
  <1>0. MeasuredInv
    BY DEF Inv
  <1>1. CASE LoadConfig
    <2>1. /\ pc = "load" /\ pc' \notin {"load", "measure", "recommend"}
          /\ UNCHANGED <<plan, ran, recommended>>
      BY <1>1 DEF LoadConfig, Session
    <2>2. plan = << >> /\ ran = << >> /\ recommended = 0
      BY <1>0, <2>1 DEF MeasuredInv, PlannedInv
    <2>3. Len(ran) = 0 /\ DOMAIN ran = {}
      BY <2>2
    <2> QED
      BY <2>1, <2>2, <2>3 DEF PlannedInv
  <1>2. CASE Fingerprint
    <2>1. /\ pc = "fingerprint" /\ pc' = "measure"
          /\ UNCHANGED <<plan, ran, recommended, override, loaded>>
      BY <1>2 DEF Fingerprint, Session, commandLine
    <2>2. ran = << >> /\ recommended = 0
      BY <1>0, <2>1 DEF MeasuredInv
    <2>3. Len(ran) = 0 /\ DOMAIN ran = {}
      BY <2>2
    <2>4. MeasurementPlan(Profile)' = MeasurementPlan(Profile)
      BY <2>1 DEF MeasurementPlan, SelectedCandidates, Profile
    <2> QED
      BY <2>1, <2>2, <2>3, <2>4 DEF PlannedInv
  <1>3. CASE MeasureNative \/ MeasurePytest
    <2> DEFINE new == [kind |-> Following.kind, workers |-> Following.workers,
                       sources |-> sources, outcome |-> "unknown"]
    <2>1. /\ pc = "measure" /\ pc' = "running" /\ ran' = Append(ran, new)
          /\ UNCHANGED <<plan, recommended, override, loaded>>
      BY <1>3 DEF MeasureNative, MeasurePytest, Measure, commandLine
    <2>2. new.kind = Following.kind /\ new.workers = Following.workers
      OBVIOUS
    <2> HIDE DEF new
    <2>3. IsSequence(ran) /\ recommended = 0
      BY <1>0, <2>1 DEF MeasuredInv
    <2>4. Extended(ran, new, ran')
      BY <2>1, <2>3, OneMore
    <2>5. MeasurementPlan(Profile)' = MeasurementPlan(Profile)
      BY <2>1 DEF MeasurementPlan, SelectedCandidates, Profile
    <2>6. Len(ran') > 1 => ran # << >> /\ plan = MeasurementPlan(Profile)
      <3>1. Len(ran') > 1 => Len(ran) # 0
        BY <2>4 DEF Extended
      <3>2. Len(ran) # 0 => ran # << >>
        OBVIOUS
      <3> QED
        BY <2>1, <3>1, <3>2 DEF PlannedInv
    <2>7. ran'[1].kind = "probe"
      <3>1. CASE ran = << >>
        <4>1. Len(ran) = 0 /\ Following = Probe
          BY <3>1 DEF Following
        <4>2. Len(ran') = 1 /\ 1 \in DOMAIN ran'
          BY <2>4, <4>1 DEF Extended
        <4> QED
          BY <2>2, <2>4, <4>1, <4>2 DEF Extended, Probe
      <3>2. CASE ran # << >>
        <4>1. Len(ran) # 0
          BY <2>3, <3>2 DEF IsSequence
        <4>2. 1 \in DOMAIN ran' /\ 1 # Len(ran')
          BY <2>4, <4>1 DEF Extended
        <4> QED
          BY <2>4, <3>2, <4>2 DEF Extended, PlannedInv
      <3> QED
        BY <3>1, <3>2
    <2>8. ASSUME NEW i \in DOMAIN ran', i > 1
          PROVE  AsPlanned(i, plan)'
      <3>1. CASE i = Len(ran')
        <4>1. Len(ran) = i - 1 /\ ran # << >>
          BY <2>4, <2>6, <2>8, <3>1 DEF Extended
        <4>2. Following = plan[i - 1]
          BY <4>1 DEF Following
        <4> QED
          BY <2>1, <2>2, <2>4, <3>1, <4>2 DEF Extended, AsPlanned
      <3>2. CASE i # Len(ran')
        <4>1. i \in DOMAIN ran /\ ran'[i] = ran[i]
          BY <2>4, <3>2 DEF Extended
        <4> QED
          BY <2>1, <2>8, <4>1 DEF PlannedInv, AsPlanned
      <3> QED
        BY <3>1, <3>2
    <2> QED
      BY <2>1, <2>3, <2>5, <2>6, <2>7, <2>8 DEF PlannedInv
  <1>4. CASE Judge
    <2>1. PICK outcome \in {"same", "different", "red"} :
            /\ ran' = [ran EXCEPT ![Len(ran)].outcome = outcome]
            /\ plan' = IF plan = << >> THEN MeasurementPlan(Profile) ELSE plan
            /\ pc = "judge"
            /\ pc' \in {"failed", "measure", "recommend"}
            /\ pc' = "recommend" => Len(ran) = Len(plan') + 1
            /\ UNCHANGED <<recommended, override, loaded>>
      <3>0. PICK measurements :
              measurements = IF plan = << >> THEN MeasurementPlan(Profile) ELSE plan
        OBVIOUS
      <3>1. PICK outcome \in {"same", "different", "red"} :
              /\ Session("judge", IF outcome # "same" THEN "failed"
                                  ELSE IF Len(ran) = Len(measurements) + 1 THEN "recommend"
                                  ELSE "measure")
              /\ ran' = [ran EXCEPT ![Len(ran)].outcome = outcome]
              /\ plan' = measurements
              /\ UNCHANGED <<recommended, loaded>>
        BY <1>4, <3>0 DEF Judge
      <3>2. /\ pc = "judge" /\ pc' \in {"failed", "measure", "recommend"}
            /\ pc' = "recommend" => Len(ran) = Len(measurements) + 1
            /\ UNCHANGED override
        BY <3>1 DEF Session, commandLine
      <3> QED
        BY <3>0, <3>1, <3>2
    <2> DEFINE last == [ran[Len(ran)] EXCEPT !.outcome = outcome]
    <2>2. ran' = [ran EXCEPT ![Len(ran)] = last]
      BY <2>1
    <2>3. last.kind = ran[Len(ran)].kind /\ last.workers = ran[Len(ran)].workers
      OBVIOUS
    <2> HIDE DEF last
    <2>4. IsSequence(ran) /\ ran # << >> /\ recommended = 0
      BY <1>0, <2>1 DEF MeasuredInv
    <2>5. Amended(ran, last, ran')
      BY <2>2, <2>4, OneChanged
    <2>6. MeasurementPlan(Profile)' = MeasurementPlan(Profile)
      BY <2>1 DEF MeasurementPlan, SelectedCandidates, Profile
    <2>7. plan' = MeasurementPlan(Profile)
      BY <2>1 DEF PlannedInv
    <2>8. \A i \in DOMAIN ran' : ran'[i].kind = ran[i].kind /\ ran'[i].workers = ran[i].workers
      BY <2>3, <2>5 DEF Amended
    <2>9. 1 \in DOMAIN ran' /\ ran'[1].kind = "probe"
      <3>1. 1 \in DOMAIN ran'
        BY <2>5 DEF Amended
      <3>2. ran[1].kind = "probe"
        BY <2>4 DEF PlannedInv
      <3> QED
        BY <2>8, <3>1, <3>2
    <2>10. ASSUME NEW i \in DOMAIN ran', i > 1
           PROVE  AsPlanned(i, plan)'
      <3>1. i \in DOMAIN ran /\ Len(ran) > 1
        BY <2>5, <2>10 DEF Amended
      <3>2. plan' = plan /\ AsPlanned(i, plan)
        BY <2>7, <2>10, <3>1 DEF PlannedInv
      <3> QED
        BY <2>8, <3>2 DEF AsPlanned
    <2>11. ran' # << >> /\ Len(ran') = Len(ran)
      BY <2>5 DEF Amended
    <2> QED
      BY <2>1, <2>4, <2>6, <2>7, <2>9, <2>10, <2>11 DEF PlannedInv
  <1>5. CASE Recommend
    <2>1. /\ pc = "recommend" /\ pc' \in {"compare", "reported"}
          /\ recommended' = Recommendation
          /\ UNCHANGED <<plan, ran, override, loaded>>
      BY <1>5 DEF Recommend, Session, commandLine
    <2>2. /\ MeasurementPlan(Profile)' = MeasurementPlan(Profile)
          /\ Recommendation' = Recommendation
      BY <2>1 DEF MeasurementPlan, SelectedCandidates, Profile, Recommendation
    <2>3. \A i : AsPlanned(i, plan)' <=> AsPlanned(i, plan)
      BY <2>1 DEF AsPlanned
    <2> QED
      BY <2>1, <2>2, <2>3 DEF PlannedInv
  <1>6. CASE ~(LoadConfig \/ Fingerprint \/ MeasureNative \/ MeasurePytest \/ Judge \/ Recommend)
    <2>1. /\ UNCHANGED <<plan, ran, recommended, override, loaded>>
          /\ pc' \in {"load", "measure", "recommend"} => pc' = pc
      BY <1>6 DEF Next, vars, ReadSnapshot, TreeStep, CommandOver, RequireUnchangedSources,
         CompareConfig, ReadConfig, KeepConfig, PrepareConfig, LastLook, RenameConfig, WriteFails,
         Edit, Session, commandLine, sessionVars
    <2> QED
      BY <2>1, PlannedStays
  <1> QED
    BY <1>1, <1>2, <1>3, <1>4, <1>5, <1>6

-----------------------------------------------------------------------------
(***************************************************************************)
(* Types.                                                                  *)
(***************************************************************************)
\* A step of the tree starts one process at most.
LEMMA BirthsAreFew ==
  ASSUME TreeInv, TreeNext
  PROVE  Cardinality(Births) \in Nat
  <1>1. ASSUME NEW child, Births \subseteq {child}
        PROVE  Cardinality(Births) \in Nat
    <2>1. IsFiniteSet({child})
      BY FS_Singleton
    <2> QED
      BY <1>1, <2>1, FS_Subset, FS_CardinalityType
  <1>2. CASE \E p, child \in Procs : Fork(p, child)
    <2>1. PICK p \in Procs, child \in Procs : Fork(p, child)
      BY <1>2
    <2>2. Births \subseteq {child}
      BY <2>1 DEF Fork, Births, TreeInv, TreeTypeOK
    <2> QED
      BY <1>1, <2>2
  <1>3. CASE \E s \in Strangers : StrangerAppears(s)
    <2>1. PICK s \in Strangers : StrangerAppears(s)
      BY <1>3
    <2>2. Births \subseteq {s}
      BY <2>1 DEF StrangerAppears, Births, TreeInv, TreeTypeOK
    <2> QED
      BY <1>1, <2>2
  <1>4. CASE Births = {}
    BY <1>1, <1>4
  <1>5. CASE \E p \in Procs : Exits(p)
    BY <1>4, <1>5 DEF Exits, Exit, Births
  <1>6. CASE KillAfterReturn \/ Terminate \/ Kill
    <2>1. ASSUME NEW owned \in BOOLEAN, NEW dies \in SUBSET Procs, NEW to, SignalTree(owned, dies, to)
          PROVE  Births = {}
      <3>1. Deaths
        BY <2>1, SignalFacts
      <3> QED
        BY <3>1 DEF Deaths, Births
    <2>2. (life[Root] = "alive") \in BOOLEAN /\ FALSE \in BOOLEAN
          /\ Procs \in SUBSET Procs /\ Procs \ Stubborn \in SUBSET Procs
      OBVIOUS
    <2> QED
      BY <1>4, <1>6, <2>1, <2>2 DEF KillAfterReturn, Terminate, Kill
  <1>7. CASE GraceEnds \/ WaitForKilled
    <2>1. Deaths
      BY <1>7, PolledFacts DEF GraceEnds, WaitForKilled
    <2> QED
      BY <1>4, <2>1 DEF Deaths, Births
  <1>8. CASE CommandReturns
    BY <1>4, <1>8 DEF CommandReturns, Births, TreeInv, TreeTypeOK
  <1>9. CASE UNCHANGED life
    BY <1>4, <1>9 DEF Births
  <1> QED
    BY <1>2, <1>3, <1>5, <1>6, <1>7, <1>8, <1>9
    DEF TreeNext, Environment, CleanUp, StartTracker, Capture, StopAfterReturn, StopsWaiting,
        InterruptedEarly, CleanupInterrupted, ListByNumber

\* No edit goes uncounted.
TypeInv ==
  /\ pc \in {"load", "snapshot", "fingerprint", "measure", "running", "check", "judge", "recommend",
             "compare", "read", "keep", "prepare", "look", "rename",
             "refused", "failed", "killed", "reported", "kept", "written"}
  /\ file \in Configs
  /\ sources \in [contents : Contents, identity : Nat] /\ sources.identity <= troubles
  /\ temporary \in BOOLEAN
  /\ troubles \in 0 .. MaxTroubles

LEMMA RecommendedIsNumber ==
  ASSUME Inv, PlannedInv
  PROVE  recommended \in Nat
  <1>1. ASSUME recommended # 0
        PROVE  recommended \in Nat
    <2>1. Profile \in {"modules", "sharding"}
      BY DEF Inv, FileInv, Profile, Configs
    <2>2. plan = MeasurementPlan(Profile) /\ recommended = Recommendation
      BY <1>1 DEF PlannedInv
    <2> QED
      BY <2>1, <2>2, RecommendationIs
  <1> QED
    BY <1>1

LEMMA TypeInvStep ==
  ASSUME Inv, PlannedInv, TypeInv, [Next]_vars
  PROVE  TypeInv'
  <1>0. TypeInv /\ recommended \in Nat /\ snapshot \in Configs
    BY RecommendedIsNumber DEF Inv, FileInv
  <1>1. CASE LoadConfig \/ ReadSnapshot \/ Fingerprint
    BY <1>0, <1>1 DEF LoadConfig, ReadSnapshot, Fingerprint, Session, TypeInv
  <1>2. CASE MeasureNative \/ MeasurePytest \/ CommandOver
    BY <1>0, <1>2 DEF MeasureNative, MeasurePytest, Measure, CommandOver, fileVars, sessionVars, TypeInv
  <1>3. CASE TreeStep
    <2>1. TreeInv
      BY DEF Inv
    <2>2. Cardinality(Births) \in Nat
      BY <1>3, <2>1, BirthsAreFew DEF TreeStep
    <2>3. PICK born : born = Cardinality(Births)
      OBVIOUS
    <2>4. /\ troubles' = troubles + born /\ troubles' <= MaxTroubles
          /\ UNCHANGED <<pc, file, sources, temporary>>
      BY <1>3, <2>3 DEF TreeStep, fileVars, sessionVars
    <2>5. troubles \in Nat /\ born \in Nat /\ MaxTroubles \in Nat /\ sources.identity \in Nat
      BY <1>0, <2>2, <2>3, TuningAssumption DEF TypeInv
    <2>6. troubles' \in 0 .. MaxTroubles /\ sources.identity <= troubles'
      BY <1>0, <2>4, <2>5 DEF TypeInv
    <2> QED
      BY <1>0, <2>4, <2>6 DEF TypeInv
  <1>4. CASE RequireUnchangedSources \/ Judge \/ Recommend
    <2>1. /\ pc' \in {"failed", "judge", "measure", "recommend", "compare", "reported"}
          /\ UNCHANGED <<file, sources, temporary, troubles>>
      <3>1. CASE RequireUnchangedSources
        BY <3>1 DEF RequireUnchangedSources, Session, sessionVars
      <3>2. CASE Judge
        BY <3>2 DEF Judge, Session
      <3>3. CASE Recommend
        BY <3>3 DEF Recommend, Session
      <3> QED
        BY <1>4, <3>1, <3>2, <3>3
    <2> QED
      BY <1>0, <2>1 DEF TypeInv
  <1>5. CASE CompareConfig \/ ReadConfig \/ KeepConfig
    BY <1>0, <1>5 DEF CompareConfig, ReadConfig, KeepConfig, Session, sessionVars, TypeInv
  <1>6. CASE PrepareConfig \/ LastLook \/ WriteFails
    BY <1>0, <1>6 DEF PrepareConfig, LastLook, WriteFails, Session, TypeInv
  <1>7. CASE RenameConfig
    <2>1. Updated \in Configs
      BY <1>0 DEF Updated, Configs
    <2> QED
      BY <1>0, <1>7, <2>1 DEF RenameConfig, Session, TypeInv
  <1>8. CASE Edit
    <2>1. troubles < MaxTroubles /\ troubles' = troubles + 1 /\ UNCHANGED <<pc, temporary>>
      BY <1>8 DEF Edit, sessionVars
    <2>2. troubles' \in 0 .. MaxTroubles
      BY <1>0, <2>1, TuningAssumption DEF TypeInv
    <2>3. CASE EditConfig
      BY <1>0, <2>1, <2>2, <2>3, TuningAssumption DEF EditConfig, TypeInv
    <2>4. CASE EditSources
      <3>1. PICK contents \in Contents :
              sources' = [contents |-> contents, identity |-> sources.identity + 1]
        BY <2>4 DEF EditSources
      <3>2. /\ sources' \in [contents : Contents, identity : Nat]
            /\ sources'.identity <= troubles'
        BY <1>0, <2>1, <3>1 DEF TypeInv
      <3> QED
        BY <1>0, <2>1, <2>2, <2>4, <3>2 DEF EditSources, TypeInv
    <2> QED
      BY <1>8, <2>3, <2>4 DEF Edit
  <1>9. CASE UNCHANGED vars
    BY <1>0, <1>9 DEF vars, fileVars, sessionVars, TypeInv
  <1> QED
    BY <1>1, <1>2, <1>3, <1>4, <1>5, <1>6, <1>7, <1>8, <1>9 DEF Next

-----------------------------------------------------------------------------
(***************************************************************************)
(* The theorems.                                                           *)
(***************************************************************************)
LEMMA Starts == ASSUME Init PROVE Inv
  <1>1. TreeInv
    BY TreeStarts DEF Init
  <1>2. InStep
    BY DEF Init, TreeInit, InStep
  <1>3. FileInv
    BY TuningAssumption DEF Init, FileInv
  <1>4. SourcesInv
    BY TuningAssumption DEF Init, SourcesInv, NoLater
  <1>5. MeasuredInv
    BY DEF Init, MeasuredInv, IsSequence
  <1> QED
    BY <1>1, <1>2, <1>3, <1>4, <1>5 DEF Inv

\* The inductive invariant: the process tree, the configuration and the
\* measurements together, through every order of steps and edits.
THEOREM Invariance == Spec => []Inv
  <1>1. Init => Inv
    BY Starts
  <1>2. Inv /\ [Next]_vars => Inv'
    BY TreeInvStep, FileInvStep, SourcesInvStep, MeasuredInvStep DEF Inv
  <1> QED
    BY <1>1, <1>2, PTL DEF Spec

\* Whatever was measured was measured as planned, from the probe on, and what is
\* recommended is what run_tuning derives from the whole plan.
THEOREM MeasuredAsPlanned == Spec => []PlannedInv
  <1>1. Init => PlannedInv
    BY DEF Init, PlannedInv
  <1>2. Inv /\ PlannedInv /\ [Next]_vars => PlannedInv'
    BY PlannedInvStep
  <1> QED
    BY <1>1, <1>2, Invariance, PTL DEF Spec

\* Every variable keeps its type: with the invariants above, no recommendation is
\* anything but a number, and the file stays a configuration when it is written.
THEOREM TypeCorrect == Spec => []TypeOK
  <1>1. Init => TypeInv
    <2> SUFFICES ASSUME Init PROVE TypeInv
      OBVIOUS
    <2>1. PICK content : content = CHOOSE c \in Contents : TRUE
      OBVIOUS
    <2>2. content \in Contents
      BY <2>1, TuningAssumption
    <2>3. /\ sources = [contents |-> content, identity |-> 0]
          /\ pc = "load" /\ file = InitialFile /\ temporary = FALSE /\ troubles = 0
      BY <2>1 DEF Init
    <2>4. sources \in [contents : Contents, identity : Nat] /\ sources.identity = 0
      BY <2>2, <2>3
    <2>5. file \in Configs /\ 0 <= 0 /\ 0 \in 0 .. MaxTroubles
      BY <2>3, TuningAssumption
    <2> QED
      BY <2>3, <2>4, <2>5 DEF TypeInv
  <1>2. Inv /\ PlannedInv /\ TypeInv /\ [Next]_vars => TypeInv'
    BY TypeInvStep
  <1>3. Inv /\ PlannedInv /\ TypeInv => TypeOK
    <2> SUFFICES ASSUME Inv, PlannedInv, TypeInv
                 PROVE  TypeOK
      OBVIOUS
    <2>1. TreeTypeOK /\ (stage = "idle" <=> pc # "running") /\ {loaded, snapshot} \subseteq Configs
      BY DEF Inv, TreeInv, InStep, FileInv
    <2>2. {sources, fingerprint} \subseteq [contents : Contents, identity : 0 .. MaxTroubles]
      <3>1. /\ {sources, fingerprint} \subseteq [contents : Contents, identity : Nat]
            /\ fingerprint.identity <= sources.identity
            /\ sources.identity <= troubles /\ troubles \in 0 .. MaxTroubles /\ MaxTroubles \in Nat
        BY TuningAssumption DEF Inv, SourcesInv, NoLater, TypeInv
      <3> QED
        BY <3>1
    <2>3. recommended \in Nat
      BY RecommendedIsNumber
    <2> QED
      BY <2>1, <2>2, <2>3 DEF TypeOK, TypeInv
  <1> QED
    BY <1>1, <1>2, <1>3, Invariance, MeasuredAsPlanned, PTL DEF Spec

\* The variables of the process tree keep their types, and no two processes that
\* exist have the same number (tuning.py: the identities of _PosixTreeTracker).
THEOREM TreeTypeCorrect == Spec => []TreeTypeOK
  <1>1. Inv => TreeTypeOK
    BY DEF Inv, TreeInv
  <1> QED
    BY <1>1, Invariance, PTL

\* When _run_bounded_process returns or raises, the command and all descendants that
\* cleanup has seen are gone, unless an exception came before the cleanup was done;
\* however processes start and end meanwhile.
THEOREM CleanedUp == Spec => []ObservedAreCleanedUp
  <1>1. Inv => ObservedAreCleanedUp
    BY DEF Inv, TreeInv, RootAt, Tracked, Done, ObservedAreCleanedUp
  <1> QED
    BY <1>1, Invariance, PTL

LEMMA ComparableByInv == ASSUME Inv PROVE Comparable
  <1>1. ASSUME recommended # 0, NEW i \in DOMAIN ran
        PROVE  ran[i].sources = ran[1].sources /\ ran[i].outcome = "same"
    <2>1. IsSequence(ran) /\ \A j \in DOMAIN ran : Good(j)
      BY <1>1 DEF Inv, MeasuredInv
    <2>2. 1 \in DOMAIN ran
      BY <1>1, <2>1 DEF IsSequence
    <2> QED
      BY <1>1, <2>1, <2>2 DEF Good
  <1> QED
    BY <1>1 DEF Comparable

\* A recommendation rests on measurements of the very same sources, each as green
\* as the probe (_require_unchanged_sources, _require_matching): the first part of
\* RecommendationIsEarned.
THEOREM MeasurementsAreComparable == Spec => []Comparable
  BY Invariance, ComparableByInv, PTL

\* A recommendation is made of the whole plan, measured in its order.
LEMMA RecommendedIsFollowed ==
  ASSUME Inv, PlannedInv, recommended # 0
  PROVE  /\ Profile \in {"modules", "sharding"}
         /\ plan = MeasurementPlan(Profile) /\ Followed(ran, plan)
         /\ recommended = Recommendation
  <1>1. Profile \in {"modules", "sharding"}
    BY DEF Inv, FileInv, Profile, Configs
  <1>2. plan = MeasurementPlan(Profile) /\ Len(ran) = Len(plan) + 1 /\ recommended = Recommendation
    BY DEF PlannedInv
  <1>3. IsSequence(ran)
    BY DEF Inv, MeasuredInv
  <1>4. DOMAIN ran = 1 .. Len(plan) + 1 /\ Len(plan) \in Nat
    <2>1. DOMAIN ran = 1 .. Len(ran)
      BY <1>3 DEF IsSequence
    <2>2. plan \in Seq(Measurements)
      BY <1>1, <1>2, PlanIs
    <2> QED
      BY <1>2, <2>1, <2>2
  <1>5. ran # << >>
    <2>1. 1 \in DOMAIN ran
      BY <1>4
    <2> QED
      BY <2>1
  <1>6. Followed(ran, plan)
    BY <1>4, <1>5 DEF PlannedInv, AsPlanned, Followed
  <1> QED
    BY <1>1, <1>2, <1>6

\* A recommendation is earned, for any suite, cost model, candidates, rounds and
\* times: the measurements are comparable, each of the candidates and pytest has all
\* its samples and precedes each other in half of the rounds, and no candidate's
\* median is better than the recommended one's by more than the tolerance (run_tuning).
THEOREM RecommendationsAreEarned == Spec => []RecommendationIsEarned
  <1>1. ASSUME Inv, PlannedInv, recommended # 0
        PROVE  LET measured == {ran[i].workers : i \in DOMAIN ran \ {1}} IN
               /\ \A w \in measured : Len(Taken(w)) = Repeats
               /\ \A w, v \in measured : w # v => 2 * Ahead(w, v) \in Repeats - 1 .. Repeats + 1
               /\ \A w \in measured \ {0} :
                    NearBest(Median(Times[Profile].samples[recommended]),
                             Median(Times[Profile].samples[w]))
    <2>0. /\ Profile \in {"modules", "sharding"}
          /\ plan = MeasurementPlan(Profile) /\ Followed(ran, plan)
          /\ recommended = Recommendation
      BY <1>1, RecommendedIsFollowed
    <2>1. PICK profile, m, e, measured :
            /\ profile = Profile /\ m = Count(profile) + 1 /\ e = Ordered(profile)
            /\ measured = {ran[i].workers : i \in DOMAIN ran \ {1}}
      OBVIOUS
    <2>2. /\ profile \in {"modules", "sharding"} /\ plan = MeasurementPlan(profile)
          /\ Followed(ran, MeasurementPlan(profile))
      BY <2>0, <2>1
    <2>3. ASSUME NEW w \in measured
          PROVE  \E j \in 1 .. m : w = e[j]
      <3>1. Measures(plan, e, m)
        BY <2>1, <2>2, PlannedWorkers
      <3>2. PICK i \in DOMAIN ran \ {1} : w = ran[i].workers
        BY <2>1
      <3>3. /\ DOMAIN ran = 1 .. Len(plan) + 1
            /\ \A k \in 2 .. Len(plan) + 1 : ran[k].workers = plan[k - 1].workers
        BY <2>0 DEF Followed
      <3>4. plan \in Seq(Measurements)
        BY <2>2, PlanIs
      <3>5. i \in 2 .. Len(plan) + 1 /\ i - 1 \in DOMAIN plan
        BY <3>3, <3>4
      <3> QED
        BY <3>1, <3>2, <3>3, <3>5 DEF Measures
    <2>4. ASSUME NEW w \in measured
          PROVE  Len(Taken(w)) = Repeats
      <3>1. PICK j \in 1 .. m : w = e[j]
        BY <2>3
      <3>2. Taken(e[j]) = [r \in 1 .. Repeats |-> At(m, r, j)] /\ Len(Taken(e[j])) = Repeats
        BY <2>1, <2>2, TakenIs
      <3> QED
        BY <3>1, <3>2
    <2>5. ASSUME NEW w \in measured, NEW v \in measured, w # v
          PROVE  2 * Ahead(w, v) \in Repeats - 1 .. Repeats + 1
      <3>1. PICK i \in 1 .. m, j \in 1 .. m : w = e[i] /\ v = e[j]
        BY <2>3
      <3>2. i # j
        BY <2>5, <3>1
      <3>3. 2 * Ahead(e[i], e[j]) \in Repeats - 1 .. Repeats + 1
        BY <2>1, <2>2, <3>2, AheadIsHalf
      <3> QED
        BY <3>1, <3>3
    <2>6. ASSUME NEW w \in measured \ {0}
          PROVE  NearBest(Median(Times[profile].samples[recommended]),
                          Median(Times[profile].samples[w]))
      <3>1. IsNamed(w, e, m)
        BY <2>3 DEF IsNamed
      <3>2. \A x : x \in Chosen(profile) <=> x # 0 /\ IsNamed(x, e, m)
        BY <2>1, <2>2, OrderedAre
      <3>3. w \in Chosen(profile)
        BY <3>1, <3>2
      <3>4. Recommends(recommended, profile)
        BY <2>0, <2>1, RecommendationIs
      <3> QED
        BY <3>3, <3>4 DEF Recommends
    <2> QED
      BY <2>1, <2>4, <2>5, <2>6
  <1>2. Inv /\ PlannedInv => RecommendationIsEarned
    BY <1>1, ComparableByInv DEF RecommendationIsEarned
  <1> QED
    BY <1>2, Invariance, MeasuredAsPlanned, PTL

\* A stranger in an addressed group shares it with a target, a stranger too.
LEMMA AddressedWithStrangers ==
  ASSUME TreeInv, NEW owned \in BOOLEAN, NEW p \in Strangers, p \in Addressed(owned)
  PROVE  \E q \in targets \intersect Strangers : group[q] = group[p]
  <1>1. p \in Procs /\ group[p] \in Strangers
    BY DEF Procs, TreeInv, Sides
  <1>2. PICK q \in targets : group[q] = group[p]
    BY <1>1, RootIsOwn DEF Addressed
  <1>3. q \in Strangers
    BY <1>1, <1>2 DEF TreeInv, TreeTypeOK, Sides
  <1> QED
    BY <1>2, <1>3

\* Signals are sent by three steps and no other.
LEMMA SignalsSent ==
  ASSUME TreeInv, TreeNext, NEW p \in Strangers, p \in signalled' \ signalled
  PROVE  \E q \in targets \intersect Strangers : group[q] = group[p]
  <1>1. ASSUME NEW owned \in BOOLEAN, NEW dies, NEW to, SignalTree(owned, dies, to)
        PROVE  \E q \in targets \intersect Strangers : group[q] = group[p]
    BY <1>1, AddressedWithStrangers DEF SignalTree
  <1>2. CASE KillAfterReturn \/ Terminate \/ Kill
    BY <1>1, <1>2 DEF KillAfterReturn, Terminate, Kill
  <1>3. CASE Environment
    BY <1>3 DEF Environment, Fork, StrangerAppears, Exits
  <1>4. CASE ~(KillAfterReturn \/ Terminate \/ Kill \/ Environment)
    BY <1>4 DEF TreeNext, StartTracker, Capture, CleanUp, CommandReturns, StopAfterReturn,
       StopsWaiting, InterruptedEarly, ListByNumber, GraceEnds, WaitForKilled,
       CleanupInterrupted
  <1> QED
    BY <1>2, <1>3, <1>4

\* Targets are added when the tracker stops, which sees our processes only, and by
\* the listings.
LEMMA TargetsAdded ==
  ASSUME TreeInv, TreeNext, NEW p \in Strangers, p \in targets' \ targets
  PROVE  life[Root] = "dead" /\ p \in Heirs
  <1>1. CASE StopAfterReturn \/ StopsWaiting
    <2>1. p \in Captured
      BY <1>1 DEF StopAfterReturn, StopsWaiting, StopTracker
    <2> QED
      BY <2>1, CapturedIsOwn DEF Own
  <1>2. CASE ListByNumber("listing", "terminating") \/ ListByNumber("listing-again", "killing")
    <2>1. p \in Descendants(Holders(pid[Root])) /\ stage # "idle"
      BY <1>2 DEF ListByNumber
    <2>2. ~Exists(Root) /\ p \in Heirs
      BY <2>1, ListedAreOwnOrHeirs
    <2> QED
      BY <2>1, <2>2, RootIsOwn DEF TreeInv, TreeTypeOK, RootAt, Exists
  <1>3. CASE UNCHANGED targets
    BY <1>3
  <1> QED
    BY <1>1, <1>2, <1>3 DEF TreeNext, Environment, Fork, StrangerAppears, Exits, StartTracker,
       Capture, CleanUp, CommandReturns, InterruptedEarly, GraceEnds, WaitForKilled,
       CleanupInterrupted, KillAfterReturn, Terminate, Kill, SignalTree

\* No process of others is signalled, but for the heirs to the command's number and
\* their groups: for any number of processes, however they start, end, and take
\* over each other's numbers (_posix_signal_tree).
THEOREM OthersAreSpared == Spec => StrangersAreSpared
  <1> DEFINE Step(p) ==
        /\ p \in targets' \ targets => life[Root] = "dead" /\ p \in Heirs
        /\ p \in signalled' \ signalled =>
             \E q \in targets \intersect Strangers : group[q] = group[p]
  <1>1. ASSUME Inv, [Next]_vars, NEW p \in Strangers
        PROVE  Step(p)
    <2>1. TreeInv
      BY <1>1 DEF Inv
    <2>2. CASE TreeNext
      BY <1>1, <2>1, <2>2, SignalsSent, TargetsAdded
    <2>3. CASE ~TreeNext
      BY <1>1, <2>3, SessionAndTree DEF treeVars, Launch, Leave, Renew
    <2> QED
      BY <2>2, <2>3
  <1>2. Inv /\ [Next]_vars =>
          [\A p \in Strangers :
             /\ p \in targets' \ targets => life[Root] = "dead" /\ p \in Heirs
             /\ p \in signalled' \ signalled =>
                  \E q \in targets \intersect Strangers : group[q] = group[p]]_treeVars
    BY <1>1
  <1> QED
    BY <1>2, Invariance, PTL DEF Spec, StrangersAreSpared

\* The configuration file is changed by --write alone, in the number of workers
\* alone, and only while it is the file that was measured for; but for the two
\* windows that WrittenAsMeasured names (write_worker_recommendation).
Written ==
  /\ file' # file => pc' = pc \/ (write /\ pc' = "written")
  /\ pc # pc' /\ pc' \in {"written", "kept"} /\ "rename" \notin editedAt =>
       /\ file' = [file EXCEPT !.workers = recommended]
       /\ file'.profile = Profile \/ "snapshot" \in editedAt

THEOREM FileWrittenAsMeasured == Spec => WrittenAsMeasured
  <1>1. ASSUME Inv, [Next]_vars
        PROVE  Written
    <2>0. FileInv
      BY <1>1 DEF Inv
    <2>1. CASE RenameConfig
      <3>1. /\ pc = "rename" /\ pc' = "written" /\ file' = Updated
            /\ UNCHANGED <<editedAt, commandLine, loaded, snapshot, recommended>>
        BY <2>1 DEF RenameConfig, Session
      <3>2. write /\ (file = snapshot \/ "rename" \in editedAt)
        BY <2>0, <3>1 DEF FileInv
      <3>3. snapshot.profile = Profile \/ "snapshot" \in editedAt
        BY <2>0, <3>1, <3>2 DEF FileInv, Profile
      <3>4. Updated.profile = snapshot.profile
        BY <2>0 DEF FileInv, Updated, Configs
      <3> QED
        BY <3>1, <3>2, <3>3, <3>4 DEF Written, Updated
    <2>2. CASE KeepConfig
      <3>1. /\ pc = "keep" /\ pc' = IF file = snapshot THEN "kept" ELSE "failed"
            /\ UNCHANGED <<file, editedAt, commandLine, loaded, snapshot, recommended>>
        BY <2>2 DEF KeepConfig, Session, sessionVars
      <3>2. write /\ Updated = snapshot
        BY <2>0, <3>1 DEF FileInv
      <3>3. snapshot.profile = Profile \/ "snapshot" \in editedAt
        BY <2>0, <3>1, <3>2 DEF FileInv, Profile
      <3> QED
        BY <3>1, <3>2, <3>3 DEF Written, Updated
    <2>3. CASE Edit \/ UNCHANGED vars
      BY <2>3 DEF Edit, vars, Written, fileVars
    <2>4. CASE ~(RenameConfig \/ KeepConfig \/ Edit \/ UNCHANGED vars)
      <3>1. file' = file /\ pc' \notin {"written", "kept"}
        BY <1>1, <2>4 DEF Next, vars, LoadConfig, ReadSnapshot, Fingerprint, MeasureNative,
           MeasurePytest, Measure, TreeStep, CommandOver, RequireUnchangedSources, Judge,
           Recommend, CompareConfig, ReadConfig, PrepareConfig, LastLook, WriteFails, Session,
           fileVars
      <3> QED
        BY <3>1 DEF Written
    <2> QED
      BY <2>1, <2>2, <2>3, <2>4
  <1>2. Inv /\ [Next]_vars =>
          [/\ file' # file => pc' = pc \/ (write /\ pc' = "written")
           /\ pc # pc' /\ pc' \in {"written", "kept"} /\ "rename" \notin editedAt =>
                /\ file' = [file EXCEPT !.workers = recommended]
                /\ file'.profile = Profile \/ "snapshot" \in editedAt]_vars
    BY <1>1 DEF Written
  <1> QED
    BY <1>2, Invariance, PTL DEF Spec, WrittenAsMeasured
=============================================================================
