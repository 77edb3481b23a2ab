-------------------------- MODULE MigrationProofs --------------------------
(***************************************************************************)
(* Proofs about migrations, for any set of processes, any number of files  *)
(* and any number of edits and faults.                                     *)
(***************************************************************************)
EXTENDS Migration, SequenceTheorems, TLAPS

-----------------------------------------------------------------------------
(***************************************************************************)
(* Types.                                                                  *)
(***************************************************************************)

\* The types of TypeOK, by name.
Results == [status : Reported \union {"none"}, modified : BOOLEAN,
            published : BOOLEAN]

Payloads == {"none", "empty", "partial", "whole", "moved"}

Verdicts == Reported \union {"none", "CHANGED", "INTERRUPTED"}

\* Types of what is shared, ...
World ==
  /\ history \in Seq([1..Files -> Nat]) /\ history # << >>
  /\ output \in Owners /\ whole \in BOOLEAN
  /\ lock \in Migrations \union {Absent}
  /\ reports \in [Paths -> Owners]
  /\ acts \in Nat /\ faults \in Nat /\ acts + faults <= MaxTroubles

\* ... of what each migration has of its own, ...
Own ==
  /\ spoiled \in SUBSET (Migrations \X Doings)
  /\ pc \in [Migrations -> Places]
  /\ staged \in [Migrations -> Payloads]
  /\ verdict \in [Migrations -> Verdicts]
  /\ result \in [Migrations -> Results]
  /\ exit \in [Migrations -> {Running, 0, 1, 2, 3, 4, 130}]

\* ... and of what it has read: every scan has the length of the suite.
Scans ==
  /\ read \in [Migrations -> Seq(Nat)]
  /\ snapshot \in [Migrations -> Seq(Nat)]
  /\ ran \in [Migrations -> Seq(Seq(Nat))]
  /\ \A m \in Migrations :
       /\ Len(read[m]) < Files /\ Len(snapshot[m]) \in {0, Files}
       /\ Len(ran[m]) <= 3

\* How a publication may end.
Ends == {"PUBLISHED", "CHANGED", "SAFETY_ERROR", "INTERRUPTED"}

\* What the place of a migration says of its variables: the report, or the
\* verdict, that is about to be used is there, and no fourth validation run.
Shape(m) ==
  /\ pc[m] \in {"starting", "preflight", "snapshotting"} => ran[m] = << >>
  /\ pc[m] = "copying" => Len(ran[m]) <= 2
  /\ pc[m] \in {"reporting", "linking"} => result[m].status \in Reported
  /\ pc[m] \in {"unlocking", "cleaning"} => verdict[m] \in Ends
  /\ pc[m] = "refusing" => verdict[m] \in Reported

Shapes == \A m \in Migrations : Shape(m)

\* The strengthening of TypeOK that every proof of this module starts from.
TypeInv == World /\ Own /\ Scans /\ Shapes

\* TypeOK is the part of TypeInv that is about types alone.
LEMMA TypeParts == TypeOK <=> World /\ Own /\ Scans
  BY DEF TypeOK, World, Own, Scans, Results, Verdicts, Payloads

\* A step leaves all that n has of its own.
Same(n) ==
  /\ pc'[n] = pc[n] /\ read'[n] = read[n] /\ snapshot'[n] = snapshot[n]
  /\ ran'[n] = ran[n] /\ staged'[n] = staged[n] /\ verdict'[n] = verdict[n]
  /\ result'[n] = result[n] /\ exit'[n] = exit[n]
  /\ \A doing \in Doings : <<n, doing>> \in spoiled' <=> <<n, doing>> \in spoiled

\* The shape of the others is kept by a step of m.
LEMMA Framed ==
  ASSUME Shapes, NEW m \in Migrations,
         \A n \in Migrations \ {m} : Same(n), Shape(m)'
  PROVE  Shapes'
  BY DEF Same, Shapes, Shape

\* A validation run that is not the last is at most the second.
LEMMA Below ==
  ASSUME NEW k \in Nat, k <= 2, k # 2
  PROVE  k + 1 <= 2
  OBVIOUS

\* The sources always have a present version.
LEMMA SourceType ==
  ASSUME World
  PROVE  source \in [1..Files -> Nat]
  BY DEF World, source

\* A finished scan has a version of every file.
LEMMA SeenType ==
  ASSUME World, Scans, NEW m \in Migrations, Len(read[m]) + 1 = Files
  PROVE  Seen(m) \in Seq(Nat) /\ Len(Seen(m)) = Files
  <1>1. source[Files] \in Nat
    BY SourceType
  <1> QED
    BY <1>1 DEF Scans, Seen

\* What Goto does, and that it ends the scan.
LEMMA Going ==
  ASSUME TypeInv, NEW m \in Migrations
  PROVE  \A place \in Places : Goto(m, place) =>
           /\ pc' \in [Migrations -> Places]
           /\ pc'[m] = place
           /\ \A n \in Migrations \ {m} : pc'[n] = pc[n]
           /\ read' \in [Migrations -> Seq(Nat)]
           /\ read'[m] = << >>
           /\ \A n \in Migrations \ {m} : read'[n] = read[n]
           /\ \A n \in Migrations : Len(read'[n]) < Files
  BY ConstantsAssumption DEF TypeInv, Own, Scans, Goto

\* The report of m, and of no one else, has the given status.
Reports(m, status) ==
  /\ result' \in [Migrations -> Results]
  /\ result'[m].status = status
  /\ \A n \in Migrations \ {m} : result'[n] = result[n]

\* What Return does: migrate() returns a report.
LEMMA Returning ==
  ASSUME TypeInv, NEW m \in Migrations
  PROVE  \A status \in Reported : Return(m, status) =>
           Goto(m, "reporting") /\ Reports(m, status)
  <1> SUFFICES ASSUME NEW status \in Reported, Return(m, status)
               PROVE  Goto(m, "reporting") /\ Reports(m, status)
    OBVIOUS
  <1> DEFINE r == [status |-> status, modified |-> FALSE,
                   published |-> status = "PUBLISHED"]
  <1>1. r \in Results /\ r.status = status
    BY DEF Results
  <1>2. result' = [result EXCEPT ![m] = r]
    BY DEF Return
  <1>3. result \in [Migrations -> Results]
    BY DEF TypeInv, Own
  <1> HIDE DEF r
  <1>4. Reports(m, status)
    BY <1>1, <1>2, <1>3 DEF Reports
  <1> QED
    BY <1>4 DEF Return

\* What SourceChanged does: the report of _source_changed_report.
LEMMA Changing ==
  ASSUME TypeInv, NEW m \in Migrations
  PROVE  SourceChanged(m) => Goto(m, "reporting") /\ Reports(m, "SAFETY_ERROR")
  <1> SUFFICES ASSUME SourceChanged(m)
               PROVE  Goto(m, "reporting") /\ Reports(m, "SAFETY_ERROR")
    OBVIOUS
  <1> DEFINE r == [status |-> "SAFETY_ERROR", modified |-> TRUE,
                   published |-> FALSE]
  <1>1. r \in Results /\ r.status = "SAFETY_ERROR"
    BY DEF Results, Reported
  <1>2. result' = [result EXCEPT ![m] = r]
    BY DEF SourceChanged
  <1>3. result \in [Migrations -> Results]
    BY DEF TypeInv, Own
  <1> HIDE DEF r
  <1>4. Reports(m, "SAFETY_ERROR")
    BY <1>1, <1>2, <1>3 DEF Reports
  <1> QED
    BY <1>4 DEF SourceChanged

\* What Exit does.
LEMMA Exiting ==
  ASSUME TypeInv, NEW m \in Migrations
  PROVE  \A code \in {0, 1, 2, 3, 4, 130} : Exit(m, code) =>
           /\ Goto(m, "ended")
           /\ exit' \in [Migrations -> {Running, 0, 1, 2, 3, 4, 130}]
           /\ exit'[m] = code
           /\ \A n \in Migrations \ {m} : exit'[n] = exit[n]
  BY DEF TypeInv, Own, Exit

\* What Decide does.
LEMMA Deciding ==
  ASSUME TypeInv, NEW m \in Migrations
  PROVE  \A status \in Verdicts : Decide(m, status) =>
           /\ verdict' \in [Migrations -> Verdicts]
           /\ verdict'[m] = status
           /\ \A n \in Migrations \ {m} : verdict'[n] = verdict[n]
  BY DEF TypeInv, Own, Decide

\* What Staged does.
LEMMA Storing ==
  ASSUME TypeInv, NEW m \in Migrations
  PROVE  \A payload \in Payloads : Staged(m, payload) =>
           /\ staged' \in [Migrations -> Payloads]
           /\ staged'[m] = payload
           /\ \A n \in Migrations \ {m} : staged'[n] = staged[n]
  BY DEF TypeInv, Own, Staged

\* What Spoil does.
LEMMA Spoiling ==
  ASSUME TypeInv, NEW m \in Migrations
  PROVE  \A doing \in Doings : Spoil(m, doing) =>
           /\ spoiled' \in SUBSET (Migrations \X Doings)
           /\ <<m, doing>> \in spoiled'
           /\ \A n \in Migrations, d \in Doings :
                /\ <<n, d>> \in spoiled => <<n, d>> \in spoiled'
                /\ n # m /\ <<n, d>> \in spoiled' => <<n, d>> \in spoiled
  BY DEF TypeInv, Own, Spoil

\* What a migration may have been stopped in, one by one.
LEMMA DoingsAre ==
  /\ "killed" \in Doings
  /\ "writing-lock" \in Doings
  /\ "finding-lock" \in Doings
  /\ "removing-lock" \in Doings
  /\ "removing-staging" \in Doings
  BY DEF Doings

\* Whatever is reported, the command exits with a code of its own.
LEMMA Codes ==
  ASSUME TypeInv, NEW m \in Migrations
  PROVE  pc[m] \in {"reporting", "linking"} =>
           /\ ExitOf(result[m].status) \in {0, 1, 2, 3, 4, 130}
           /\ Unwritable(m) \in {0, 1, 2, 3, 4, 130}
  <1> HAVE pc[m] \in {"reporting", "linking"}
  <1>1. result[m].status \in Reported
    BY DEF TypeInv, Shapes, Shape
  <1>2. ExitOf(result[m].status) \in {0, 1, 2, 3, 4, 130}
    BY <1>1 DEF ExitOf, Reported
  <1> QED
    BY <1>2 DEF Unwritable

\* The places, statuses, payloads and verdicts, one by one, so that the lemmas
\* above apply.
LEMMA PlacesAre ==
  /\ "starting" \in Places
  /\ "preflight" \in Places
  /\ "staging" \in Places
  /\ "writing" \in Places
  /\ "publishing" \in Places
  /\ "locking" \in Places
  /\ "noting" \in Places
  /\ "renaming" \in Places
  /\ "syncing" \in Places
  /\ "unlocking" \in Places
  /\ "cleaning" \in Places
  /\ "reporting" \in Places
  /\ "linking" \in Places
  /\ "ended" \in Places
  /\ "killed" \in Places
  /\ "snapshotting" \in Places
  /\ "copying" \in Places
  /\ "checking" \in Places
  /\ "rechecking" \in Places
  /\ "refusing" \in Places
  BY DEF Places, Scanning

\* The statuses of a MigrationReport.
LEMMA ReportedAre ==
  /\ "ANALYZED" \in Reported
  /\ "VALIDATED" \in Reported
  /\ "PUBLISHED" \in Reported
  /\ "UNSUPPORTED" \in Reported
  /\ "VALIDATION_FAILED" \in Reported
  /\ "SAFETY_ERROR" \in Reported
  BY DEF Reported

\* What a transaction directory may hold.
LEMMA PayloadsAre ==
  /\ "none" \in Payloads
  /\ "empty" \in Payloads
  /\ "partial" \in Payloads
  /\ "whole" \in Payloads
  /\ "moved" \in Payloads
  BY DEF Payloads

\* What a migration may be about to report.
LEMMA VerdictsAre ==
  /\ "ANALYZED" \in Verdicts
  /\ "VALIDATED" \in Verdicts
  /\ "PUBLISHED" \in Verdicts
  /\ "UNSUPPORTED" \in Verdicts
  /\ "VALIDATION_FAILED" \in Verdicts
  /\ "SAFETY_ERROR" \in Verdicts
  /\ "CHANGED" \in Verdicts
  /\ "INTERRUPTED" \in Verdicts
  BY DEF Verdicts, Reported

\* The initial states have the right types.
LEMMA TypeInit == Init => TypeInv
  <1> SUFFICES ASSUME Init PROVE TypeInv
    OBVIOUS
  <1>1. World
    <2> DEFINE s == [f \in 1..Files |-> 0]
    <2>1. s \in [1..Files -> Nat]
      OBVIOUS
    <2>2. history = << s >>
      BY DEF Init
    <2> HIDE DEF s
    <2>3. history \in Seq([1..Files -> Nat]) /\ history # << >>
      BY <2>1, <2>2
    <2>4. reports \in [Paths -> Owners]
      BY DEF Init, Owners
    <2>5. acts + faults <= MaxTroubles
      BY ConstantsAssumption DEF Init
    <2> QED
      BY <2>3, <2>4, <2>5 DEF Init, World, Owners
  <1>2. Own
    BY DEF Init, Own, Places, Results, NoReport, Verdicts, Payloads
  <1>3. Scans
    BY ConstantsAssumption DEF Init, Scans
  <1>4. Shapes
    BY DEF Init, Shapes, Shape
  <1> QED
    BY <1>1, <1>2, <1>3, <1>4 DEF TypeInv

\* A step of m keeps the types, edits no source and leaves the others alone.
LEMMA TypeStep ==
  ASSUME TypeInv, NEW m \in Migrations, Step(m) \/ Failure(m)
  PROVE  /\ TypeInv'
         /\ history' = history /\ \A n \in Migrations \ {m} : Same(n)
  <1> World /\ Own /\ Scans /\ Shapes
    BY DEF TypeInv
  <1>1. CASE Precheck(m)
    <2>1. World'
      BY <1>1 DEF World, environment, Precheck
    <2>2. Own'
      BY <1>1, PlacesAre, Going, Exiting DEF Own, Precheck
    <2>3. Scans'
      BY <1>1, PlacesAre, Going, Exiting DEF Scans, Precheck
    <2>4. history' = history /\ \A n \in Migrations \ {m} : Same(n)
      BY <1>1, PlacesAre, Going, Exiting DEF Same, environment, Precheck
    <2>5. Shape(m)'
      BY <1>1, PlacesAre, Going, Exiting DEF Shapes, Shape, Precheck, At
    <2> QED
      BY <2>1, <2>2, <2>3, <2>4, <2>5, Framed DEF TypeInv
  <1>2. CASE Preflight(m)
    <2>1. World'
      BY <1>2 DEF World, environment, Preflight
    <2>2. Own'
      BY <1>2, PlacesAre, ReportedAre, Going, Returning
         DEF Own, Preflight, Reports
    <2>3. Scans'
      BY <1>2, PlacesAre, ReportedAre, Going, Returning DEF Scans, Preflight
    <2>4. history' = history /\ \A n \in Migrations \ {m} : Same(n)
      BY <1>2, PlacesAre, ReportedAre, Going, Returning
         DEF Same, environment, Preflight, Reports
    <2>5. Shape(m)'
      BY <1>2, PlacesAre, ReportedAre, Going, Returning
         DEF Shapes, Shape, Preflight, At, Reports
    <2> QED
      BY <2>1, <2>2, <2>3, <2>4, <2>5, Framed DEF TypeInv
  <1>3. CASE ReadFile(m)
    <2>1. World'
      BY <1>3 DEF World, environment, ReadFile
    <2>2. Own'
      BY <1>3 DEF Own, ReadFile
    <2>3. Scans'
      <3>1. Len(read[m]) + 1 \in 1..Files
        BY <1>3, ConstantsAssumption DEF Scans
      <3>2. source[Len(read[m]) + 1] \in Nat
        BY <3>1, SourceType
      <3> DEFINE r == Append(read[m], source[Len(read[m]) + 1])
      <3>3. r \in Seq(Nat) /\ Len(r) = Len(read[m]) + 1
        BY <3>2 DEF Scans
      <3>4. read' = [read EXCEPT ![m] = r] /\ Len(read[m]) + 1 < Files
        BY <1>3 DEF ReadFile
      <3> HIDE DEF r
      <3> QED
        BY <1>3, <3>3, <3>4 DEF ReadFile, Scans
    <2>4. history' = history /\ \A n \in Migrations \ {m} : Same(n)
      BY <1>3 DEF Same, environment, ReadFile
    <2>5. Shape(m)'
      BY <1>3 DEF Shapes, Shape, ReadFile
    <2> QED
      BY <2>1, <2>2, <2>3, <2>4, <2>5, Framed DEF TypeInv
  <1>4. CASE ReadFails(m)
    <2>1. World'
      BY <1>4, ConstantsAssumption
         DEF World, environment, ReadFails, Fault, Calm
    <2>2. Own'
      BY <1>4, PlacesAre, ReportedAre, VerdictsAre, Going, Returning,
         Changing, Deciding
         DEF Own, ReadFails, Refuse, Reports
    <2>3. Scans'
      BY <1>4, PlacesAre, ReportedAre, Going, Returning, Changing
         DEF Scans, ReadFails, Refuse
    <2>4. history' = history /\ \A n \in Migrations \ {m} : Same(n)
      BY <1>4, PlacesAre, ReportedAre, VerdictsAre, Going, Returning,
         Changing, Deciding
         DEF Same, environment, ReadFails, Refuse, Reports
    <2>5. Shape(m)'
      BY <1>4, PlacesAre, ReportedAre, VerdictsAre, Going, Returning,
         Changing, Deciding
         DEF Shape, Ends, ReadFails, Refuse, Reports
    <2> QED
      BY <2>1, <2>2, <2>3, <2>4, <2>5, Framed DEF TypeInv
  <1>5. CASE BreaksOff(m)
    <2>1. World'
      BY <1>5, ConstantsAssumption
         DEF World, environment, BreaksOff, Fault, Calm
    <2>2. Own'
      BY <1>5, PlacesAre, Going, Exiting DEF Own, BreaksOff
    <2>3. Scans'
      BY <1>5, PlacesAre, Going, Exiting DEF Scans, BreaksOff
    <2>4. history' = history /\ \A n \in Migrations \ {m} : Same(n)
      BY <1>5, PlacesAre, Going, Exiting DEF Same, environment, BreaksOff
    <2>5. Shape(m)'
      <3>1. pc'[m] = "ended"
        BY <1>5, PlacesAre, Going, Exiting DEF BreaksOff
      <3> QED
        BY <3>1 DEF Shape
    <2> QED
      BY <2>1, <2>2, <2>3, <2>4, <2>5, Framed DEF TypeInv
  <1>6. CASE Convert(m)
    <2>1. World'
      BY <1>6 DEF World, environment, Convert
    <2>2. Own'
      BY <1>6, PlacesAre, VerdictsAre, Going, Deciding
         DEF Own, Convert, Refuse
    <2>3. Scans'
      BY <1>6, PlacesAre, Going, SeenType DEF Scans, Convert, Scanned, Refuse
    <2>4. history' = history /\ \A n \in Migrations \ {m} : Same(n)
      BY <1>6, PlacesAre, VerdictsAre, Going, Deciding
         DEF Same, environment, Convert, Refuse
    <2>5. Shape(m)'
      BY <1>6, PlacesAre, ReportedAre, VerdictsAre, Going, Deciding
         DEF Shapes, Shape, Convert, Scanned, Refuse, At
    <2> QED
      BY <2>1, <2>2, <2>3, <2>4, <2>5, Framed DEF TypeInv
  <1>7. CASE Validate(m)
    <2>1. World'
      BY <1>7 DEF World, environment, Validate
    <2>2. Own'
      BY <1>7, PlacesAre, VerdictsAre, Going, Deciding
         DEF Own, Validate, Refuse
    <2>3. Scans'
      <3>1. Seen(m) \in Seq(Nat) /\ Len(ran[m]) <= 2
        BY <1>7, SeenType DEF Validate, Scanned, At, Shapes, Shape
      <3> DEFINE r == Append(ran[m], Seen(m))
      <3>2. r \in Seq(Seq(Nat)) /\ Len(r) = Len(ran[m]) + 1
        BY <3>1 DEF Scans
      <3>3. ran' = [ran EXCEPT ![m] = r]
        BY <1>7 DEF Validate
      <3> HIDE DEF r
      <3>4. /\ ran' \in [Migrations -> Seq(Seq(Nat))]
            /\ \A n \in Migrations : Len(ran'[n]) <= 3
        BY <3>1, <3>2, <3>3 DEF Scans
      <3>5. /\ read' \in [Migrations -> Seq(Nat)]
            /\ \A n \in Migrations : Len(read'[n]) < Files
        BY <1>7, PlacesAre, Going DEF Validate, Refuse
      <3> QED
        BY <1>7, <3>4, <3>5 DEF Validate, Scans
    <2>4. history' = history /\ \A n \in Migrations \ {m} : Same(n)
      BY <1>7, PlacesAre, VerdictsAre, Going, Deciding
         DEF Same, environment, Validate, Refuse
    <2>5. Shape(m)'
      <3>1. ran'[m] = Append(ran[m], Seen(m)) /\ ran[m] \in Seq(Seq(Nat))
        BY <1>7 DEF Validate, Scans
      <3>2. Len(ran'[m]) = Len(ran[m]) + 1
        BY <3>1, <1>7
      <3>3. CASE Refuse(m, "VALIDATION_FAILED")
        BY <3>3, PlacesAre, VerdictsAre, ReportedAre, Going, Deciding
           DEF Refuse, Shape
      <3>4. CASE Goto(m, IF Validated(m) THEN "checking" ELSE "copying")
        <4>1. Len(ran[m]) <= 2 /\ Len(ran[m]) \in Nat
          BY <1>7 DEF Validate, Scanned, At, Shapes, Shape
        <4>2. /\ pc'[m] \in {"checking", "copying"}
              /\ pc'[m] = "copying" => Len(ran[m]) # 2
          BY <3>4, PlacesAre, Going DEF Validated
        <4>3. pc'[m] = "copying" => Len(ran'[m]) <= 2
          BY <3>2, <4>1, <4>2, Below
        <4> QED
          BY <4>2, <4>3 DEF Shape
      <3> QED
        BY <1>7, <3>3, <3>4 DEF Validate
    <2> QED
      BY <2>1, <2>2, <2>3, <2>4, <2>5, Framed DEF TypeInv
  <1>8. CASE Check(m)
    <2>1. World'
      BY <1>8 DEF World, environment, Check
    <2>2. Own'
      BY <1>8, PlacesAre, ReportedAre, Going, Returning, Changing
         DEF Own, Check, Reports
    <2>3. Scans'
      BY <1>8, PlacesAre, ReportedAre, Going, Returning, Changing
         DEF Scans, Check
    <2>4. history' = history /\ \A n \in Migrations \ {m} : Same(n)
      BY <1>8, PlacesAre, ReportedAre, Going, Returning, Changing
         DEF Same, environment, Check, Reports
    <2>5. Shape(m)'
      BY <1>8, PlacesAre, ReportedAre, Going, Returning, Changing
         DEF Shapes, Shape, Check, Reports
    <2> QED
      BY <2>1, <2>2, <2>3, <2>4, <2>5, Framed DEF TypeInv
  <1>9. CASE Refused(m)
    <2>1. World'
      BY <1>9 DEF World, environment, Refused
    <2>2. Own'
      BY <1>9, PlacesAre, Going, Returning, Changing
         DEF Own, Shapes, Shape, Refused, Scanned, At, Reports
    <2>3. Scans'
      BY <1>9, PlacesAre, Going, Returning, Changing
         DEF Scans, Shapes, Shape, Refused, Scanned, At
    <2>4. history' = history /\ \A n \in Migrations \ {m} : Same(n)
      BY <1>9, PlacesAre, Going, Returning, Changing
         DEF Same, Shapes, Shape, environment, Refused, Scanned, At, Reports
    <2>5. Shape(m)'
      BY <1>9, PlacesAre, ReportedAre, Going, Returning, Changing
         DEF Shapes, Shape, Refused, Scanned, At, Reports
    <2> QED
      BY <2>1, <2>2, <2>3, <2>4, <2>5, Framed DEF TypeInv
  <1>10. CASE Stage(m)
    <2>1. World'
      BY <1>10, ConstantsAssumption DEF World, environment, Stage, Fault, Calm
    <2>2. Own'
      BY <1>10, PayloadsAre, PlacesAre, VerdictsAre, Going, Deciding, Storing
         DEF Own, Stage, Refuse
    <2>3. Scans'
      BY <1>10, PlacesAre, Going DEF Scans, Stage, Refuse
    <2>4. history' = history /\ \A n \in Migrations \ {m} : Same(n)
      BY <1>10, PayloadsAre, PlacesAre, VerdictsAre, Going, Deciding, Storing
         DEF Same, environment, Stage, Refuse
    <2>5. Shape(m)'
      BY <1>10, PlacesAre, ReportedAre, VerdictsAre, Going, Deciding
         DEF Shape, Stage, Refuse
    <2> QED
      BY <2>1, <2>2, <2>3, <2>4, <2>5, Framed DEF TypeInv
  <1>11. CASE Write(m)
    <2>1. World'
      BY <1>11, ConstantsAssumption DEF World, environment, Write, Fault, Calm
    <2>2. Own'
      BY <1>11, PayloadsAre, PlacesAre, VerdictsAre, Going, Deciding, Storing
         DEF Own, Write
    <2>3. Scans'
      BY <1>11, PlacesAre, Going DEF Scans, Write
    <2>4. history' = history /\ \A n \in Migrations \ {m} : Same(n)
      BY <1>11, PayloadsAre, PlacesAre, VerdictsAre, Going, Deciding, Storing
         DEF Same, environment, Write
    <2>5. Shape(m)'
      BY <1>11, PlacesAre, VerdictsAre, Going, Deciding DEF Shape, Ends, Write
    <2> QED
      BY <2>1, <2>2, <2>3, <2>4, <2>5, Framed DEF TypeInv
  <1>12. CASE Recheck(m)
    <2>1. World'
      BY <1>12 DEF World, environment, Recheck
    <2>2. Own'
      BY <1>12, PlacesAre, VerdictsAre, Going, Deciding DEF Own, Recheck
    <2>3. Scans'
      BY <1>12, PlacesAre, Going DEF Scans, Recheck
    <2>4. history' = history /\ \A n \in Migrations \ {m} : Same(n)
      BY <1>12, PlacesAre, VerdictsAre, Going, Deciding
         DEF Same, environment, Recheck
    <2>5. Shape(m)'
      BY <1>12, PlacesAre, VerdictsAre, Going, Deciding
         DEF Shape, Ends, Recheck
    <2> QED
      BY <2>1, <2>2, <2>3, <2>4, <2>5, Framed DEF TypeInv
  <1>13. CASE Publish(m)
    <2>1. World'
      BY <1>13 DEF World, environment, Publish
    <2>2. Own'
      BY <1>13, PlacesAre, VerdictsAre, Going, Deciding DEF Own, Publish
    <2>3. Scans'
      BY <1>13, PlacesAre, Going DEF Scans, Publish
    <2>4. history' = history /\ \A n \in Migrations \ {m} : Same(n)
      BY <1>13, PlacesAre, VerdictsAre, Going, Deciding
         DEF Same, environment, Publish
    <2>5. Shape(m)'
      BY <1>13, PlacesAre, VerdictsAre, Going, Deciding
         DEF Shape, Ends, Publish
    <2> QED
      BY <2>1, <2>2, <2>3, <2>4, <2>5, Framed DEF TypeInv
  <1>14. CASE Lock(m)
    <2>1. World'
      BY <1>14 DEF World, Lock, Contend
    <2>2. Own'
      BY <1>14, PlacesAre, VerdictsAre, Going, Deciding DEF Own, Lock, Contend
    <2>3. Scans'
      BY <1>14, PlacesAre, Going DEF Scans, Lock, Contend
    <2>4. history' = history /\ \A n \in Migrations \ {m} : Same(n)
      BY <1>14, PlacesAre, VerdictsAre, Going, Deciding
         DEF Same, Lock, Contend
    <2>5. Shape(m)'
      BY <1>14, PlacesAre, VerdictsAre, Going, Deciding
         DEF Shape, Ends, Lock, Contend
    <2> QED
      BY <2>1, <2>2, <2>3, <2>4, <2>5, Framed DEF TypeInv
  <1>15. CASE Note(m)
    <2>1. World'
      BY <1>15, ConstantsAssumption DEF World, environment, Note, Fault, Calm
    <2>2. Own'
      BY <1>15, PlacesAre, VerdictsAre, DoingsAre, Going, Deciding, Spoiling
         DEF Own, Note
    <2>3. Scans'
      BY <1>15, PlacesAre, Going DEF Scans, Note
    <2>4. history' = history /\ \A n \in Migrations \ {m} : Same(n)
      BY <1>15, PlacesAre, VerdictsAre, DoingsAre, Going, Deciding, Spoiling
         DEF Same, environment, Note
    <2>5. Shape(m)'
      BY <1>15, PlacesAre, VerdictsAre, Going, Deciding
         DEF Shapes, Shape, Ends, Note
    <2> QED
      BY <2>1, <2>2, <2>3, <2>4, <2>5, Framed DEF TypeInv
  <1>16. CASE Rename(m)
    <2>1. World'
      BY <1>16 DEF World, Rename, Owners
    <2>2. Own'
      BY <1>16, PayloadsAre, PlacesAre, VerdictsAre, Going, Deciding, Storing
         DEF Own, Rename
    <2>3. Scans'
      BY <1>16, PlacesAre, Going DEF Scans, Rename
    <2>4. history' = history /\ \A n \in Migrations \ {m} : Same(n)
      BY <1>16, PayloadsAre, PlacesAre, VerdictsAre, Going, Deciding, Storing
         DEF Same, Rename
    <2>5. Shape(m)'
      BY <1>16, PayloadsAre, PlacesAre, VerdictsAre, Going, Deciding
         DEF Shape, Ends, Rename
    <2> QED
      BY <2>1, <2>2, <2>3, <2>4, <2>5, Framed DEF TypeInv
  <1>17. CASE PublishFails(m)
    <2>1. World'
      BY <1>17, ConstantsAssumption
         DEF World, environment, PublishFails, Fault, Calm
    <2>2. Own'
      BY <1>17, PlacesAre, VerdictsAre, Going, Deciding DEF Own, PublishFails
    <2>3. Scans'
      BY <1>17, PlacesAre, Going DEF Scans, PublishFails
    <2>4. history' = history /\ \A n \in Migrations \ {m} : Same(n)
      BY <1>17, PlacesAre, VerdictsAre, Going, Deciding
         DEF Same, environment, PublishFails
    <2>5. Shape(m)'
      BY <1>17, PlacesAre, VerdictsAre, Going, Deciding
         DEF Shapes, Shape, Ends, PublishFails
    <2> QED
      BY <2>1, <2>2, <2>3, <2>4, <2>5, Framed DEF TypeInv
  <1>18. CASE Sync(m)
    <2>1. World'
      BY <1>18, ConstantsAssumption DEF World, environment, Sync, Fault, Calm
    <2>2. Own'
      BY <1>18, PlacesAre, VerdictsAre, Going, Deciding
         DEF Own, Sync, Unsynced
    <2>3. Scans'
      BY <1>18, PlacesAre, Going DEF Scans, Sync
    <2>4. history' = history /\ \A n \in Migrations \ {m} : Same(n)
      BY <1>18, PlacesAre, VerdictsAre, Going, Deciding
         DEF Same, environment, Sync, Unsynced
    <2>5. Shape(m)'
      BY <1>18, PlacesAre, VerdictsAre, Going, Deciding
         DEF Shape, Ends, Sync, Unsynced
    <2> QED
      BY <2>1, <2>2, <2>3, <2>4, <2>5, Framed DEF TypeInv
  <1>19. CASE Unlock(m)
    <2>1. World'
      BY <1>19, ConstantsAssumption DEF World, Unlock, Fault, Calm
    <2>2. Own'
      BY <1>19, PlacesAre, VerdictsAre, DoingsAre, Going, Deciding, Spoiling
         DEF Own, Unlock
    <2>3. Scans'
      BY <1>19, PlacesAre, Going DEF Scans, Unlock
    <2>4. history' = history /\ \A n \in Migrations \ {m} : Same(n)
      BY <1>19, PlacesAre, VerdictsAre, DoingsAre, Going, Deciding, Spoiling
         DEF Same, Unlock
    <2>5. Shape(m)'
      BY <1>19, PlacesAre, VerdictsAre, Going, Deciding
         DEF Shapes, Shape, Ends, Unlock, At
    <2> QED
      BY <2>1, <2>2, <2>3, <2>4, <2>5, Framed DEF TypeInv
  <1>20. CASE Clean(m)
    <2>1. World'
      BY <1>20, ConstantsAssumption DEF World, environment, Clean, Fault, Calm
    <2>2. Own'
      BY <1>20, PayloadsAre, PlacesAre, ReportedAre, DoingsAre, Going,
         Returning, Changing, Exiting, Storing, Spoiling
         DEF Own, Clean, Conclude, Reports
    <2>3. Scans'
      BY <1>20, PlacesAre, ReportedAre, Going, Returning, Changing, Exiting
         DEF Scans, Clean, Conclude
    <2>4. history' = history /\ \A n \in Migrations \ {m} : Same(n)
      <3>1. \A n \in Migrations \ {m}, doing \in Doings :
              <<n, doing>> \in spoiled' <=> <<n, doing>> \in spoiled
        BY <1>20, DoingsAre, Spoiling DEF Clean
      <3>2. history' = history /\ UNCHANGED <<snapshot, ran, verdict>>
        BY <1>20 DEF Clean, environment
      <3>3. \A n \in Migrations \ {m} :
              /\ pc'[n] = pc[n] /\ read'[n] = read[n]
              /\ result'[n] = result[n] /\ exit'[n] = exit[n]
        BY <1>20, PlacesAre, ReportedAre, Going, Returning, Changing, Exiting
           DEF Clean, Conclude, Reports
      <3>4. \A n \in Migrations \ {m} : staged'[n] = staged[n]
        BY <1>20, PayloadsAre, Storing DEF Clean
      <3> QED
        BY <3>1, <3>2, <3>3, <3>4 DEF Same
    <2>5. Shape(m)'
      <3>1. /\ pc[m] = "cleaning" /\ verdict' = verdict /\ ran' = ran
            /\ Conclude(m)
        BY <1>20 DEF Clean, At
      <3>2. CASE verdict[m] = "PUBLISHED" /\ Return(m, "PUBLISHED")
        BY <3>2, PlacesAre, ReportedAre, Going, Returning DEF Shape, Reports
      <3>3. CASE SourceChanged(m)
        BY <3>3, PlacesAre, ReportedAre, Going, Changing DEF Shape, Reports
      <3>4. CASE verdict[m] = "SAFETY_ERROR" /\ Goto(m, "refusing")
        BY <3>1, <3>4, PlacesAre, ReportedAre, Going DEF Shape
      <3>5. CASE Exit(m, 130)
        BY <3>5, PlacesAre, Going, Exiting DEF Shape
      <3> QED
        BY <3>1, <3>2, <3>3, <3>4, <3>5 DEF Conclude
    <2> QED
      BY <2>1, <2>2, <2>3, <2>4, <2>5, Framed DEF TypeInv
  <1>21. CASE Report(m)
    <2>1. /\ pc[m] = "reporting"
          /\ \/ \E code \in {0, 1, 2, 3, 4, 130} : Exit(m, code)
             \/ Goto(m, "linking") /\ exit' = exit
          /\ spoiled' = spoiled /\ history' = history
          /\ UNCHANGED <<snapshot, ran, staged, verdict, result>>
      BY <1>21, Codes DEF Report, At, Taken, environment
    <2>2. World'
      BY <1>21 DEF World, environment, Report
    <2>3. Own'
      <3>1. /\ pc' \in [Migrations -> Places]
            /\ exit' \in [Migrations -> {Running, 0, 1, 2, 3, 4, 130}]
        <4>1. CASE exit' = exit
          BY <2>1, <4>1, PlacesAre, Going, Exiting DEF Own
        <4>2. CASE \E code \in {0, 1, 2, 3, 4, 130} : Exit(m, code)
          BY <4>2, PlacesAre, Going, Exiting
        <4> QED
          BY <2>1, <4>1, <4>2
      <3> QED
        BY <2>1, <3>1 DEF Own
    <2>4. Scans'
      BY <2>1, PlacesAre, Going, Exiting DEF Scans
    <2>5. history' = history /\ \A n \in Migrations \ {m} : Same(n)
      BY <2>1, PlacesAre, Going, Exiting DEF Same
    <2>6. Shape(m)'
      BY <2>1, PlacesAre, Going, Exiting DEF Shapes, Shape
    <2> QED
      BY <2>2, <2>3, <2>4, <2>5, <2>6, Framed DEF TypeInv
  <1>22. CASE Link(m)
    <2>1. /\ pc[m] = "linking"
          /\ \E code \in {0, 1, 2, 3, 4, 130} : Exit(m, code)
          /\ spoiled' = spoiled /\ history' = history
          /\ UNCHANGED <<snapshot, ran, staged, verdict, result>>
      BY <1>22, Codes DEF Link, At
    <2>2. World'
      BY <1>22 DEF World, Link, Owners
    <2>3. Own'
      BY <2>1, PlacesAre, Going, Exiting DEF Own
    <2>4. Scans'
      BY <2>1, PlacesAre, Going, Exiting DEF Scans
    <2>5. history' = history /\ \A n \in Migrations \ {m} : Same(n)
      BY <2>1, PlacesAre, Going, Exiting DEF Same
    <2>6. Shape(m)'
      BY <2>1, PlacesAre, Going, Exiting DEF Shape
    <2> QED
      BY <2>2, <2>3, <2>4, <2>5, <2>6, Framed DEF TypeInv
  <1>23. CASE LinkFails(m)
    <2>1. /\ pc[m] = "linking"
          /\ \E code \in {0, 1, 2, 3, 4, 130} : Exit(m, code)
          /\ spoiled' = spoiled /\ history' = history
          /\ UNCHANGED <<snapshot, ran, staged, verdict, result>>
      BY <1>23, Codes DEF LinkFails, At, environment
    <2>2. World'
      BY <1>23, ConstantsAssumption
         DEF World, environment, LinkFails, Fault, Calm
    <2>3. Own'
      BY <2>1, PlacesAre, Going, Exiting DEF Own
    <2>4. Scans'
      BY <2>1, PlacesAre, Going, Exiting DEF Scans
    <2>5. history' = history /\ \A n \in Migrations \ {m} : Same(n)
      BY <2>1, PlacesAre, Going, Exiting DEF Same
    <2>6. Shape(m)'
      BY <2>1, PlacesAre, Going, Exiting DEF Shape
    <2> QED
      BY <2>2, <2>3, <2>4, <2>5, <2>6, Framed DEF TypeInv
  <1>24. CASE Interrupt(m)
    <2>1. World'
      BY <1>24, ConstantsAssumption
         DEF World, environment, Interrupt, Fault, Calm
    <2>2. Own'
      <3>1. spoiled' \in SUBSET (Migrations \X Doings)
        BY <1>24, DoingsAre, Spoiling DEF Interrupt, Own
      <3>2. pc' \in [Migrations -> Places]
        BY <1>24, PlacesAre, Going, Exiting DEF Interrupt
      <3>3. /\ verdict' \in [Migrations -> Verdicts]
            /\ exit' \in [Migrations -> {Running, 0, 1, 2, 3, 4, 130}]
        BY <1>24, VerdictsAre, Deciding, Exiting DEF Interrupt, Own
      <3> QED
        BY <1>24, <3>1, <3>2, <3>3 DEF Interrupt, Own
    <2>3. Scans'
      BY <1>24, PlacesAre, Going, Exiting DEF Scans, Interrupt
    <2>4. history' = history /\ \A n \in Migrations \ {m} : Same(n)
      <3>1. \A n \in Migrations \ {m}, doing \in Doings :
              <<n, doing>> \in spoiled' <=> <<n, doing>> \in spoiled
        BY <1>24, DoingsAre, Spoiling DEF Interrupt
      <3>2. history' = history /\ UNCHANGED <<snapshot, ran, staged, result>>
        BY <1>24 DEF Interrupt, environment
      <3>3. \A n \in Migrations \ {m} :
              /\ pc'[n] = pc[n] /\ read'[n] = read[n] /\ exit'[n] = exit[n]
        BY <1>24, PlacesAre, Going, Exiting DEF Interrupt
      <3>4. \A n \in Migrations \ {m} : verdict'[n] = verdict[n]
        BY <1>24, VerdictsAre, Deciding DEF Interrupt
      <3> QED
        BY <3>1, <3>2, <3>3, <3>4 DEF Same
    <2>5. Shape(m)'
      <3>1. \/ /\ pc'[m] \in {"unlocking", "cleaning"}
               /\ verdict'[m] = "INTERRUPTED"
            \/ pc'[m] = "ended"
        BY <1>24, PlacesAre, VerdictsAre, Going, Exiting, Deciding
           DEF Interrupt
      <3> QED
        BY <3>1 DEF Shape, Ends
    <2> QED
      BY <2>1, <2>2, <2>3, <2>4, <2>5, Framed DEF TypeInv
  <1>25. CASE Kill(m)
    <2>1. World'
      BY <1>25, ConstantsAssumption DEF World, environment, Kill, Fault, Calm
    <2>2. Own'
      BY <1>25, PlacesAre, DoingsAre, Going, Spoiling DEF Own, Kill
    <2>3. Scans'
      BY <1>25, PlacesAre, Going DEF Scans, Kill
    <2>4. history' = history /\ \A n \in Migrations \ {m} : Same(n)
      BY <1>25, PlacesAre, DoingsAre, Going, Spoiling
         DEF Same, environment, Kill
    <2>5. Shape(m)'
      BY <1>25, PlacesAre, Going DEF Shape, Kill
    <2> QED
      BY <2>1, <2>2, <2>3, <2>4, <2>5, Framed DEF TypeInv
  <1> QED
    BY <1>1, <1>2, <1>3, <1>4, <1>5, <1>6, <1>7, <1>8, <1>9, <1>10, <1>11,
       <1>12, <1>13, <1>14, <1>15, <1>16, <1>17, <1>18, <1>19, <1>20, <1>21,
       <1>22, <1>23, <1>24, <1>25
       DEF Step, Failure

\* An edit goes on with the history.
LEMMA Edited ==
  ASSUME TypeInv, NEW f \in 1..Files, Edit(f)
  PROVE  \E s \in [1..Files -> Nat] : history' = Append(history, s)
  <1>1. /\ source \in [1..Files -> Nat]
        /\ history \in Seq([1..Files -> Nat]) /\ Len(history) \in Nat
    BY SourceType DEF TypeInv, World
  <1>2. PICK v \in Versions(f) : history' = Append(history, [source EXCEPT ![f] = v])
    BY DEF Edit
  <1>3. v \in Nat
    <2>1. \A k \in DOMAIN history : history[k] \in [1..Files -> Nat]
      BY <1>1
    <2>2. \A k \in DOMAIN history : history[k][f] \in Nat
      BY <2>1
    <2> QED
      BY <1>1, <2>2 DEF Versions
  <1>4. [source EXCEPT ![f] = v] \in [1..Files -> Nat]
    BY <1>1, <1>3
  <1> QED
    BY <1>2, <1>4

\* So do edits, and the creation of an output or a report.
LEMMA TypeOthers ==
  ASSUME TypeInv, Others
  PROVE  TypeInv'
  <1> World /\ Own /\ Scans /\ Shapes
    BY DEF TypeInv
  <1>1. ASSUME NEW f \in 1..Files, Edit(f)
        PROVE  World' /\ own' = own
    <2>1. PICK s \in [1..Files -> Nat] : history' = Append(history, s)
      BY <1>1, Edited
    <2>2. history \in Seq([1..Files -> Nat])
      BY DEF World
    <2>3. history' \in Seq([1..Files -> Nat]) /\ history' # << >>
      BY <2>1, <2>2
    <2>4. Act /\ UNCHANGED <<output, whole, lock, reports, faults, own>>
      BY <1>1 DEF Edit
    <2> QED
      BY <2>3, <2>4, ConstantsAssumption DEF Act, Calm, World
  <1>2. ASSUME CreateOutput PROVE World' /\ own' = own
    BY <1>2, ConstantsAssumption DEF CreateOutput, Act, Calm, World, Owners
  <1>3. ASSUME NEW p \in Paths, CreateReport(p) PROVE World' /\ own' = own
    BY <1>3, ConstantsAssumption DEF CreateReport, Act, Calm, World, Owners
  <1>4. World' /\ own' = own
    BY <1>1, <1>2, <1>3 DEF Others
  <1> QED
    BY <1>4 DEF own, TypeInv, Own, Scans, Shapes, Shape

\* So does stuttering.
LEMMA TypeUnchanged ==
  ASSUME TypeInv, UNCHANGED vars
  PROVE  TypeInv'
  BY DEF TypeInv, World, Own, Scans, Shapes, Shape, vars, environment, own

\* TypeInv is inductive.
LEMMA TypeNext == TypeInv /\ [Next]_vars => TypeInv'
  BY TypeStep, TypeOthers, TypeUnchanged DEF Next, Over

\* Every variable keeps its type: of all the ways through migrate() none
\* reports, or exits with, what its caller does not know.
THEOREM TypeCorrect == Spec => []TypeOK
  <1>1. TypeInv => TypeOK
    BY TypeParts DEF TypeInv
  <1> QED
    BY TypeInit, TypeNext, <1>1, PTL DEF Spec

-----------------------------------------------------------------------------
(***************************************************************************)
(* The history only grows.                                                 *)
(***************************************************************************)
\* g goes on where h ends.
Extends(h, g) ==
  /\ h \in Seq([1..Files -> Nat]) /\ g \in Seq([1..Files -> Nat])
  /\ h # << >> /\ Len(h) <= Len(g) /\ \A i \in 1..Len(h) : g[i] = h[i]

\* Whatever happens, what the sources have been stays on record.
LEMMA HistoryGrows ==
  ASSUME TypeInv, [Next]_vars
  PROVE  Extends(history, history')
  <1>1. history \in Seq([1..Files -> Nat]) /\ history # << >>
    BY DEF TypeInv, World
  <1>2. CASE history' = history
    BY <1>1, <1>2 DEF Extends
  <1>3. ASSUME NEW f \in 1..Files, Edit(f)
        PROVE  Extends(history, history')
    <2>1. PICK s \in [1..Files -> Nat] : history' = Append(history, s)
      BY <1>3, Edited
    <2>2. /\ history' \in Seq([1..Files -> Nat])
          /\ Len(history') = Len(history) + 1
          /\ \A i \in 1..Len(history) : history'[i] = history[i]
      BY <1>1, <2>1
    <2> QED
      BY <1>1, <2>2 DEF Extends
  <1>4. history' = history \/ \E f \in 1..Files : Edit(f)
    BY TypeStep
       DEF Next, Over, Others, CreateOutput, CreateReport, vars, environment
  <1> QED
    BY <1>2, <1>3, <1>4

\* What is past has a place in what follows, ...
LEMMA Kept ==
  ASSUME NEW h, NEW g, Extends(h, g), NEW i \in 1..Len(h)
  PROVE  i \in 1..Len(g) /\ g[i] = h[i] /\ h[i] \in [1..Files -> Nat]
  BY DEF Extends

\* ... and a file that has not come back by then has not come back by now.
LEMMA SettledShrinks ==
  ASSUME Extends(history, history')
  PROVE  Settled' \subseteq Settled
  <1> SUFFICES ASSUME NEW f \in Settled' PROVE f \in Settled
    OBVIOUS
  <1>1. f \in 1..Files /\ DOMAIN history = 1..Len(history)
    BY DEF Settled, Extends
  <1>2. ASSUME NEW j \in 1..Len(history), NEW l \in 1..Len(history),
               j < l, history[j][f] = history[l][f], NEW k \in j..l
        PROVE  history[k][f] = history[j][f]
    <2>1. k \in 1..Len(history)
      BY DEF Extends
    <2>2. /\ j \in DOMAIN history' /\ history'[j] = history[j]
          /\ l \in DOMAIN history' /\ history'[l] = history[l]
          /\ history'[k] = history[k]
      BY <2>1, Kept DEF Extends
    <2> QED
      BY <1>2, <2>2 DEF Settled
  <1> QED
    BY <1>1, <1>2 DEF Settled

\* What was of one moment stays so.
LEMMA MomentStays ==
  ASSUME Extends(history, history')
  PROVE  \A scan : OfOneMoment(scan) => OfOneMoment(scan)'
  <1> SUFFICES ASSUME NEW scan, OfOneMoment(scan)
               PROVE  OfOneMoment(scan)'
    OBVIOUS
  <1>1. PICK k \in 1..Len(history) : \A f \in Settled : scan[f] = history[k][f]
    BY DEF OfOneMoment, Extends
  <1>2. k \in DOMAIN history' /\ history'[k] = history[k]
    BY Kept DEF Extends
  <1>3. \A f \in Settled' : scan[f] = history'[k][f]
    BY <1>1, <1>2, SettledShrinks
  <1> QED
    BY <1>2, <1>3 DEF OfOneMoment

-----------------------------------------------------------------------------
(***************************************************************************)
(* When the sources were read.                                             *)
(***************************************************************************)
\* Each file of a was read, of the history h, at some moment from K to L.
Within(h, a, K, L) == \A f \in 1..Len(a) : \E k \in K..L : h[k][f] = a[f]

\* The snapshot had been read at K, the runs were given what they ran between
\* K and L, and what the present scan has read it has read since L.
Bracket(m, K, L) ==
  /\ K <= L
  /\ Within(history, snapshot[m], 1, K)
  /\ \A k \in 1..Len(ran[m]) :
       Len(ran[m][k]) = Files /\ Within(history, ran[m][k], K, L)
  /\ Within(history, read[m], L, Len(history))

\* The places between the verdict on the runs and the end of the publication, ...
Publishing ==
  {"staging", "writing", "rechecking", "publishing", "locking", "noting",
   "renaming", "syncing"}

\* ... and all those where the snapshot is still compared with.
Converted ==
  Publishing \union {"copying", "checking", "refusing", "unlocking", "cleaning"}

\* The snapshot was once all the sources, and the runs were of it.
Proven(m) ==
  /\ OfOneMoment(snapshot[m])
  /\ Len(ran[m]) = 3
  /\ \A k \in 1..3 : \A f \in Settled : ran[m][k][f] = snapshot[m][f]

\* When m read what it has read, by its place.
Timed(m) ==
  /\ Within(history, read[m], 1, Len(history))
  /\ pc[m] \in Converted =>
       /\ Len(snapshot[m]) = Files
       /\ \E K, L \in 1..Len(history) : Bracket(m, K, L)
  /\ pc[m] = "checking" => Len(ran[m]) \in {0, 3}
  /\ pc[m] \in Publishing => Proven(m)
  /\ pc[m] \in {"rechecking", "publishing", "locking", "noting", "renaming"} =>
       staged[m] = "whole"

\* The inductive invariant of PublishedIsValidated.
TimeInv == TypeInv /\ \A m \in Migrations : Timed(m)

\* What lies within an interval lies within a longer one, ...
LEMMA Wider ==
  ASSUME NEW h, NEW a, NEW K \in Int, NEW L \in Int, Within(h, a, K, L),
         NEW I \in Int, NEW J \in Int, I <= K, L <= J
  PROVE  Within(h, a, I, J)
  <1> SUFFICES ASSUME NEW f \in 1..Len(a)
               PROVE  \E k \in I..J : h[k][f] = a[f]
    BY DEF Within
  <1>1. PICK k \in K..L : h[k][f] = a[f]
    BY DEF Within
  <1>2. k \in I..J
    OBVIOUS
  <1> QED
    BY <1>1, <1>2

\* ... and within the same one of a longer history.
LEMMA WithinStays ==
  ASSUME NEW h, NEW g, Extends(h, g), NEW a,
         NEW K \in 1..Len(h), NEW L \in 1..Len(h), Within(h, a, K, L)
  PROVE  Within(g, a, K, L)
  <1> SUFFICES ASSUME NEW f \in 1..Len(a)
               PROVE  \E k \in K..L : g[k][f] = a[f]
    BY DEF Within
  <1>1. PICK k \in K..L : h[k][f] = a[f]
    BY DEF Within
  <1>2. k \in 1..Len(h)
    BY DEF Extends
  <1> QED
    BY <1>1, <1>2, Kept

\* Nothing that was read was read at no time.
LEMMA WithinNothing ==
  ASSUME NEW h, NEW K, NEW L
  PROVE  Within(h, << >>, K, L)
  BY DEF Within

\* The next file is read now.
LEMMA ReadNow ==
  ASSUME NEW h \in Seq([1..Files -> Nat]), h # << >>, NEW r \in Seq(Nat),
         Len(r) < Files, NEW L \in 1..Len(h), Within(h, r, L, Len(h))
  PROVE  Within(h, Append(r, h[Len(h)][Len(r) + 1]), L, Len(h))
  <1> DEFINE N == Len(h)
             R == Len(r)
             x == h[N][R + 1]
             a == Append(r, x)
  <1>1. N \in Nat /\ N \in L..N /\ R \in Nat /\ R + 1 \in 1..Files
    BY ConstantsAssumption
  <1>2. x \in Nat
    <2>1. h[N] \in [1..Files -> Nat]
      BY <1>1
    <2> QED
      BY <1>1, <2>1
  <1> HIDE DEF x
  <1>3. /\ Len(a) = R + 1 /\ a[R + 1] = x
        /\ \A f \in 1..R : a[f] = r[f]
    BY <1>1, <1>2
  <1> HIDE DEF a
  <1>4. ASSUME NEW f \in 1..Len(a)
        PROVE  \E k \in L..N : h[k][f] = a[f]
    <2>1. CASE f = R + 1
      BY <1>1, <1>3, <2>1 DEF x
    <2>2. CASE f # R + 1
      <3>1. f \in 1..R
        BY <1>1, <1>3, <2>2
      <3>2. PICK k \in L..N : h[k][f] = r[f]
        BY <3>1 DEF Within
      <3> QED
        BY <1>3, <3>1, <3>2
    <2> QED
      BY <2>1, <2>2
  <1>5. Within(h, a, L, N)
    BY <1>4 DEF Within
  <1> QED
    BY <1>5 DEF a, x

\* A finished scan was made since what it had read was read.
LEMMA SeenNow ==
  ASSUME World, Scans, NEW m \in Migrations, Len(read[m]) + 1 = Files,
         NEW L \in 1..Len(history), Within(history, read[m], L, Len(history))
  PROVE  Within(history, Seen(m), L, Len(history))
  <1>1. /\ history \in Seq([1..Files -> Nat]) /\ history # << >>
        /\ read[m] \in Seq(Nat) /\ Len(read[m]) < Files
    BY DEF World, Scans
  <1>2. Seen(m) = Append(read[m], history[Len(history)][Len(read[m]) + 1])
    BY DEF Seen, source
  <1> QED
    BY <1>1, <1>2, ReadNow

\* The history has a first and a last moment.
LEMMA Moments ==
  ASSUME World
  PROVE  /\ Len(history) \in Nat \ {0} /\ DOMAIN history = 1..Len(history)
         /\ 1 \in 1..Len(history) /\ Len(history) \in 1..Len(history)
  BY DEF World

\* Nothing has been read.
LEMMA TimedInit == Init => \A m \in Migrations : Timed(m)
  <1> SUFFICES ASSUME Init, NEW m \in Migrations PROVE Timed(m)
    OBVIOUS
  <1>1. read[m] = << >> /\ pc[m] = "starting"
    BY DEF Init
  <1>2. Within(history, read[m], 1, Len(history))
    BY <1>1, WithinNothing
  <1> QED
    BY <1>1, <1>2 DEF Timed, Converted, Publishing

\* What is proven stays proven.
LEMMA ProvenStays ==
  ASSUME NEW m \in Migrations, Proven(m), Extends(history, history'),
         snapshot'[m] = snapshot[m], ran'[m] = ran[m]
  PROVE  Proven(m)'
  <1>1. OfOneMoment(snapshot[m])'
    BY MomentStays DEF Proven, OfOneMoment
  <1>2. \A f \in Settled' : f \in Settled
    BY SettledShrinks
  <1> QED
    BY <1>1, <1>2 DEF Proven

\* Nothing that m has read is made later by what others do, edits included.
LEMMA TimedFrame ==
  ASSUME TypeInv, NEW m \in Migrations, Timed(m), Same(m),
         Extends(history, history')
  PROVE  Timed(m)'
  <1> World /\ Scans
    BY DEF TypeInv
  <1> DEFINE N == Len(history)
             M == Len(history')
  <1>1. /\ N \in Nat /\ M \in Nat /\ N <= M /\ 1 \in 1..N /\ N \in 1..N
        /\ \A K \in 1..N : K \in 1..M
    BY Moments DEF Extends
  <1> HIDE DEF N, M
  <1>2. ASSUME NEW K \in 1..N, Within(history, read[m], K, N)
        PROVE  Within(history', read[m], K, M)
    <2>1. Within(history', read[m], K, N)
      BY <1>1, <1>2, WithinStays DEF N
    <2> QED
      BY <1>1, <2>1, Wider
  <1>3. Within(history', read'[m], 1, M)
    BY <1>1, <1>2 DEF Timed, Same, N
  <1>4. ASSUME NEW K \in 1..N, NEW L \in 1..N, Bracket(m, K, L)
        PROVE  Bracket(m, K, L)'
    <2>1. Within(history', snapshot[m], 1, K)
      BY <1>1, <1>4, WithinStays DEF Bracket, N
    <2>2. ASSUME NEW k \in 1..Len(ran[m])
          PROVE  Len(ran[m][k]) = Files /\ Within(history', ran[m][k], K, L)
      BY <1>4, <2>2, WithinStays DEF Bracket, N
    <2>3. Within(history', read[m], L, M)
      BY <1>2, <1>4 DEF Bracket, N
    <2>4. K <= L
      BY <1>4 DEF Bracket
    <2> QED
      BY <2>1, <2>2, <2>3, <2>4 DEF Bracket, Same, M
  <1>5. pc[m] \in Converted => \E K, L \in 1..M : Bracket(m, K, L)'
    BY <1>1, <1>4 DEF Timed, N
  <1>6. pc[m] \in Publishing => Proven(m)'
    BY ProvenStays DEF Timed, Same
  <1> QED
    BY <1>3, <1>5, <1>6 DEF Timed, Same, M

\* The steps that leave what was read as it is, and begin no validation.
LEMMA Quiet ==
  ASSUME NEW m \in Migrations, Timed(m), history' = history,
         snapshot'[m] = snapshot[m], ran'[m] = ran[m], read'[m] = << >>,
         pc'[m] # "checking",
         pc'[m] \in Converted => pc[m] \in Converted,
         pc'[m] \in Publishing => pc[m] \in Publishing,
         pc'[m] \in {"rechecking", "publishing", "locking", "noting",
                     "renaming"} => staged'[m] = "whole"
  PROVE  Timed(m)'
  <1>1. \A K : Within(history', read'[m], K, Len(history'))
    BY WithinNothing
  <1>2. \A K, L : Bracket(m, K, L) => Bracket(m, K, L)'
    BY <1>1 DEF Bracket
  <1>3. Proven(m) => Proven(m)'
    BY DEF Proven, OfOneMoment, Settled
  <1> QED
    BY <1>1, <1>2, <1>3 DEF Timed

\* The next file is read now, and so since all that was read before.
LEMMA TimedRead ==
  ASSUME TypeInv, NEW m \in Migrations, Timed(m), ReadFile(m)
  PROVE  Timed(m)'
  <1> World /\ Scans
    BY DEF TypeInv
  <1>1. /\ pc' = pc /\ snapshot' = snapshot /\ ran' = ran
        /\ staged' = staged /\ history' = history
        /\ read'[m] = Append(read[m], history[Len(history)][Len(read[m]) + 1])
    BY DEF ReadFile, environment, Scans, source
  <1>2. ASSUME NEW L \in 1..Len(history),
               Within(history, read[m], L, Len(history))
        PROVE  Within(history', read'[m], L, Len(history'))
    BY <1>1, <1>2, ReadNow DEF World, Scans
  <1>3. Within(history', read'[m], 1, Len(history'))
    BY <1>2, Moments DEF Timed
  <1>4. ASSUME NEW K \in 1..Len(history), NEW L \in 1..Len(history),
               Bracket(m, K, L)
        PROVE  Bracket(m, K, L)'
    BY <1>1, <1>2, <1>4 DEF Bracket
  <1>5. pc[m] \in Converted => \E K, L \in 1..Len(history') : Bracket(m, K, L)'
    BY <1>1, <1>4 DEF Timed
  <1>6. Proven(m) => Proven(m)'
    BY <1>1 DEF Proven, OfOneMoment, Settled
  <1> QED
    BY <1>1, <1>3, <1>5, <1>6 DEF Timed

\* When the snapshot is complete, this moment is both those of Bracket.
LEMMA TimedConvert ==
  ASSUME TypeInv, NEW m \in Migrations, Timed(m), Convert(m)
  PROVE  Timed(m)'
  <1> World /\ Own /\ Scans /\ Shapes
    BY DEF TypeInv
  <1>0. PICK N \in 1..Len(history) : N = Len(history)
    BY Moments
  <1>1. /\ Len(read[m]) + 1 = Files /\ pc[m] = "snapshotting"
        /\ history' = history /\ ran' = ran /\ staged' = staged
        /\ snapshot' = [snapshot EXCEPT ![m] = Seen(m)]
        /\ read'[m] = << >> /\ pc'[m] \in {"refusing", "checking", "copying"}
    BY PlacesAre, Going DEF Convert, Scanned, At, environment, Refuse
  <1>2. snapshot'[m] = Seen(m) /\ Len(Seen(m)) = Files
    BY <1>1, SeenType DEF Scans
  <1>3. Within(history, Seen(m), 1, N)
    BY <1>1, <1>0, SeenNow, Moments DEF Timed
  <1>4. \A K : Within(history', read'[m], K, Len(history'))
    BY <1>1, WithinNothing
  <1>5. ran'[m] = << >> /\ Len(ran'[m]) = 0
    <2>1. ran[m] = << >>
      BY <1>1 DEF Shapes, Shape
    <2> QED
      BY <1>1, <2>1
  <1>6. N \in Nat /\ N <= N
    BY <1>0, Moments
  <1>7. \A k \in 1..Len(ran'[m]) : FALSE
    BY <1>5
  <1>8. Bracket(m, N, N)'
    BY <1>1, <1>2, <1>3, <1>4, <1>6, <1>7 DEF Bracket
  <1>9. \E K, L \in 1..Len(history') : Bracket(m, K, L)'
    BY <1>0, <1>1, <1>8
  <1> QED
    BY <1>1, <1>2, <1>4, <1>5, <1>9 DEF Timed, Publishing

\* A validation run was given sources of after that moment, and the next scan
\* begins after them.
LEMMA TimedValidate ==
  ASSUME TypeInv, NEW m \in Migrations, Timed(m), Validate(m)
  PROVE  Timed(m)'
  <1> World /\ Own /\ Scans /\ Shapes
    BY DEF TypeInv
  <1>1. /\ Len(read[m]) + 1 = Files /\ pc[m] = "copying"
        /\ history' = history /\ snapshot' = snapshot /\ staged' = staged
        /\ ran' = [ran EXCEPT ![m] = Append(@, Seen(m))]
        /\ read'[m] = << >>
        /\ \/ pc'[m] = "refusing"
           \/ pc'[m] = IF Validated(m) THEN "checking" ELSE "copying"
    BY PlacesAre, Going DEF Validate, Scanned, At, environment, Refuse
  <1>2. Seen(m) \in Seq(Nat) /\ Len(Seen(m)) = Files
    BY <1>1, SeenType
  <1>3. \A K : Within(history', read'[m], K, Len(history'))
    BY <1>1, WithinNothing
  <1>0. PICK N \in 1..Len(history) : N = Len(history)
    BY Moments
  <1> DEFINE R == Len(ran[m])
  <1>4. R \in Nat /\ R <= 2 /\ ran[m] \in Seq(Seq(Nat))
    BY <1>1 DEF Scans, Shapes, Shape
  <1>5. /\ Len(ran'[m]) = R + 1 /\ ran'[m][R + 1] = Seen(m)
        /\ \A k \in 1..R : ran'[m][k] = ran[m][k]
    <2>1. ran'[m] = Append(ran[m], Seen(m))
      BY <1>1 DEF Scans
    <2> QED
      BY <1>2, <1>4, <2>1
  <1>6. pc'[m] = "checking" => R = 2
    BY <1>1 DEF Validated
  <1>7. PICK K \in 1..N, L \in 1..N : Bracket(m, K, L)
    BY <1>0, <1>1 DEF Timed, Converted
  <1>8. N \in Nat /\ N \in 1..N /\ K \in Int /\ L \in Int /\ K <= L /\ L <= N
    BY <1>0, <1>7, Moments DEF Bracket
  <1>9. Within(history, Seen(m), K, N)
    <2>1. Within(history, Seen(m), L, N)
      BY <1>0, <1>1, <1>7, SeenNow DEF Bracket
    <2> QED
      BY <1>8, <2>1, Wider
  <1>10. ASSUME NEW k \in 1..Len(ran'[m])
         PROVE  Len(ran'[m][k]) = Files /\ Within(history, ran'[m][k], K, N)
    <2>1. CASE k = R + 1
      BY <1>2, <1>5, <1>9, <2>1
    <2>2. CASE k # R + 1
      <3>1. k \in 1..R
        <4>1. k \in 1..R + 1 /\ R \in Nat
          BY <1>4, <1>5
        <4> HIDE DEF R
        <4> QED
          BY <2>2, <4>1
      <3>2. Len(ran[m][k]) = Files /\ Within(history, ran[m][k], K, L)
        BY <1>7, <3>1 DEF Bracket
      <3>3. Within(history, ran[m][k], K, N)
        BY <1>8, <3>2, Wider
      <3> QED
        BY <1>5, <3>1, <3>2, <3>3
    <2> QED
      BY <2>1, <2>2
  <1> HIDE DEF R
  <1>11. Within(history, snapshot[m], 1, K) /\ K <= N
    BY <1>7, <1>8 DEF Bracket
  <1>12. Bracket(m, K, N)'
    BY <1>0, <1>1, <1>3, <1>10, <1>11 DEF Bracket
  <1>13. \E I, J \in 1..Len(history') : Bracket(m, I, J)'
    BY <1>0, <1>1, <1>12
  <1>14. pc'[m] \notin Publishing /\ (pc'[m] = "checking" => Len(ran'[m]) = 3)
    <2>1. pc'[m] \in {"refusing", "checking", "copying"}
      BY <1>1
    <2>2. R = 2 => Len(ran'[m]) = 3
      BY <1>5
    <2> QED
      BY <1>6, <2>1, <2>2 DEF Publishing
  <1>15. Len(snapshot'[m]) = Files /\ pc'[m] # "renaming"
    BY <1>1 DEF Timed, Converted
  <1> QED
    BY <1>1, <1>3, <1>13, <1>14, <1>15 DEF Timed, Publishing

\* A scan that sees the snapshot again: whatever was read in between was of the
\* snapshot, unless it came back.
LEMMA Between ==
  ASSUME TypeInv, NEW m \in Migrations, Timed(m), pc[m] \in Converted,
         Len(read[m]) + 1 = Files, Unchanged(m)
  PROVE  /\ OfOneMoment(snapshot[m])
         /\ \A k \in 1..Len(ran[m]) : \A f \in Settled :
              ran[m][k][f] = snapshot[m][f]
  <1> World /\ Own /\ Scans /\ Shapes
    BY DEF TypeInv
  <1> DEFINE N == Len(history)
  <1>1. PICK K \in 1..N, L \in 1..N : Bracket(m, K, L)
    BY DEF Timed
  <1>2. Len(snapshot[m]) = Files /\ Seen(m) = snapshot[m]
    BY DEF Timed, Unchanged
  <1>3. N \in Nat /\ DOMAIN history = 1..N /\ Files \in Nat
    BY Moments, ConstantsAssumption
  <1>4. Within(history, snapshot[m], L, N)
    BY <1>1, <1>2, SeenNow DEF Bracket
  <1> HIDE DEF N
  <1>5. ASSUME NEW f \in Settled, NEW i \in K..L
        PROVE  history[i][f] = snapshot[m][f]
    <2>1. f \in 1..Files /\ f \in 1..Len(snapshot[m])
      BY <1>2 DEF Settled
    <2>2. PICK j \in 1..K : history[j][f] = snapshot[m][f]
      BY <1>1, <2>1 DEF Bracket, Within
    <2>3. PICK l \in L..N : history[l][f] = snapshot[m][f]
      BY <1>4, <2>1 DEF Within
    <2>4. j \in 1..N /\ l \in 1..N /\ i \in j..l /\ (j < l \/ i = j)
      BY <1>3
    <2>5. j < l => history[i][f] = history[j][f]
      BY <1>3, <2>2, <2>3, <2>4 DEF Settled
    <2> QED
      BY <2>2, <2>4, <2>5
  <1>6. K \in K..L
    BY <1>1 DEF Bracket
  <1>7. OfOneMoment(snapshot[m])
    BY <1>3, <1>5, <1>6 DEF OfOneMoment
  <1>8. ASSUME NEW k \in 1..Len(ran[m]), NEW f \in Settled
        PROVE  ran[m][k][f] = snapshot[m][f]
    <2>1. Len(ran[m][k]) = Files /\ Within(history, ran[m][k], K, L)
      BY <1>1 DEF Bracket
    <2>2. f \in 1..Len(ran[m][k])
      BY <2>1 DEF Settled
    <2>3. PICK i \in K..L : history[i][f] = ran[m][k][f]
      BY <2>1, <2>2 DEF Within
    <2> QED
      BY <1>5, <2>3
  <1> QED
    BY <1>7, <1>8

\* To publish is decided by the scan of Between, after three runs.
LEMMA TimedCheck ==
  ASSUME TypeInv, NEW m \in Migrations, Timed(m), Check(m)
  PROVE  Timed(m)'
  <1> Scans
    BY DEF TypeInv
  <1>1. /\ history' = history /\ snapshot' = snapshot /\ ran' = ran
        /\ read'[m] = << >> /\ pc[m] = "checking" /\ Len(read[m]) + 1 = Files
        /\ \/ pc'[m] = "reporting"
           \/ pc'[m] = "staging" /\ Unchanged(m) /\ ran[m] # << >>
    BY PlacesAre, ReportedAre, Going, Returning, Changing
       DEF Check, Scanned, At, environment
  <1>2. pc'[m] = "staging" => Proven(m)
    <2>1. ran[m] # << >> => Len(ran[m]) = 3
      BY <1>1 DEF Timed, Scans
    <2> QED
      BY <1>1, <2>1, Between DEF Proven, Converted
  <1>3. Proven(m) => Proven(m)'
    BY <1>1 DEF Proven, OfOneMoment, Settled
  <1>4. \A K : Within(history', read'[m], K, Len(history'))
    BY <1>1, WithinNothing
  <1>5. \A K, L : Bracket(m, K, L) => Bracket(m, K, L)'
    BY <1>1, <1>4 DEF Bracket
  <1> QED
    BY <1>1, <1>2, <1>3, <1>4, <1>5 DEF Timed, Converted, Publishing

\* Every step of a migration is one of those above, or a quiet one.
LEMMA TimedStep ==
  ASSUME TypeInv, NEW m \in Migrations, Timed(m), Step(m) \/ Failure(m)
  PROVE  Timed(m)'
  <1> World /\ Own /\ Scans /\ Shapes
    BY DEF TypeInv
  <1> history' = history
    BY TypeStep
  <1>1. CASE ReadFile(m)
    BY <1>1, TimedRead
  <1>2. CASE Convert(m)
    BY <1>2, TimedConvert
  <1>3. CASE Validate(m)
    BY <1>3, TimedValidate
  <1>4. CASE Check(m)
    BY <1>4, TimedCheck
  <1>5. CASE ReadFails(m)
    BY <1>5, PlacesAre, Going, ReportedAre, Returning, Changing, Quiet
       DEF ReadFails, Refuse, At, Converted, Publishing
  <1>6. CASE BreaksOff(m)
    <2>1. /\ snapshot' = snapshot /\ ran' = ran /\ read'[m] = << >>
          /\ pc'[m] = "ended"
      BY <1>6, PlacesAre, Going, Exiting DEF BreaksOff
    <2> QED
      BY <2>1, Quiet DEF Converted, Publishing
  <1>7. CASE Precheck(m)
    BY <1>7, PlacesAre, Going, Exiting, Quiet
       DEF Precheck, Converted, Publishing
  <1>8. CASE Preflight(m)
    BY <1>8, PlacesAre, Going, ReportedAre, Returning, Quiet
       DEF Preflight, Converted, Publishing
  <1>9. CASE Refused(m)
    BY <1>9, PlacesAre, Going, Returning, Changing, Quiet
       DEF Refused, Scanned, At, Shapes, Shape, Converted, Publishing
  <1>10. CASE Stage(m)
    <2>1. /\ snapshot' = snapshot /\ ran' = ran /\ read'[m] = << >>
          /\ pc[m] = "staging" /\ pc'[m] \in {"writing", "refusing"}
      BY <1>10, PlacesAre, Going DEF Stage, Refuse, At
    <2> QED
      BY <2>1, Quiet DEF Converted, Publishing
  <1>11. CASE Write(m)
    BY <1>11, PlacesAre, Going, PayloadsAre, Storing, Quiet
       DEF Write, At, Converted, Publishing
  <1>12. CASE Recheck(m)
    BY <1>12, PlacesAre, Going, Quiet
       DEF Recheck, Scanned, At, Timed, Converted, Publishing
  <1>13. CASE Publish(m)
    BY <1>13, PlacesAre, Going, Quiet
       DEF Publish, At, Timed, Converted, Publishing
  <1>14. CASE Lock(m)
    BY <1>14, PlacesAre, Going, Quiet
       DEF Lock, Contend, At, Timed, Converted, Publishing
  <1>15. CASE Note(m)
    BY <1>15, PlacesAre, Going, Quiet
       DEF Note, At, Timed, Converted, Publishing
  <1>16. CASE Rename(m)
    BY <1>16, PlacesAre, Going, Quiet
       DEF Rename, At, Converted, Publishing
  <1>17. CASE PublishFails(m)
    BY <1>17, PlacesAre, Going, Quiet
       DEF PublishFails, At, Converted, Publishing
  <1>18. CASE Sync(m)
    BY <1>18, PlacesAre, Going, Quiet
       DEF Sync, At, Converted, Publishing
  <1>19. CASE Unlock(m)
    BY <1>19, PlacesAre, Going, Quiet
       DEF Unlock, At, Converted, Publishing
  <1>20. CASE Clean(m)
    BY <1>20, PlacesAre, Going, ReportedAre, Returning, Changing, Exiting,
       Quiet
       DEF Clean, Conclude, At, Converted, Publishing
  <1>21. CASE Report(m)
    <2>1. /\ snapshot' = snapshot /\ ran' = ran /\ read'[m] = << >>
          /\ pc'[m] \in {"linking", "ended"}
      BY <1>21, PlacesAre, Going, Codes, Exiting DEF Report, Taken, At
    <2> QED
      BY <2>1, Quiet DEF Converted, Publishing
  <1>22. CASE Link(m)
    BY <1>22, PlacesAre, Going, Codes, Exiting, Quiet
       DEF Link, At, Converted, Publishing
  <1>23. CASE LinkFails(m)
    BY <1>23, PlacesAre, Going, Codes, Exiting, Quiet
       DEF LinkFails, At, Converted, Publishing
  <1>24. CASE Interrupt(m)
    <2>1. /\ snapshot' = snapshot /\ ran' = ran /\ read'[m] = << >>
          /\ \/ pc'[m] \in {"unlocking", "cleaning"} /\ pc[m] \in Converted
             \/ pc'[m] = "ended"
      BY <1>24, PlacesAre, Going, Exiting
         DEF Interrupt, Staging, At, Converted, Publishing
    <2> QED
      BY <2>1, Quiet DEF Converted, Publishing
  <1>25. CASE Kill(m)
    BY <1>25, PlacesAre, Going, Quiet
       DEF Kill, Converted, Publishing
  <1> QED
    BY <1>1, <1>2, <1>3, <1>4, <1>5, <1>6, <1>7, <1>8, <1>9, <1>10, <1>11,
       <1>12, <1>13, <1>14, <1>15, <1>16, <1>17, <1>18, <1>19, <1>20, <1>21,
       <1>22, <1>23, <1>24, <1>25
       DEF Step, Failure

\* TimeInv is inductive.
LEMMA TimedNext == TimeInv /\ [Next]_vars => TimeInv'
  <1> SUFFICES ASSUME TypeInv, [Next]_vars, \A m \in Migrations : Timed(m)
               PROVE  TimeInv'
    BY DEF TimeInv
  <1>1. TypeInv' /\ Extends(history, history')
    BY TypeNext, HistoryGrows
  <1>2. ASSUME NEW m \in Migrations PROVE Timed(m)'
    <2>1. ASSUME NEW n \in Migrations, Step(n) \/ Failure(n)
          PROVE  Timed(m)'
      <3>1. CASE m = n
        BY <2>1, <3>1, TimedStep
      <3>2. CASE m # n
        BY <1>1, <2>1, <3>2, TypeStep, TimedFrame
      <3> QED
        BY <3>1, <3>2
    <2>2. CASE own' = own
      BY <1>1, <2>2, TimedFrame DEF own, Same
    <2> QED
      BY <2>1, <2>2
         DEF Next, Over, Others, Edit, CreateOutput, CreateReport, vars
  <1> QED
    BY <1>1, <1>2 DEF TimeInv

\* Only a rename makes the output that of a migration.
LEMMA Renamed ==
  ASSUME TypeInv, [Next]_vars, output' # output, output' \in Migrations
  PROVE  \E m \in Migrations : Rename(m) /\ output' = m
  <1>1. ASSUME NEW m \in Migrations, Step(m) \/ Failure(m)
        PROVE  Rename(m) /\ output' = m
    BY <1>1
       DEF Step, Failure, environment, Precheck, Preflight, ReadFile,
           ReadFails, BreaksOff, Convert, Validate, Check, Refused, Stage,
           Write, Recheck, Publish, Lock, Note, Rename, PublishFails,
           Sync, Unlock, Clean, Report, Link, LinkFails, Interrupt, Kill
  <1>2. ~Others /\ ~UNCHANGED vars
    BY ConstantsAssumption
       DEF Others, Edit, CreateOutput, CreateReport, Someone, vars,
           environment
  <1> QED
    BY <1>1, <1>2 DEF Next, Over

\* What is published was validated, whole, and is of the sources as they were
\* at one moment: atomic_publish is only reached through the three runs, and
\* an edit between the first scan and the last shows, unless it is undone.
THEOREM PublishedIsValidated == Spec => PublishedWasValidated
  <1> DEFINE P == output' # output /\ output' \in Migrations =>
       /\ whole'
       /\ OfOneMoment(snapshot[output'])
       /\ Len(ran[output']) = 3
       /\ \A k \in 1..3 : \A f \in Settled :
            ran[output'][k][f] = snapshot[output'][f]
  <1>1. Init => TimeInv
    BY TypeInit, TimedInit DEF TimeInv
  <1>2. TimeInv /\ [Next]_vars => P
    <2> SUFFICES ASSUME TimeInv, [Next]_vars, output' # output,
                        output' \in Migrations
                 PROVE  P
      OBVIOUS
    <2>1. PICK m \in Migrations : Rename(m) /\ output' = m
      BY Renamed DEF TimeInv
    <2>2. pc[m] = "renaming" /\ whole' = (staged[m] = "whole")
      BY <2>1 DEF Rename, At
    <2>3. staged[m] = "whole" /\ Proven(m)
      BY <2>2 DEF TimeInv, Timed, Publishing
    <2> QED
      BY <2>1, <2>2, <2>3 DEF Proven
  <1> QED
    BY <1>1, <1>2, TimedNext, PTL DEF Spec, PublishedWasValidated

-----------------------------------------------------------------------------
(***************************************************************************)
(* The rename and the link do not replace.                                 *)
(***************************************************************************)

\* What is there stays what it is.
Keeps ==
  /\ output # Absent => output' = output /\ whole' = whole
  /\ \A p \in Paths : reports[p] # Absent => reports'[p] = reports[p]

\* An output or a report, once there, is replaced by no step of a migration or
\* of anyone else: the rename and the link of migration_fs.py fail on a path
\* that exists.
THEOREM NothingReplaced == Spec => NothingIsReplaced
  <1>1. TypeInv /\ [Next]_vars => Keeps
    <2> SUFFICES ASSUME TypeInv, [Next]_vars PROVE Keeps
      OBVIOUS
    <2>1. reports \in [Paths -> Owners]
      BY DEF TypeInv, World
    <2>2. ASSUME NEW m \in Migrations, Link(m) PROVE Keeps
      BY <2>1, <2>2 DEF Link, Keeps
    <2>3. ASSUME NEW m \in Migrations, Rename(m) PROVE Keeps
      BY <2>3 DEF Rename, Free, Keeps
    <2>4. ASSUME NEW p \in Paths, CreateReport(p) PROVE Keeps
      BY <2>1, <2>4 DEF CreateReport, Keeps
    <2>5. CASE CreateOutput
      BY <2>5 DEF CreateOutput, Keeps
    <2>6. CASE UNCHANGED <<output, whole, reports>>
      BY <2>6 DEF Keeps
    <2>7. ASSUME NEW m \in Migrations, Step(m) \/ Failure(m),
                 ~Link(m), ~Rename(m)
          PROVE  UNCHANGED <<output, whole, reports>>
      BY <2>7
         DEF Step, Failure, environment, Precheck, Preflight, ReadFile,
             ReadFails, BreaksOff, Convert, Validate, Check, Refused, Stage,
             Write, Recheck, Publish, Lock, Note, PublishFails, Sync,
             Unlock, Clean, Report, LinkFails, Interrupt, Kill
    <2> QED
      BY <2>2, <2>3, <2>4, <2>5, <2>6, <2>7
         DEF Next, Over, Others, Edit, vars, environment
  <1> QED
    BY <1>1, TypeInit, TypeNext, PTL DEF Spec, NothingIsReplaced, Keeps

-----------------------------------------------------------------------------
(***************************************************************************)
(* What a migration has created it removes.                                *)
(***************************************************************************)

\* The places of atomic_publish between the lock and its removal, ...
Locking == {"noting", "renaming", "syncing", "unlocking"}

\* ... and those of a transaction.
Transacting == Staging \union Locking \union {"cleaning"}

\* m was killed, or was stopped or failed in what it did to its lock ...
SpoiledLock(m) ==
  \E doing \in Doings \ {"removing-staging"} : <<m, doing>> \in spoiled

\* ... or in the removal of its transaction directory.
SpoiledStaging(m) == <<m, "removing-staging">> \in spoiled

\* A migration has a lock or a transaction directory only in between, unless it
\* could not remove them.
Left(m) ==
  /\ lock = m => pc[m] \in Locking \/ SpoiledLock(m)
  /\ staged[m] # "none" =>
       pc[m] \in Transacting \union {"killed"} \/ SpoiledStaging(m)
  /\ ~Unfinished(m) => pc[m] = "ended"

\* Nothing has been created.
LEMMA LeftInit == Init => \A m \in Migrations : Left(m)
  <1> SUFFICES ASSUME Init, NEW m \in Migrations PROVE Left(m)
    OBVIOUS
  <1>1. lock # m /\ staged[m] = "none" /\ exit[m] = Running
    BY ConstantsAssumption DEF Init, Absent
  <1> QED
    BY <1>1 DEF Left, Unfinished

\* What has been spoiled stays so, ...
LEMMA StaysSpoiled ==
  ASSUME NEW m \in Migrations, Step(m) \/ Failure(m)
  PROVE  /\ SpoiledLock(m) => SpoiledLock(m)'
         /\ SpoiledStaging(m) => SpoiledStaging(m)'
  <1>1. spoiled \subseteq spoiled'
    BY DEF Spoil, Step, Failure, Precheck, Preflight, ReadFile, ReadFails,
           BreaksOff, Convert, Validate, Check, Refused, Stage, Write, Recheck,
           Publish, Lock, Note, Rename, PublishFails, Sync, Unlock, Clean,
           Report, Link, LinkFails, Interrupt, Kill
  <1> QED
    BY <1>1 DEF SpoiledLock, SpoiledStaging

\* ... and this is what spoils.
LEMMA Spoils ==
  ASSUME NEW m \in Migrations
  PROVE  /\ Spoil(m, "killed") => SpoiledLock(m)'
         /\ Spoil(m, "writing-lock") => SpoiledLock(m)'
         /\ Spoil(m, "finding-lock") => SpoiledLock(m)'
         /\ Spoil(m, "removing-lock") => SpoiledLock(m)'
         /\ Spoil(m, "removing-staging") => SpoiledStaging(m)'
  <1>1. /\ "killed" \in Doings \ {"removing-staging"}
        /\ "writing-lock" \in Doings \ {"removing-staging"}
        /\ "finding-lock" \in Doings \ {"removing-staging"}
        /\ "removing-lock" \in Doings \ {"removing-staging"}
    BY DEF Doings
  <1>2. \A doing \in Doings : Spoil(m, doing) => <<m, doing>> \in spoiled'
    BY DEF Spoil
  <1>3. Spoil(m, "removing-staging") => <<m, "removing-staging">> \in spoiled'
    BY DEF Spoil
  <1>4. \A doing \in Doings \ {"removing-staging"} :
          <<m, doing>> \in spoiled' => SpoiledLock(m)'
    BY DEF SpoiledLock
  <1> QED
    BY <1>1, <1>2, <1>3, <1>4 DEF SpoiledStaging

\* What m has left is not the business of another step.
LEMMA LeftFrame ==
  ASSUME NEW m \in Migrations, Left(m), Same(m), lock' = m => lock = m
  PROVE  Left(m)'
  <1>1. SpoiledLock(m) => SpoiledLock(m)'
    BY DEF SpoiledLock, Same
  <1>2. SpoiledStaging(m) => SpoiledStaging(m)'
    BY DoingsAre DEF SpoiledStaging, Same
  <1> QED
    BY <1>1, <1>2 DEF Left, Same, Unfinished

\* Nobody creates or takes over a lock for another.
LEMMA LockIsOnes ==
  ASSUME NEW m \in Migrations, Step(m) \/ Failure(m)
  PROVE  lock' \in {lock, m, Absent}
  BY
     DEF Step, Failure, environment, Precheck, Preflight, ReadFile, ReadFails,
         BreaksOff, Convert, Validate, Check, Refused, Stage, Write, Recheck,
         Publish, Lock, Contend, Note, Rename, PublishFails, Sync,
         Unlock, Clean, Report, Link, LinkFails, Interrupt, Kill

\* Every way out of a transaction leads through its removal.
LEMMA LeftStep ==
  ASSUME TypeInv, NEW m \in Migrations, Left(m), Step(m) \/ Failure(m)
  PROVE  Left(m)'
  <1>0. /\ SpoiledLock(m) => SpoiledLock(m)'
        /\ SpoiledStaging(m) => SpoiledStaging(m)'
    BY StaysSpoiled
  <1>1. CASE ReadFile(m)
    BY <1>0, <1>1 DEF ReadFile, Left, Unfinished, environment
  <1>2. CASE Convert(m)
    BY <1>0, <1>2
       DEF Convert, Scanned, At, Left, Unfinished, Locking, Transacting,
           Staging, environment
  <1>3. CASE Validate(m)
    BY <1>0, <1>3
       DEF Validate, Scanned, At, Left, Unfinished, Locking, Transacting,
           Staging, environment
  <1>4. CASE Check(m)
    BY <1>0, <1>4
       DEF Check, Scanned, At, Left, Unfinished, Locking, Transacting,
           Staging, environment
  <1>5. CASE ReadFails(m)
    BY <1>0, <1>5, PlacesAre, Going
       DEF ReadFails, At, Left, Unfinished, Locking, Transacting, Staging,
           environment
  <1>6. CASE BreaksOff(m)
    BY <1>0, <1>6, PlacesAre, Going, Exiting
       DEF BreaksOff, Scanning, Left, Locking, Transacting, Staging,
           environment
  <1>7. CASE Precheck(m)
    BY <1>0, <1>7, PlacesAre, Going, Exiting
       DEF Precheck, At, Left, Unfinished, Locking, Transacting, Staging,
           environment
  <1>8. CASE Preflight(m)
    BY <1>0, <1>8
       DEF Preflight, At, Left, Unfinished, Locking, Transacting, Staging,
           environment
  <1>9. CASE Refused(m)
    BY <1>0, <1>9
       DEF Refused, Scanned, At, Left, Unfinished, Locking, Transacting,
           Staging, environment
  <1>10. CASE Stage(m)
    BY <1>0, <1>10, PlacesAre, Going
       DEF Stage, At, Left, Unfinished, Locking, Transacting, Staging,
           environment
  <1>11. CASE Write(m)
    BY <1>0, <1>11, PlacesAre, Going
       DEF Write, At, Left, Unfinished, Locking, Transacting, Staging,
           environment
  <1>12. CASE Recheck(m)
    BY <1>0, <1>12, PlacesAre, Going
       DEF Recheck, Scanned, At, Left, Unfinished, Locking, Transacting,
           Staging, environment
  <1>13. CASE Publish(m)
    BY <1>0, <1>13, PlacesAre, Going
       DEF Publish, At, Left, Unfinished, Locking, Transacting, Staging,
           environment
  <1>14. CASE Lock(m)
    BY <1>0, <1>14, PlacesAre, Going
       DEF Lock, Contend, At, Left, Unfinished, Locking, Transacting
  <1>15. CASE Note(m)
    BY <1>0, <1>15, PlacesAre, Going, Spoils
       DEF Note, At, Left, Unfinished, Locking, Transacting, environment
  <1>16. CASE Rename(m)
    BY <1>0, <1>16, PlacesAre, Going
       DEF Rename, At, Left, Unfinished, Locking, Transacting
  <1>17. CASE PublishFails(m)
    BY <1>0, <1>17, PlacesAre, Going
       DEF PublishFails, At, Left, Unfinished, Locking, Transacting, Staging,
           environment
  <1>18. CASE Sync(m)
    BY <1>0, <1>18, PlacesAre, Going
       DEF Sync, At, Left, Unfinished, Locking, Transacting
  <1>19. CASE Unlock(m)
    BY <1>0, <1>19, PlacesAre, Going, Spoils, ConstantsAssumption
       DEF Unlock, Releases, Absent, At, Left, Unfinished, Transacting
  <1>20. CASE Clean(m)
    BY <1>0, <1>20, PlacesAre, Going, PayloadsAre, Storing, Exiting, Spoils
       DEF Clean, Conclude, At, Left, Unfinished, Locking, environment
  <1>21. CASE Report(m)
    BY <1>0, <1>21, PlacesAre, Going, Codes, Exiting
       DEF Report, Taken, At, Left, Unfinished, Locking, Transacting, Staging,
           environment
  <1>22. CASE Link(m)
    BY <1>0, <1>22, PlacesAre, Going, Codes, Exiting
       DEF Link, At, Left, Locking, Transacting, Staging
  <1>23. CASE LinkFails(m)
    BY <1>0, <1>23, PlacesAre, Going, Codes, Exiting
       DEF LinkFails, At, Left, Locking, Transacting, Staging, environment
  <1>24. CASE Interrupt(m)
    BY <1>0, <1>24, PlacesAre, Going, Exiting, Spoils
       DEF Interrupt, At, Left, Unfinished, Locking, Transacting, Staging,
           environment
  <1>25. CASE Kill(m)
    BY <1>0, <1>25, PlacesAre, Going, Spoils
       DEF Kill, Left, Unfinished, environment
  <1> QED
    BY <1>1, <1>2, <1>3, <1>4, <1>5, <1>6, <1>7, <1>8, <1>9, <1>10, <1>11,
       <1>12, <1>13, <1>14, <1>15, <1>16, <1>17, <1>18, <1>19, <1>20, <1>21,
       <1>22, <1>23, <1>24, <1>25
       DEF Step, Failure

\* So Left is inductive.
LEMMA LeftNext ==
  ASSUME TypeInv, \A m \in Migrations : Left(m), [Next]_vars,
         NEW m \in Migrations
  PROVE  Left(m)'
  <1>1. ASSUME NEW n \in Migrations, Step(n) \/ Failure(n)
        PROVE  Left(m)'
    <2>1. CASE m = n
      BY <1>1, <2>1, LeftStep
    <2>2. CASE m # n
      BY <1>1, <2>2, TypeStep, LockIsOnes, LeftFrame, ConstantsAssumption
         DEF Absent
    <2> QED
      BY <2>1, <2>2
  <1>2. CASE own' = own /\ lock' = lock
    BY <1>2, LeftFrame DEF own, Same
  <1> QED
    BY <1>1, <1>2
       DEF Next, Over, Others, Edit, CreateOutput, CreateReport, vars,
           environment

\* Whatever fails, and whoever else migrates or edits: no lock and no staging
\* directory remains of a migration that was not killed, stopped or failing in
\* the very steps that create the lock or remove either.
THEOREM NothingLeft == Spec => []NothingIsLeftBehind
  <1> DEFINE LeftInv == TypeInv /\ \A m \in Migrations : Left(m)
  <1>1. Init => LeftInv
    BY TypeInit, LeftInit
  <1>2. LeftInv /\ [Next]_vars => LeftInv'
    BY TypeNext, LeftNext
  <1>3. LeftInv => NothingIsLeftBehind
    BY DEF Left, SpoiledLock, SpoiledStaging, NothingIsLeftBehind, Locking,
           Transacting, Staging
  <1> QED
    BY <1>1, <1>2, <1>3, PTL DEF Spec

-----------------------------------------------------------------------------
(***************************************************************************)
(* Reports.                                                                *)
(***************************************************************************)

\* A file has changed since it was as the snapshot has it.
Stale(m) ==
  \E f \in 1..Files : \E j, l \in DOMAIN history :
    /\ j < l /\ history[j][f] = snapshot[m][f]
    /\ history[l][f] # snapshot[m][f]

\* A report may say that the sources were modified.
Excused(m) == Stale(m) \/ faults > 0

\* The places after migrate() has returned or raised.
Returned == {"reporting", "linking", "ended", "killed"}

\* The places between the publication and its report.
Ending == {"unlocking", "cleaning"}

\* The snapshot was once all the sources.
Coherent(m) == OfOneMoment(snapshot[m])

\* The lock could not be looked at after the publication.
Missed(m) == <<m, "finding-lock">> \in spoiled

\* Where m is, and what it is going to report, say whether the output is its own.
OutputTold(m) ==
  /\ output = m => \/ pc[m] \in {"syncing"} \union Ending \union Returned
                   \/ pc[m] = "refusing" /\ Missed(m)
  /\ pc[m] = "syncing" => output = m
  /\ pc[m] \in Ending /\ output = m =>
       \/ verdict[m] \in {"PUBLISHED", "INTERRUPTED"}
       \/ verdict[m] = "SAFETY_ERROR" /\ Missed(m)
  /\ pc[m] \in Ending /\ verdict[m] = "PUBLISHED" =>
       output = m /\ Coherent(m)

\* A refusal reports no success, and a change only if there was one.
RefusalTold(m) ==
  /\ pc[m] = "refusing" =>
       verdict[m] \in {"UNSUPPORTED", "VALIDATION_FAILED", "SAFETY_ERROR"}
  /\ pc[m] \in Ending /\ verdict[m] = "CHANGED" => Excused(m)

\* The report says so.
ReportTold(m) ==
  \/ result[m] = NoReport
  \/ /\ pc[m] \in Returned /\ result[m].status \in Reported
     /\ result[m].published => output = m
     /\ output = m => result[m].published \/ Missed(m)
     /\ result[m].status \in {"ANALYZED", "VALIDATED", "PUBLISHED"} => Coherent(m)
     /\ result[m].modified => Excused(m)

\* What reports rest on.
Told(m) == OutputTold(m) /\ RefusalTold(m) /\ ReportTold(m)

\* Nothing is reported yet.
LEMMA ToldInit == Init => \A m \in Migrations : Told(m)
  <1> SUFFICES ASSUME Init, NEW m \in Migrations PROVE Told(m)
    OBVIOUS
  <1>1. output # m /\ pc[m] = "starting" /\ result[m] = NoReport
    BY ConstantsAssumption DEF Init, Absent
  <1> QED
    BY <1>1 DEF Told, OutputTold, RefusalTold, ReportTold, Ending

\* A fault is not forgotten.
LEMMA FaultsGrow ==
  ASSUME TypeInv, [Next]_vars
  PROVE  faults > 0 => faults' > 0
  <1>1. ASSUME NEW m \in Migrations, Step(m) \/ Failure(m)
        PROVE  faults' = faults \/ faults' = faults + 1
    BY <1>1
       DEF Fault, Step, Failure, Precheck, Preflight, ReadFile, ReadFails,
           BreaksOff, Convert, Validate, Check, Refused, Stage, Write,
           Recheck, Publish, Lock, Note, Rename, PublishFails, Sync,
           Unlock, Clean, Report, Link, LinkFails, Interrupt, Kill
  <1>2. faults' = faults \/ faults' = faults + 1
    BY <1>1 DEF Next, Over, Others, Edit, CreateOutput, CreateReport, vars
  <1>3. faults \in Nat
    BY DEF TypeInv, World
  <1> QED
    BY <1>2, <1>3

\* An excuse stays one, and so does a moment.
LEMMA ExcusedStays ==
  ASSUME TypeInv, [Next]_vars, NEW m \in Migrations, snapshot'[m] = snapshot[m]
  PROVE  (Excused(m) => Excused(m)') /\ (Coherent(m) => Coherent(m)')
  <1>1. Extends(history, history') /\ DOMAIN history = 1..Len(history)
    BY HistoryGrows DEF TypeInv, World
  <1>2. ASSUME faults > 0 PROVE Excused(m)'
    BY <1>2, FaultsGrow DEF Excused
  <1>3. ASSUME Stale(m) PROVE Excused(m)'
    <2>1. PICK f \in 1..Files, j \in 1..Len(history), l \in 1..Len(history) :
            /\ j < l /\ history[j][f] = snapshot[m][f]
            /\ history[l][f] # snapshot[m][f]
      BY <1>1, <1>3 DEF Stale
    <2>2. /\ j \in DOMAIN history' /\ history'[j] = history[j]
          /\ l \in DOMAIN history' /\ history'[l] = history[l]
      BY <1>1, Kept DEF Extends
    <2> QED
      BY <2>1, <2>2 DEF Excused, Stale
  <1>4. Coherent(m) => Coherent(m)'
    BY <1>1, MomentStays DEF Coherent, OfOneMoment
  <1> QED
    BY <1>2, <1>3, <1>4 DEF Excused

\* A scan that does not see the snapshot again shows that it is outdated.
LEMMA ChangedIsStale ==
  ASSUME TypeInv, NEW m \in Migrations, Timed(m),
         pc[m] \in Converted, Len(read[m]) + 1 = Files, ~Unchanged(m)
  PROVE  Stale(m)
  <1> World /\ Scans
    BY DEF TypeInv
  <1>1. PICK K \in 1..Len(history), L \in 1..Len(history) : Bracket(m, K, L)
    BY DEF Timed
  <1>2. /\ Len(snapshot[m]) = Files /\ snapshot[m] \in Seq(Nat)
        /\ Len(Seen(m)) = Files /\ Seen(m) \in Seq(Nat)
    BY SeenType DEF Timed, Scans
  <1>3. PICK f \in 1..Files : Seen(m)[f] # snapshot[m][f]
    BY <1>2, SeqEqual DEF Unchanged
  <1>4. PICK j \in 1..K : history[j][f] = snapshot[m][f]
    BY <1>1, <1>2, <1>3 DEF Bracket, Within
  <1>5. Within(history, Seen(m), L, Len(history))
    BY <1>1, SeenNow DEF Bracket
  <1>6. PICK l \in L..Len(history) : history[l][f] = Seen(m)[f]
    BY <1>2, <1>3, <1>5 DEF Within
  <1>7. j \in DOMAIN history /\ l \in DOMAIN history /\ j <= l
    BY <1>1, Moments DEF Bracket
  <1>8. j # l
    BY <1>3, <1>4, <1>6
  <1>9. j < l
    BY <1>7, <1>8
  <1> QED
    BY <1>3, <1>4, <1>6, <1>7, <1>9 DEF Stale

\* What a report says, field by field.
LEMMA Tells ==
  ASSUME TypeInv, NEW m \in Migrations
  PROVE  /\ \A status \in Reported : Return(m, status) =>
              /\ ~result'[m].modified
              /\ result'[m].published <=> status = "PUBLISHED"
         /\ SourceChanged(m) =>
              /\ result'[m].modified /\ result'[m].status = "SAFETY_ERROR"
              /\ ~result'[m].published
  <1>1. result \in [Migrations -> Results]
    BY DEF TypeInv, Own
  <1>2. ASSUME NEW status \in Reported, Return(m, status)
        PROVE  result'[m] = [status |-> status, modified |-> FALSE,
                             published |-> status = "PUBLISHED"]
    BY <1>1, <1>2, Zenon DEF Return
  <1>3. ASSUME SourceChanged(m)
        PROVE  result'[m] = [status |-> "SAFETY_ERROR", modified |-> TRUE,
                             published |-> FALSE]
    BY <1>1, <1>3, Zenon DEF SourceChanged
  <1>4. ASSUME NEW status \in Reported, Return(m, status)
        PROVE  /\ ~result'[m].modified
               /\ result'[m].published <=> status = "PUBLISHED"
    <2>1. CASE status = "PUBLISHED"
      <3>1. result'[m] = [status |-> status, modified |-> FALSE,
                           published |-> TRUE]
        BY <1>2, <1>4, <2>1, Zenon
      <3> QED
        BY <2>1, <3>1
    <2>2. CASE status # "PUBLISHED"
      <3>1. (status = "PUBLISHED") = FALSE
        BY <2>2
      <3>2. result'[m] = [status |-> status, modified |-> FALSE,
                           published |-> FALSE]
        BY <1>2, <1>4, <3>1, Zenon
      <3> QED
        BY <2>2, <3>2
    <2> QED
      BY <2>1, <2>2
  <1>5. ASSUME SourceChanged(m)
        PROVE  /\ result'[m].modified /\ result'[m].status = "SAFETY_ERROR"
               /\ ~result'[m].published
    BY <1>3, <1>5
  <1> QED
    BY <1>4, <1>5

\* A step of another makes the output nobody else's.
LEMMA OutputIsOnes ==
  ASSUME TypeInv, NEW m \in Migrations, NEW n \in Migrations \ {m},
         Step(n) \/ Failure(n)
  PROVE  output' = m <=> output = m
  <1>1. CASE Rename(n)
    BY <1>1, ConstantsAssumption DEF Rename, Free, Absent
  <1>2. CASE ~Rename(n)
    BY <1>2
       DEF Step, Failure, environment, Precheck, Preflight, ReadFile,
           ReadFails, BreaksOff, Convert, Validate, Check, Refused, Stage,
           Write, Recheck, Publish, Lock, Note, PublishFails, Sync,
           Unlock, Clean, Report, Link, LinkFails, Interrupt, Kill
  <1> QED
    BY <1>1, <1>2

\* A failing call excuses every report.
LEMMA Faulty ==
  ASSUME TypeInv, Fault
  PROVE  \A m \in Migrations : Excused(m)'
  <1>1. faults \in Nat /\ faults' = faults + 1
    BY DEF TypeInv, World, Fault
  <1>2. faults' > 0
    BY <1>1
  <1> QED
    BY <1>2 DEF Excused

\* What m reports is not the business of another step.
LEMMA ToldFrame ==
  ASSUME NEW m \in Migrations, Told(m), Same(m), output' = m <=> output = m,
         Excused(m) => Excused(m)', Coherent(m) => Coherent(m)'
  PROVE  Told(m)'
  <1>0. Missed(m) <=> Missed(m)'
    BY DoingsAre DEF Missed, Same
  <1>1. OutputTold(m)'
    BY <1>0 DEF Told, Same, OutputTold
  <1>2. RefusalTold(m)'
    BY DEF Told, Same, RefusalTold
  <1>3. ReportTold(m)'
    BY <1>0 DEF Told, Same, ReportTold
  <1> QED
    BY <1>1, <1>2, <1>3 DEF Told

\* Each return of migrate() reports what was the case.
LEMMA ToldStep ==
  ASSUME TimeInv, NEW m \in Migrations, Told(m), Step(m) \/ Failure(m)
  PROVE  Told(m)'
  <1> /\ TypeInv /\ World /\ Own /\ Scans /\ Shapes /\ Timed(m)
    BY DEF TimeInv, TypeInv
  <1> OutputTold(m) /\ RefusalTold(m) /\ ReportTold(m)
    BY DEF Told
  <1> DEFINE Stays ==
        snapshot'[m] = snapshot[m] =>
          (Excused(m) => Excused(m)') /\ (Coherent(m) => Coherent(m)')
  <1>0. Stays /\ (Missed(m) => Missed(m)')
    <2>1. Stays
      BY ExcusedStays DEF Next
    <2>2. spoiled \subseteq spoiled'
      BY DEF Spoil, Step, Failure, Precheck, Preflight, ReadFile, ReadFails,
             BreaksOff, Convert, Validate, Check, Refused, Stage, Write,
             Recheck, Publish, Lock, Note, Rename, PublishFails, Sync, Unlock,
             Clean, Report, Link, LinkFails, Interrupt, Kill
    <2> QED
      BY <2>1, <2>2 DEF Missed
  <1>1. CASE ReadFile(m)
    <2>1. OutputTold(m)'
      BY <1>0, <1>1 DEF ReadFile, OutputTold, environment
    <2>2. RefusalTold(m)'
      BY <1>1 DEF ReadFile, Scanning, RefusalTold, Ending
    <2>3. ReportTold(m)'
      BY <1>1 DEF ReadFile, Scanning, ReportTold, Returned
    <2> QED
      BY <2>1, <2>2, <2>3 DEF Told
  <1>2. CASE Convert(m)
    <2>1. OutputTold(m)'
      BY <1>0, <1>2, PlacesAre, Going
         DEF Convert, Scanned, Refuse, At, OutputTold, Ending, Returned,
             environment
    <2>2. RefusalTold(m)'
      BY <1>2, PlacesAre, Going, VerdictsAre, Deciding
         DEF Convert, Refuse, RefusalTold, Ending
    <2>3. ReportTold(m)'
      BY <1>2 DEF Convert, Scanned, At, ReportTold, Returned
    <2> QED
      BY <2>1, <2>2, <2>3 DEF Told
  <1>3. CASE Validate(m)
    <2>1. OutputTold(m)'
      BY <1>0, <1>3, PlacesAre, Going
         DEF Validate, Scanned, Refuse, At, OutputTold, Ending, Returned,
             environment
    <2>2. RefusalTold(m)'
      BY <1>3, PlacesAre, Going, VerdictsAre, Deciding
         DEF Validate, Refuse, RefusalTold, Ending
    <2>3. ReportTold(m)'
      BY <1>3 DEF Validate, Scanned, At, ReportTold, Returned
    <2> QED
      BY <2>1, <2>2, <2>3 DEF Told
  <1>4. CASE Check(m)
    <2>1. OutputTold(m)'
      BY <1>0, <1>4, PlacesAre, Going, ReportedAre, Returning, Changing
         DEF Check, Scanned, At, OutputTold, Ending, Returned, environment
    <2>2. RefusalTold(m)'
      BY <1>4, PlacesAre, Going, ReportedAre, Returning, Changing
         DEF Check, RefusalTold, Ending
    <2>3. ReportTold(m)'
      <3>1. /\ pc[m] = "checking" /\ output # m /\ output' = output
            /\ pc'[m] \in Returned \union {"staging"}
        BY <1>4, PlacesAre, ReportedAre, Going, Returning, Changing
           DEF Check, Scanned, At, OutputTold, Ending, Returned, environment
      <3>2. ASSUME SourceChanged(m), ~Unchanged(m) PROVE ReportTold(m)'
        <4>1. Excused(m)
          BY <1>4, <3>1, <3>2, ChangedIsStale
             DEF Check, Scanned, Converted, Excused
        <4> QED
          BY <1>0, <1>4, <3>1, <3>2, <4>1, PlacesAre, Going, Changing, Tells
             DEF Check, ReportTold, Reports, Reported
      <3>3. ASSUME NEW status \in {"ANALYZED", "VALIDATED"}, Return(m, status),
                   Unchanged(m)
            PROVE  ReportTold(m)'
        <4>1. Coherent(m)'
          <5>1. Coherent(m)
            BY <1>4, <3>1, <3>3, Between
               DEF Check, Scanned, Converted, Coherent
          <5> QED
            BY <1>0, <1>4, <5>1 DEF Check
        <4> QED
          BY <3>1, <3>3, <4>1, PlacesAre, ReportedAre, Going, Returning, Tells
             DEF ReportTold, Reports
      <3>4. CASE result' = result /\ pc[m] \notin Returned
        BY <3>4 DEF ReportTold
      <3> QED
        BY <1>4, <3>1, <3>2, <3>3, <3>4 DEF Check, Returned
    <2> QED
      BY <2>1, <2>2, <2>3 DEF Told
  <1>5. CASE ReadFails(m)
    <2>1. OutputTold(m)'
      <3>1. output' = output /\ (output = m => pc[m] = "refusing" /\ Missed(m))
        BY <1>5
           DEF ReadFails, Scanning, OutputTold, Ending, Returned, environment
      <3>2. \/ pc'[m] = "reporting"
            \/ pc[m] = "copying" /\ pc'[m] = "refusing"
            \/ /\ pc[m] = "rechecking" /\ pc'[m] = "cleaning"
               /\ verdict'[m] \in {"CHANGED", "SAFETY_ERROR"}
        BY <1>5, PlacesAre, Going, ReportedAre, VerdictsAre, Returning,
           Changing, Deciding
           DEF ReadFails, Refuse, At
      <3> QED
        BY <1>0, <3>1, <3>2 DEF OutputTold, Ending, Returned
    <2>2. RefusalTold(m)'
      BY <1>5, PlacesAre, VerdictsAre, ReportedAre, Going, Returning,
         Changing, Deciding, Faulty
         DEF ReadFails, Refuse, RefusalTold
    <2>3. ReportTold(m)'
      <3>1. /\ pc[m] \in Scanning /\ output' = output /\ Excused(m)'
            /\ output = m => Missed(m)
        BY <1>5, Faulty
           DEF ReadFails, OutputTold, Scanning, Ending, Returned, environment
      <3>2. CASE SourceChanged(m)
        BY <1>0, <3>1, <3>2, PlacesAre, ReportedAre, Going, Changing, Tells
           DEF ReportTold, Reports, Returned
      <3>3. CASE Return(m, "SAFETY_ERROR")
        BY <1>0, <3>1, <3>3, PlacesAre, ReportedAre, Going, Returning, Tells
           DEF ReportTold, Reports, Returned
      <3>4. CASE result' = result
        BY <3>1, <3>4 DEF ReportTold, Scanning, Returned
      <3> QED
        BY <1>5, <3>2, <3>3, <3>4 DEF ReadFails
    <2> QED
      BY <2>1, <2>2, <2>3 DEF Told
  <1>6. CASE BreaksOff(m)
    <2>1. OutputTold(m)'
      BY <1>0, <1>6, PlacesAre, Going, Exiting
         DEF BreaksOff, OutputTold, Ending, Returned
    <2>2. RefusalTold(m)'
      BY <1>6, PlacesAre, Going, Exiting DEF BreaksOff, RefusalTold, Ending
    <2>3. ReportTold(m)'
      BY <1>6 DEF BreaksOff, Scanning, ReportTold, Returned
    <2> QED
      BY <2>1, <2>2, <2>3 DEF Told
  <1>7. CASE Precheck(m)
    <2>1. OutputTold(m)'
      BY <1>0, <1>7, PlacesAre, Going, Exiting
         DEF Precheck, At, OutputTold, Ending, Returned, environment
    <2>2. RefusalTold(m)'
      BY <1>7, PlacesAre, Going, Exiting DEF Precheck, RefusalTold, Ending
    <2>3. ReportTold(m)'
      BY <1>7 DEF Precheck, At, ReportTold, Returned
    <2> QED
      BY <2>1, <2>2, <2>3 DEF Told
  <1>8. CASE Preflight(m)
    <2>1. OutputTold(m)'
      BY <1>0, <1>8, PlacesAre, Going, ReportedAre, Returning
         DEF Preflight, At, OutputTold, Ending, Returned, environment
    <2>2. RefusalTold(m)'
      BY <1>8, PlacesAre, Going, ReportedAre, Returning
         DEF Preflight, RefusalTold, Ending
    <2>3. ReportTold(m)'
      BY <1>8, PlacesAre, Going, ReportedAre, Returning, Tells
         DEF Preflight, At, ReportTold, Reports, OutputTold, Returned, Ending,
             environment
    <2> QED
      BY <2>1, <2>2, <2>3 DEF Told
  <1>9. CASE Refused(m)
    <2>1. OutputTold(m)'
      BY <1>0, <1>9, PlacesAre, Going, Returning, Changing
         DEF Refused, Scanned, At, Shapes, Shape, OutputTold, Ending, Returned
    <2>2. RefusalTold(m)'
      BY <1>9 DEF Refused, Scanned, At, RefusalTold
    <2>3. ReportTold(m)'
      <3>1. /\ pc[m] = "refusing" /\ output' = output
            /\ output = m => Missed(m)
        BY <1>9
           DEF Refused, Scanned, At, OutputTold, Ending, Returned, environment
      <3>2. CASE ~Unchanged(m) /\ SourceChanged(m)
        <4>1. Excused(m)
          BY <1>9, <3>1, <3>2, ChangedIsStale
             DEF Refused, Scanned, Converted, Excused
        <4> QED
          BY <1>0, <1>9, <3>1, <3>2, <4>1, PlacesAre, ReportedAre, Going,
             Changing, Tells
             DEF Refused, ReportTold, Reports, Returned
      <3>3. CASE Return(m, verdict[m])
        <4>1. /\ verdict[m] \in Reported
              /\ verdict[m] \notin {"ANALYZED", "VALIDATED", "PUBLISHED"}
          BY <3>1, ReportedAre DEF RefusalTold
        <4> QED
          BY <1>0, <3>1, <3>3, <4>1, PlacesAre, Going, Returning, Tells
             DEF ReportTold, Reports, Returned
      <3> QED
        BY <1>9, <3>2, <3>3 DEF Refused
    <2> QED
      BY <2>1, <2>2, <2>3 DEF Told
  <1>10. CASE Stage(m)
    <2>1. OutputTold(m)'
      BY <1>0, <1>10, PlacesAre, Going
         DEF Stage, Refuse, At, OutputTold, Ending, Returned, environment
    <2>2. RefusalTold(m)'
      BY <1>10, PlacesAre, Going, VerdictsAre, Deciding
         DEF Stage, Refuse, RefusalTold, Ending
    <2>3. ReportTold(m)'
      BY <1>10 DEF Stage, At, ReportTold, Returned
    <2> QED
      BY <2>1, <2>2, <2>3 DEF Told
  <1>11. CASE Write(m)
    <2>1. OutputTold(m)'
      BY <1>0, <1>11, PlacesAre, Going, VerdictsAre, Deciding
         DEF Write, At, OutputTold, Ending, Returned, environment
    <2>2. RefusalTold(m)'
      BY <1>11, PlacesAre, Going, VerdictsAre, Deciding
         DEF Write, RefusalTold, Ending
    <2>3. ReportTold(m)'
      BY <1>11 DEF Write, At, ReportTold, Returned
    <2> QED
      BY <2>1, <2>2, <2>3 DEF Told
  <1>12. CASE Recheck(m)
    <2>1. OutputTold(m)'
      BY <1>0, <1>12, PlacesAre, Going, VerdictsAre, Deciding
         DEF Recheck, Scanned, At, OutputTold, Ending, Returned, environment
    <2>2. RefusalTold(m)'
      <3>1. CASE Unchanged(m)
        BY <1>12, <3>1, PlacesAre, Going DEF Recheck, RefusalTold, Ending
      <3>2. CASE ~Unchanged(m)
        <4>1. Excused(m)
          BY <1>12, <3>2, ChangedIsStale
             DEF Recheck, Scanned, At, Converted, Publishing, Excused
        <4> QED
          BY <1>0, <1>12, <3>2, <4>1, PlacesAre, Going
             DEF Recheck, RefusalTold
      <3> QED
        BY <3>1, <3>2
    <2>3. ReportTold(m)'
      BY <1>12 DEF Recheck, Scanned, At, ReportTold, Returned
    <2> QED
      BY <2>1, <2>2, <2>3 DEF Told
  <1>13. CASE Publish(m)
    <2>1. OutputTold(m)'
      BY <1>0, <1>13, PlacesAre, Going, VerdictsAre, Deciding
         DEF Publish, At, OutputTold, Ending, Returned, environment
    <2>2. RefusalTold(m)'
      BY <1>13, PlacesAre, Going, VerdictsAre, Deciding
         DEF Publish, RefusalTold, Ending
    <2>3. ReportTold(m)'
      BY <1>13 DEF Publish, At, ReportTold, Returned
    <2> QED
      BY <2>1, <2>2, <2>3 DEF Told
  <1>14. CASE Lock(m)
    <2>1. OutputTold(m)'
      BY <1>0, <1>14, PlacesAre, Going, VerdictsAre, Deciding
         DEF Lock, Contend, At, OutputTold, Ending, Returned
    <2>2. RefusalTold(m)'
      BY <1>14, PlacesAre, Going, VerdictsAre, Deciding
         DEF Lock, Contend, RefusalTold, Ending
    <2>3. ReportTold(m)'
      BY <1>14 DEF Lock, At, ReportTold, Returned
    <2> QED
      BY <2>1, <2>2, <2>3 DEF Told
  <1>15. CASE Note(m)
    <2>1. OutputTold(m)'
      BY <1>0, <1>15, PlacesAre, Going, VerdictsAre, Deciding
         DEF Note, At, OutputTold, Ending, Returned, environment
    <2>2. RefusalTold(m)'
      BY <1>15, PlacesAre, Going, VerdictsAre, Deciding
         DEF Note, RefusalTold, Ending
    <2>3. ReportTold(m)'
      BY <1>15 DEF Note, At, ReportTold, Returned
    <2> QED
      BY <2>1, <2>2, <2>3 DEF Told
  <1>16. CASE Rename(m)
    <2>1. OutputTold(m)'
      BY <1>0, <1>16, PlacesAre, Going, VerdictsAre, Deciding
         DEF Rename, At, OutputTold, Ending, Returned
    <2>2. RefusalTold(m)'
      BY <1>16, PlacesAre, Going, VerdictsAre, Deciding
         DEF Rename, RefusalTold, Ending
    <2>3. ReportTold(m)'
      BY <1>16 DEF Rename, At, ReportTold, Returned
    <2> QED
      BY <2>1, <2>2, <2>3 DEF Told
  <1>17. CASE PublishFails(m)
    <2>1. OutputTold(m)'
      BY <1>0, <1>17, PlacesAre, Going, VerdictsAre, Deciding
         DEF PublishFails, At, OutputTold, Ending, Returned, environment
    <2>2. RefusalTold(m)'
      BY <1>17, VerdictsAre, Deciding DEF PublishFails, RefusalTold
    <2>3. ReportTold(m)'
      BY <1>17 DEF PublishFails, At, ReportTold, Returned
    <2> QED
      BY <2>1, <2>2, <2>3 DEF Told
  <1>18. CASE Sync(m)
    <2>1. OutputTold(m)'
      <3>1. Coherent(m)
        BY <1>18 DEF Sync, At, Timed, Publishing, Proven, Coherent
      <3>2. Coherent(m)'
        BY <1>0, <1>18, <3>1 DEF Sync
      <3> QED
        BY <1>18, <3>2, PlacesAre, Going, VerdictsAre, Deciding
           DEF Sync, Unsynced, At, OutputTold, Ending, environment
    <2>2. RefusalTold(m)'
      BY <1>18, PlacesAre, Going, VerdictsAre, Deciding
         DEF Sync, Unsynced, RefusalTold
    <2>3. ReportTold(m)'
      BY <1>18 DEF Sync, At, ReportTold, Returned
    <2> QED
      BY <2>1, <2>2, <2>3 DEF Told
  <1>19. CASE Unlock(m)
    <2>0. Spoil(m, "finding-lock") => Missed(m)'
      BY DEF Spoil, Missed
    <2>1. OutputTold(m)'
      BY <1>0, <1>19, <2>0, PlacesAre, Going, VerdictsAre, Deciding
         DEF Unlock, At, OutputTold, Ending
    <2>2. RefusalTold(m)'
      BY <1>0, <1>19, PlacesAre, Going, VerdictsAre, Deciding
         DEF Unlock, At, RefusalTold, Ending
    <2>3. ReportTold(m)'
      BY <1>19 DEF Unlock, At, ReportTold, Returned
    <2> QED
      BY <2>1, <2>2, <2>3 DEF Told
  <1>20. CASE Clean(m)
    <2>0. /\ pc[m] = "cleaning" /\ UNCHANGED <<output, snapshot, verdict>>
          /\ Conclude(m)
      BY <1>20 DEF Clean, At, environment
    <2>1. OutputTold(m)'
      BY <1>0, <2>0, PlacesAre, Going, ReportedAre, Returning, Changing,
         Exiting
         DEF Conclude, OutputTold, Ending, Returned
    <2>2. RefusalTold(m)'
      BY <2>0, PlacesAre, Going, ReportedAre, Returning, Changing, Exiting
         DEF Conclude, RefusalTold, Ending
    <2>3. ReportTold(m)'
      <3>1. CASE verdict[m] = "PUBLISHED" /\ Return(m, "PUBLISHED")
        BY <1>0, <2>0, <3>1, PlacesAre, ReportedAre, Going, Returning, Tells
           DEF ReportTold, Reports, OutputTold, Returned, Ending
      <3>2. CASE verdict[m] = "CHANGED" /\ SourceChanged(m)
        BY <1>0, <2>0, <3>2, PlacesAre, ReportedAre, Going, Changing, Tells
           DEF ReportTold, Reports, OutputTold, RefusalTold, Returned, Ending
      <3>3. CASE result' = result
        BY <2>0, <3>3 DEF ReportTold, Returned
      <3> QED
        BY <2>0, <3>1, <3>2, <3>3 DEF Conclude
    <2> QED
      BY <2>1, <2>2, <2>3 DEF Told
  <1>21. CASE Report(m)
    <2>1. OutputTold(m)'
      BY <1>0, <1>21, PlacesAre, Going, Codes, Exiting
         DEF Report, Taken, At, OutputTold, Ending, Returned
    <2>2. RefusalTold(m)'
      BY <1>21, PlacesAre, Going, Codes, Exiting
         DEF Report, Taken, At, RefusalTold, Ending
    <2>3. ReportTold(m)'
      BY <1>0, <1>21, PlacesAre, Going, Codes, Exiting
         DEF Report, Taken, At, ReportTold, Returned, environment
    <2> QED
      BY <2>1, <2>2, <2>3 DEF Told
  <1>22. CASE Link(m)
    <2>1. OutputTold(m)'
      BY <1>0, <1>22, PlacesAre, Going, Codes, Exiting
         DEF Link, At, OutputTold, Ending, Returned
    <2>2. RefusalTold(m)'
      BY <1>22, PlacesAre, Going, Codes, Exiting
         DEF Link, At, RefusalTold, Ending
    <2>3. ReportTold(m)'
      BY <1>0, <1>22, PlacesAre, Going, Codes, Exiting
         DEF Link, At, ReportTold, Returned
    <2> QED
      BY <2>1, <2>2, <2>3 DEF Told
  <1>23. CASE LinkFails(m)
    <2>1. OutputTold(m)'
      BY <1>0, <1>23, PlacesAre, Going, Codes, Exiting
         DEF LinkFails, At, OutputTold, Ending, Returned
    <2>2. RefusalTold(m)'
      BY <1>23, PlacesAre, Going, Codes, Exiting
         DEF LinkFails, At, RefusalTold, Ending
    <2>3. ReportTold(m)'
      BY <1>0, <1>23, PlacesAre, Going, Codes, Exiting
         DEF LinkFails, At, ReportTold, Returned, environment
    <2> QED
      BY <2>1, <2>2, <2>3 DEF Told
  <1>24. CASE Interrupt(m)
    <2>1. OutputTold(m)'
      BY <1>0, <1>24, PlacesAre, Going, VerdictsAre, Deciding, Exiting
         DEF Interrupt, OutputTold, Ending, Returned
    <2>2. RefusalTold(m)'
      BY <1>24, PlacesAre, Going, VerdictsAre, Deciding, Exiting
         DEF Interrupt, RefusalTold, Ending
    <2>3. ReportTold(m)'
      BY <1>0, <1>24, PlacesAre, Going, Exiting
         DEF Interrupt, At, Staging, ReportTold, Returned, environment
    <2> QED
      BY <2>1, <2>2, <2>3 DEF Told
  <1>25. CASE Kill(m)
    <2>1. OutputTold(m)'
      BY <1>0, <1>25, PlacesAre, Going DEF Kill, OutputTold, Ending, Returned
    <2>2. RefusalTold(m)'
      BY <1>25, PlacesAre, Going DEF Kill, RefusalTold, Ending
    <2>3. ReportTold(m)'
      BY <1>0, <1>25, PlacesAre, Going
         DEF Kill, ReportTold, Returned, environment
    <2> QED
      BY <2>1, <2>2, <2>3 DEF Told
  <1> QED
    BY <1>1, <1>2, <1>3, <1>4, <1>5, <1>6, <1>7, <1>8, <1>9, <1>10, <1>11,
       <1>12, <1>13, <1>14, <1>15, <1>16, <1>17, <1>18, <1>19, <1>20, <1>21,
       <1>22, <1>23, <1>24, <1>25
       DEF Step, Failure

\* So Told is inductive.
LEMMA ToldNext ==
  ASSUME TimeInv, \A m \in Migrations : Told(m), [Next]_vars,
         NEW m \in Migrations
  PROVE  Told(m)'
  <1> TypeInv
    BY DEF TimeInv
  <1>1. ASSUME NEW n \in Migrations, Step(n) \/ Failure(n)
        PROVE  Told(m)'
    <2>1. CASE m = n
      BY <1>1, <2>1, ToldStep
    <2>2. CASE m # n
      <3>1. Same(m) /\ (output' = m <=> output = m)
        BY <1>1, <2>2, TypeStep, OutputIsOnes
      <3>2. (Excused(m) => Excused(m)') /\ (Coherent(m) => Coherent(m)')
        BY <3>1, ExcusedStays DEF Same
      <3> QED
        BY <3>1, <3>2, ToldFrame
    <2> QED
      BY <2>1, <2>2
  <1>2. CASE own' = own /\ (output' = m <=> output = m)
    <2>1. Same(m)
      BY <1>2 DEF own, Same
    <2>2. (Excused(m) => Excused(m)') /\ (Coherent(m) => Coherent(m)')
      BY <2>1, ExcusedStays DEF Same
    <2> QED
      BY <1>2, <2>1, <2>2, ToldFrame
  <1>3. Others => own' = own /\ (output' = m <=> output = m)
    BY ConstantsAssumption
       DEF Others, Edit, CreateOutput, CreateReport, Absent, Someone
  <1>4. UNCHANGED vars => own' = own /\ (output' = m <=> output = m)
    BY DEF vars, environment
  <1> QED
    BY <1>1, <1>2, <1>3, <1>4 DEF Next, Over

\* A report is true, whatever failed: migrate() reports a publication only if
\* its output is there, and always if it is, unless the stat() of the lock failed
\* after the rename; success only of sources of one moment; and no change that
\* was none, unless a call of the filesystem failed.
THEOREM ReportsTrue == Spec => []ReportsAreTrue
  <1> DEFINE ToldInv == TimeInv /\ \A m \in Migrations : Told(m)
  <1>1. Init => ToldInv
    BY TypeInit, TimedInit, ToldInit DEF TimeInv
  <1>2. ToldInv /\ [Next]_vars => ToldInv'
    BY TimedNext, ToldNext
  <1>3. ToldInv => ReportsAreTrue
    <2> SUFFICES ASSUME ToldInv, NEW m \in Migrations, result[m] # NoReport
                 PROVE  /\ result[m].published => output = m
                        /\ output = m => result[m].published \/ Missed(m)
                        /\ ExitOf(result[m].status) = 0 => Coherent(m)
                        /\ result[m].modified => Stale(m) \/ faults > 0
      BY DEF ReportsAreTrue, Missed, Coherent, Stale
    <2>1. ReportTold(m) /\ result[m].status \in Reported
      BY DEF Told, ReportTold
    <2>2. ExitOf(result[m].status) = 0 =>
            result[m].status \in {"ANALYZED", "VALIDATED", "PUBLISHED"}
      BY <2>1 DEF ExitOf, Reported
    <2> QED
      BY <2>1, <2>2 DEF ReportTold, Excused
  <1> QED
    BY <1>1, <1>2, <1>3, PTL DEF Spec
=============================================================================
