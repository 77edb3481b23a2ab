-------------------------- MODULE SupervisorProofs --------------------------
(***************************************************************************)
(* Proofs about the process supervisor, for any set of work items, any     *)
(* order of them, and any bounds.                                          *)
(***************************************************************************)
EXTENDS Supervisor, TLAPS

-----------------------------------------------------------------------------
(***************************************************************************)
(* Type correctness.                                                       *)
(***************************************************************************)
\* What a child may write next is a message, and not the ready signal.
LEMMA OutgoingMessages ==
  ASSUME NEW i \in Items, NEW message \in Outgoing(i)
  PROVE  message \in Final \union {"stream"} /\ child[i] \in {"boot", "run"}
  BY DEF Outgoing, Final

\* Before anything is started every variable has its type.
LEMMA InitTypeOK == Init => TypeOK
  BY ConstantsAssumption
     DEF Init, TypeOK, PCs, Registered, Final, Messages, Verdicts

\* What a child writes, at once or to the end: a message, after which it leaves or
\* goes on.
Speaks(i, message) ==
  /\ child[i] \in {"boot", "run"}
  /\ sent' = [sent EXCEPT ![i] = Append(@, message)]
  /\ writing' = [writing EXCEPT ![i] = "nothing"]
  /\ child' = [child EXCEPT ![i] = IF message \in Final THEN "leaving" ELSE "run"]
  /\ message = "ready" => child[i] = "boot" \/ writing[i] = "ready"
  /\ UNCHANGED <<threadVars, cancelVars, exit, signal, taken, clock, active>>

LEMMA ChildSpeaks ==
  ASSUME TypeOK, NEW i \in Items,
         ChildReady(i) \/ ChildWrites(i) \/ ChildCompletes(i)
  PROVE  \E message \in Messages : Speaks(i, message)
  <1>1. ASSUME NEW message, Send(i, message)
        PROVE  /\ sent' = [sent EXCEPT ![i] = Append(@, message)]
               /\ writing' = [writing EXCEPT ![i] = "nothing"]
    BY <1>1 DEF Send, MaySend, Begun, TypeOK
  <1>2. CASE ChildReady(i)
    <2>1. Speaks(i, "ready")
      BY <1>1, <1>2 DEF ChildReady, After, Speaks
    <2> QED
      BY <2>1 DEF Messages
  <1>3. CASE ChildWrites(i)
    <2>1. PICK message \in Outgoing(i) : Send(i, message) /\ After(i, message)
      BY <1>3 DEF ChildWrites
    <2>2. Speaks(i, message)
      BY <1>1, <1>3, <2>1, OutgoingMessages DEF ChildWrites, After, Speaks, Final
    <2> QED
      BY <2>2, OutgoingMessages DEF Messages
  <1>4. CASE ChildCompletes(i)
    <2>1. Speaks(i, writing[i])
      BY <1>4 DEF ChildCompletes, After, Speaks
    <2>2. writing[i] \in Messages
      BY <1>4 DEF ChildCompletes, Begun, TypeOK
    <2> QED
      BY <2>1, <2>2
  <1> QED
    BY <1>2, <1>3, <1>4

\* The beginning of a message.
Begins(i, message) ==
  /\ child[i] \in {"boot", "run"}
  /\ writing' = [writing EXCEPT ![i] = message]
  /\ UNCHANGED <<threadVars, cancelVars, child, exit, sent, signal, taken, clock, active>>

LEMMA ChildStarts ==
  ASSUME NEW i \in Items, ChildBegins(i)
  PROVE  \E message \in Messages \ {"ready"} : Begins(i, message)
  BY OutgoingMessages DEF ChildBegins, Begins, Messages, Final

\* A signal keeps the type of signals.
LEMMA SignalledTypeOK ==
  ASSUME TypeOK, NEW i \in Items, NEW force \in BOOLEAN
  PROVE  Signalled(i, force) \in [Items -> {"none", "term", "kill"}]
  BY DEF TypeOK, Signalled

\* A step of a shard thread in execute() keeps every variable's type.
LEMMA ThreadTypeOK ==
  ASSUME TypeOK, NEW i \in Items, ThreadStep(i)
  PROVE  TypeOK'
  <1> USE DEF TypeOK, Goto, Return, PCs, Registered, threadVars, childVars, cancelVars
  <1>1. CASE RefuseItem(i)
    BY <1>1 DEF RefuseItem, Verdicts
  <1>2. CASE AdmitItem(i)
    BY <1>2 DEF AdmitItem
  <1>3. CASE StartFails(i)
    BY <1>3 DEF StartFails, Verdicts
  <1>4. CASE StartChild(i)
    BY <1>4 DEF StartChild
  <1>5. CASE Register(i)
    BY <1>5 DEF Register
  <1>6. CASE Recheck(i)
    BY <1>6, SignalledTypeOK DEF Recheck
  <1>7. CASE ScanPipe(i)
    BY <1>7 DEF ScanPipe
  <1>8. CASE ScanSentinel(i)
    BY <1>8 DEF ScanSentinel
  <1>9. CASE DrainTimesOut(i)
    BY <1>9 DEF DrainTimesOut
  <1>10. CASE DrainCancelled(i)
    BY <1>10 DEF DrainCancelled
  <1>19. CASE DrainWaits(i)
    BY <1>19 DEF DrainWaits, Receiving
  <1>11. CASE DrainEof(i)
    BY <1>11 DEF DrainEof, Receiving
  <1>12. CASE DrainMessage(i)
    BY <1>12 DEF DrainMessage, Receiving, Unread
  <1>13. CASE AfterDrain(i)
    BY <1>13 DEF AfterDrain
  <1>14. CASE ClosePipe(i)
    BY <1>14, SignalledTypeOK DEF ClosePipe
  <1>15. CASE GraceOver(i)
    BY <1>15, SignalledTypeOK DEF GraceOver, ForcesFirst
  <1>16. CASE SecondGraceOver(i)
    BY <1>16, SignalledTypeOK DEF SecondGraceOver
  <1>17. CASE Reap(i)
    BY <1>17, SignalledTypeOK DEF Reap
  <1>18. CASE Report(i)
    BY <1>18 DEF Report, StatusOf, Evidence, Verdicts
  <1> QED
    BY <1>1, <1>2, <1>3, <1>4, <1>5, <1>6, <1>7, <1>8, <1>9, <1>10, <1>11,
       <1>12, <1>13, <1>14, <1>15, <1>16, <1>17, <1>18, <1>19 DEF ThreadStep

\* A step of a child, its death, and the deadline keep every variable's type.
LEMMA ChildTypeOK ==
  ASSUME TypeOK, NEW i \in Items,
         ChildStep(i) \/ ChildCrashes(i) \/ ChildHangs(i) \/ ChildKilled(i)
  PROVE  TypeOK'
  <1> USE DEF TypeOK, threadVars, cancelVars, Die
  <1>1. CASE ChildReady(i) \/ ChildWrites(i) \/ ChildCompletes(i)
    <2>1. PICK message \in Messages : Speaks(i, message)
      BY <1>1, ChildSpeaks
    <2> QED
      BY <2>1 DEF Speaks
  <1>2. CASE ChildBegins(i)
    <2>1. PICK message \in Messages \ {"ready"} : Begins(i, message)
      BY <1>2, ChildStarts
    <2> QED
      BY <2>1 DEF Begins
  <1>4. CASE ChildBrokenPipe(i)
    BY <1>4 DEF ChildBrokenPipe
  <1>5. CASE ChildExits(i)
    BY <1>5 DEF ChildExits
  <1>6. CASE ChildCrashes(i)
    BY <1>6 DEF ChildCrashes
  <1>7. CASE ChildHangs(i)
    BY <1>7 DEF ChildHangs
  <1>8. CASE ChildKilled(i)
    BY <1>8 DEF ChildKilled
  <1> QED
    BY <1>1, <1>2, <1>4, <1>5, <1>6, <1>7, <1>8 DEF ChildStep

\* Every step keeps every variable's type.
LEMMA NextTypeOK == TypeOK /\ [Next]_vars => TypeOK'
  <1> SUFFICES ASSUME TypeOK, [Next]_vars PROVE TypeOK'
    OBVIOUS
  <1>1. ASSUME NEW i \in Items, ThreadStep(i) PROVE TypeOK'
    BY <1>1, ThreadTypeOK
  <1>2. ASSUME NEW i \in Items,
               ChildStep(i) \/ ChildCrashes(i) \/ ChildHangs(i) \/ ChildKilled(i)
        PROVE  TypeOK'
    BY <1>2, ChildTypeOK
  <1>3. ASSUME NEW i \in Items, DeadlinePasses(i) PROVE TypeOK'
    BY <1>3 DEF DeadlinePasses, TypeOK, threadVars, childVars, cancelVars
  <1>4. CASE CancelSetsFlag
    BY <1>4 DEF CancelSetsFlag, TypeOK, threadVars, childVars
  <1>5. CASE CancelSnapshots
    BY <1>5 DEF CancelSnapshots, TypeOK, threadVars, childVars
  <1>6. ASSUME NEW i \in Items, CancelSignals(i) PROVE TypeOK'
    BY <1>6, SignalledTypeOK DEF CancelSignals, TypeOK, threadVars, childVars
  <1>7. CASE CancelReturns
    BY <1>7 DEF CancelReturns, TypeOK, threadVars, childVars
  <1>8. CASE UNCHANGED vars
    BY <1>8 DEF vars, TypeOK
  <1> QED
    BY <1>1, <1>2, <1>3, <1>4, <1>5, <1>6, <1>7, <1>8
       DEF Next, CancelStep, Finished, Held

\* Every variable keeps its type, whatever the items, their order, the bounds
\* and the interleaving of shard threads, child processes and cancel_all().
THEOREM TypeCorrect == Spec => []TypeOK
  BY InitTypeOK, NextTypeOK, PTL DEF Spec

-----------------------------------------------------------------------------
(***************************************************************************)
(* Ownership of processes and the reach of a cancellation.                 *)
(***************************************************************************)
\* _active_processes is what the positions of the threads say it is; a thread
\* before the start has no process and one past the reaping has a dead one; an
\* item starts only when its shard is through with the items before it.
Ownership ==
  /\ active = {i \in Items : pc[i] \in Registered}
  /\ \A i \in Items :
       /\ pc[i] \in {"queued", "starting"} => child[i] = "absent"
       /\ pc[i] \in {"reporting", "done"} => ~Alive(i)
       /\ pc[i] # "queued" => \A j \in Earlier[i] : pc[j] = "done"

\* What cancel_all() has still to signal is in its snapshot: the flag is set
\* before the snapshot is taken, and a thread that registers later sees it.
Reach ==
  /\ canceller = "returned" => targets = {}
  /\ canceller \in {"sweeping", "returned"} =>
       \A i \in Items : Alive(i) /\ pc[i] \in Registered \ {"rechecking"}
                          => i \in targets \/ signal[i] # "none"

CancelInv == TypeOK /\ Ownership /\ Reach

\* Before anything is started there is no child to own or to reach.
LEMMA InitCancelInv == Init => CancelInv
  BY InitTypeOK DEF Init, CancelInv, Ownership, Reach, Registered, Alive

\* A shard thread registers, looks twice and reaps in an order that leaves no
\* child unowned and none out of reach of a cancellation.
LEMMA ThreadCancelInv ==
  ASSUME CancelInv, NEW i \in Items, ThreadStep(i)
  PROVE  Ownership' /\ Reach'
  <1> USE DEF CancelInv, TypeOK, Ownership, Reach, Registered, Alive,
            Cancelled, Goto, Return, childVars, cancelVars
  <1>1. CASE RefuseItem(i)
    BY <1>1 DEF RefuseItem
  <1>2. CASE AdmitItem(i)
    BY <1>2 DEF AdmitItem
  <1>3. CASE StartFails(i)
    BY <1>3 DEF StartFails
  <1>4. CASE StartChild(i)
    BY <1>4 DEF StartChild
  <1>5. CASE Register(i)
    BY <1>5 DEF Register
  <1>6. CASE Recheck(i)
    BY <1>6 DEF Recheck, SecondLook, Signalled
  <1>7. CASE ScanPipe(i)
    BY <1>7 DEF ScanPipe
  <1>8. CASE ScanSentinel(i)
    BY <1>8 DEF ScanSentinel
  <1>9. CASE DrainTimesOut(i)
    BY <1>9 DEF DrainTimesOut
  <1>10. CASE DrainCancelled(i)
    BY <1>10 DEF DrainCancelled
  <1>19. CASE DrainWaits(i)
    BY <1>19 DEF DrainWaits, Receiving
  <1>11. CASE DrainEof(i)
    BY <1>11 DEF DrainEof, Receiving
  <1>12. CASE DrainMessage(i)
    BY <1>12 DEF DrainMessage, Receiving
  <1>13. CASE AfterDrain(i)
    BY <1>13 DEF AfterDrain
  <1>14. CASE ClosePipe(i)
    BY <1>14 DEF ClosePipe, Signalled
  <1>15. CASE GraceOver(i)
    BY <1>15 DEF GraceOver, ForcesFirst, Signalled
  <1>16. CASE SecondGraceOver(i)
    BY <1>16 DEF SecondGraceOver, Signalled
  <1>17. CASE Reap(i)
    BY <1>17 DEF Reap, Joined, Dead, Signalled
  <1>18. CASE Report(i)
    BY <1>18 DEF Report
  <1> QED
    BY <1>1, <1>2, <1>3, <1>4, <1>5, <1>6, <1>7, <1>8, <1>9, <1>10, <1>11,
       <1>12, <1>13, <1>14, <1>15, <1>16, <1>17, <1>18, <1>19 DEF ThreadStep

\* What a child does is neither a birth nor the loss of a signal.
LEMMA ChildCancelInv ==
  ASSUME CancelInv, NEW i \in Items,
         ChildStep(i) \/ ChildCrashes(i) \/ ChildHangs(i) \/ ChildKilled(i)
  PROVE  Ownership' /\ Reach'
  <1> USE DEF CancelInv, TypeOK, Ownership, Reach, Alive, threadVars,
            cancelVars, Die
  <1>1. CASE ChildReady(i) \/ ChildWrites(i) \/ ChildCompletes(i)
    <2>1. PICK message \in Messages : Speaks(i, message)
      BY <1>1, ChildSpeaks
    <2> QED
      BY <2>1 DEF Speaks
  <1>2. CASE ChildBegins(i)
    <2>1. PICK message \in Messages \ {"ready"} : Begins(i, message)
      BY <1>2, ChildStarts
    <2> QED
      BY <2>1 DEF Begins
  <1>4. CASE ChildBrokenPipe(i)
    BY <1>4 DEF ChildBrokenPipe
  <1>5. CASE ChildExits(i)
    BY <1>5 DEF ChildExits
  <1>6. CASE ChildCrashes(i)
    BY <1>6 DEF ChildCrashes
  <1>7. CASE ChildHangs(i)
    BY <1>7 DEF ChildHangs
  <1>8. CASE ChildKilled(i)
    BY <1>8 DEF ChildKilled
  <1> QED
    BY <1>1, <1>2, <1>4, <1>5, <1>6, <1>7, <1>8 DEF ChildStep

\* Every step, those of cancel_all() included, keeps the ownership of children
\* and the reach of a cancellation.
LEMMA NextCancelInv == CancelInv /\ [Next]_vars => CancelInv'
  <1> SUFFICES ASSUME CancelInv, [Next]_vars PROVE Ownership' /\ Reach'
    BY NextTypeOK DEF CancelInv
  <1> USE DEF CancelInv, TypeOK, Ownership, Reach, Alive
  <1>1. ASSUME NEW i \in Items, ThreadStep(i) PROVE Ownership' /\ Reach'
    BY <1>1, ThreadCancelInv
  <1>2. ASSUME NEW i \in Items,
               ChildStep(i) \/ ChildCrashes(i) \/ ChildHangs(i) \/ ChildKilled(i)
        PROVE  Ownership' /\ Reach'
    BY <1>2, ChildCancelInv
  <1>3. ASSUME NEW i \in Items, DeadlinePasses(i) PROVE Ownership' /\ Reach'
    BY <1>3 DEF DeadlinePasses, threadVars, childVars, cancelVars
  <1>4. CASE CancelSetsFlag
    BY <1>4 DEF CancelSetsFlag, threadVars, childVars
  <1>5. CASE CancelSnapshots
    BY <1>5 DEF CancelSnapshots, Registered, threadVars, childVars
  <1>6. ASSUME NEW i \in Items, CancelSignals(i) PROVE Ownership' /\ Reach'
    BY <1>6 DEF CancelSignals, threadVars, childVars, Signalled
  <1>7. CASE CancelReturns
    BY <1>7 DEF CancelReturns, threadVars, childVars
  <1>8. CASE UNCHANGED vars
    BY <1>8 DEF vars
  <1> QED
    BY <1>1, <1>2, <1>3, <1>4, <1>5, <1>6, <1>7, <1>8
       DEF Next, CancelStep, Finished, Held

\* In every state of execute_shards and cancel_all(): children are owned by the
\* thread that started them, and each one a cancellation owes a signal has it.
THEOREM CancelInvariant == Spec => []CancelInv
  BY InitCancelInv, NextCancelInv, PTL DEF Spec

\* A cancellation reaches every child, however it races with the threads that
\* start and register children.
THEOREM CancellationReaches == Spec => []CancelReachesEveryChild
  <1>1. CancelInv => CancelReachesEveryChild
    BY DEF CancelInv, Reach, CancelReachesEveryChild
  <1> QED
    BY <1>1, CancelInvariant, PTL

\* No child outlives its work item, escapes cancel_all() once registered, or
\* shares its shard with another.
THEOREM ChildrenAreOwned == Spec => []LiveChildrenAreOwned
  <1>1. ASSUME CancelInv PROVE LiveChildrenAreOwned
    <2>1. ASSUME NEW i \in Items, Alive(i) PROVE i \in active \/ pc[i] = "registering"
      <3>1. pc[i] \in PCs \ {"queued", "starting", "reporting", "done"}
        BY <1>1, <2>1 DEF CancelInv, TypeOK, Ownership, Alive
      <3>2. pc[i] \in Registered => i \in active
        BY <1>1 DEF CancelInv, Ownership
      <3> QED
        BY <3>1, <3>2 DEF PCs
    <2>2. ASSUME NEW i \in Items, NEW j \in Earlier[i] PROVE ~(Alive(i) /\ Alive(j))
      <3>1. j \in Items
        BY <2>2, ConstantsAssumption
      <3>2. CASE pc[i] = "queued"
        BY <1>1, <3>2 DEF CancelInv, Ownership, Alive
      <3>3. CASE pc[i] # "queued"
        BY <1>1, <2>2, <3>1, <3>3 DEF CancelInv, Ownership
      <3> QED
        BY <3>2, <3>3
    <2> QED
      BY <2>1, <2>2 DEF LiveChildrenAreOwned
  <1> QED
    BY <1>1, CancelInvariant, PTL

-----------------------------------------------------------------------------
(***************************************************************************)
(* Delivery.                                                               *)
(***************************************************************************)
\* The child writes no more.
Silent(i) == child[i] \in {"leaving", "hung", "dead"}

PastLoop == {"closing", "grace", "secondGrace", "reaping", "reporting"}

\* The final envelope is the last message of a child; a sentinel seen means a
\* dead child; and an undisturbed wait loop ends when nothing is left to read
\* and nothing more will come.
Delivered(i) ==
  /\ taken[i] <= Len(sent[i])
  /\ pc[i] \in {"queued", "starting"} => sent[i] = << >>
  /\ \A k \in 1..Len(sent[i]) :
       sent[i][k] \in Final => k = Len(sent[i]) /\ Silent(i)
  /\ "sentinel" \in saw[i] => Dead(i)
  /\ pc[i] \in PastLoop /\ ~timedOut[i] /\ ~Cancelled
       => Silent(i) /\ taken[i] = Len(sent[i])
  /\ verdict[i] # "none" => pc[i] = "done"
  /\ verdict[i] \in {"VALUE", "CRASH", "INFRA_ERROR"} => taken[i] = Len(sent[i])

DeliveryInv == CancelInv /\ \A i \in Items : Delivered(i)

\* Before anything is started nothing was written and nothing received.
LEMMA InitDeliveryInv == Init => DeliveryInv
  BY InitCancelInv
     DEF Init, DeliveryInv, Delivered, Silent, PastLoop, Final, Dead, Cancelled

\* A shard thread leaves its receive loop only when nothing is left to receive,
\* or when the item is cancelled, timed out or concluded.
LEMMA ThreadDeliveryInv ==
  ASSUME DeliveryInv, NEW i \in Items, ThreadStep(i)
  PROVE  \A j \in Items : Delivered(j)'
  <1> USE DEF DeliveryInv, CancelInv, TypeOK, Ownership, Delivered, Silent,
            PastLoop, Alive, Dead, Cancelled, Goto, Return, childVars,
            cancelVars
  <1>1. CASE RefuseItem(i)
    BY <1>1 DEF RefuseItem
  <1>2. CASE AdmitItem(i)
    BY <1>2 DEF AdmitItem
  <1>3. CASE StartFails(i)
    BY <1>3 DEF StartFails
  <1>4. CASE StartChild(i)
    BY <1>4 DEF StartChild
  <1>5. CASE Register(i)
    BY <1>5 DEF Register
  <1>6. CASE Recheck(i)
    BY <1>6 DEF Recheck
  <1>7. CASE ScanPipe(i)
    BY <1>7 DEF ScanPipe
  <1>8. CASE ScanSentinel(i)
    <2>1. "sentinel" \in saw'[i] => Dead(i)
      BY <1>8 DEF ScanSentinel
    <2>2. pc'[i] \in PastLoop => timedOut'[i]
      <3> DEFINE ready == saw[i] \union (IF Dead(i) THEN {"sentinel"} ELSE {})
      <3>1. timedOut'[i] = (ready = {})
        BY <1>8 DEF ScanSentinel
      <3>2. ready # {} => pc'[i] \in {"draining", "receiving", "drained"}
        BY <1>8 DEF ScanSentinel
      <3> QED
        BY <3>1, <3>2
    <2>3. pc'[i] \notin {"queued", "starting", "done"}
      BY <1>8 DEF ScanSentinel
    <2>4. \A j \in Items \ {i} : /\ pc'[j] = pc[j]
                                 /\ saw'[j] = saw[j]
                                 /\ timedOut'[j] = timedOut[j]
      BY <1>8 DEF ScanSentinel
    <2>5. UNCHANGED <<child, sent, taken, verdict, canceller>> /\ pc[i] = "scanning"
      BY <1>8 DEF ScanSentinel
    <2> QED
      BY <2>1, <2>2, <2>3, <2>4, <2>5
  <1>9. CASE DrainTimesOut(i)
    BY <1>9 DEF DrainTimesOut
  <1>10. CASE DrainCancelled(i)
    BY <1>10 DEF DrainCancelled
  <1>19. CASE DrainWaits(i)
    BY <1>19 DEF DrainWaits, Receiving
  <1>11. CASE DrainEof(i)
    BY <1>11 DEF DrainEof, Receiving, Unread, Eof
  <1>12. CASE DrainMessage(i)
    BY <1>12 DEF DrainMessage, Receiving, Unread, Messages, Final
  <1>13. CASE AfterDrain(i)
    BY <1>13 DEF AfterDrain, LastLook, Readable, Unread
  <1>14. CASE ClosePipe(i)
    BY <1>14 DEF ClosePipe
  <1>15. CASE GraceOver(i)
    BY <1>15 DEF GraceOver
  <1>16. CASE SecondGraceOver(i)
    BY <1>16 DEF SecondGraceOver
  <1>17. CASE Reap(i)
    BY <1>17 DEF Reap, Joined
  <1>18. CASE Report(i)
    BY <1>18 DEF Report, StatusOf, Evidence
  <1> QED
    BY <1>1, <1>2, <1>3, <1>4, <1>5, <1>6, <1>7, <1>8, <1>9, <1>10, <1>11,
       <1>12, <1>13, <1>14, <1>15, <1>16, <1>17, <1>18, <1>19 DEF ThreadStep

\* A child writes nothing after its final envelope and nothing once dead.
LEMMA ChildDeliveryInv ==
  ASSUME DeliveryInv, NEW i \in Items,
         ChildStep(i) \/ ChildCrashes(i) \/ ChildHangs(i) \/ ChildKilled(i)
  PROVE  \A j \in Items : Delivered(j)'
  <1> USE DEF DeliveryInv, CancelInv, TypeOK, Ownership, Delivered, Silent,
            Alive, Dead, Cancelled, threadVars, cancelVars, Die
  <1>1. CASE ChildReady(i) \/ ChildWrites(i) \/ ChildCompletes(i)
    <2>1. PICK message \in Messages : Speaks(i, message)
      BY <1>1, ChildSpeaks
    <2> QED
      BY <2>1 DEF Speaks, Messages, Final
  <1>2. CASE ChildBegins(i)
    <2>1. PICK message \in Messages \ {"ready"} : Begins(i, message)
      BY <1>2, ChildStarts
    <2> QED
      BY <2>1 DEF Begins
  <1>4. CASE ChildBrokenPipe(i)
    BY <1>4 DEF ChildBrokenPipe
  <1>5. CASE ChildExits(i)
    BY <1>5 DEF ChildExits
  <1>6. CASE ChildCrashes(i)
    BY <1>6 DEF ChildCrashes
  <1>7. CASE ChildHangs(i)
    BY <1>7 DEF ChildHangs
  <1>8. CASE ChildKilled(i)
    BY <1>8 DEF ChildKilled
  <1> QED
    BY <1>1, <1>2, <1>4, <1>5, <1>6, <1>7, <1>8 DEF ChildStep

\* Every step keeps the account of what was written and received.
LEMMA NextDeliveryInv == DeliveryInv /\ [Next]_vars => DeliveryInv'
  <1> SUFFICES ASSUME DeliveryInv, [Next]_vars PROVE \A j \in Items : Delivered(j)'
    BY NextCancelInv DEF DeliveryInv
  <1> USE DEF DeliveryInv, CancelInv, TypeOK, Delivered, Silent, Dead,
             Cancelled
  <1>1. ASSUME NEW i \in Items, ThreadStep(i) PROVE \A j \in Items : Delivered(j)'
    BY <1>1, ThreadDeliveryInv
  <1>2. ASSUME NEW i \in Items,
               ChildStep(i) \/ ChildCrashes(i) \/ ChildHangs(i) \/ ChildKilled(i)
        PROVE  \A j \in Items : Delivered(j)'
    BY <1>2, ChildDeliveryInv
  <1>3. ASSUME NEW i \in Items, DeadlinePasses(i) PROVE \A j \in Items : Delivered(j)'
    BY <1>3 DEF DeadlinePasses, threadVars, childVars, cancelVars
  <1>4. CASE CancelSetsFlag
    BY <1>4 DEF CancelSetsFlag, threadVars, childVars
  <1>5. CASE CancelSnapshots
    BY <1>5 DEF CancelSnapshots, threadVars, childVars
  <1>6. ASSUME NEW i \in Items, CancelSignals(i) PROVE \A j \in Items : Delivered(j)'
    BY <1>6 DEF CancelSignals, threadVars, childVars
  <1>7. CASE CancelReturns
    BY <1>7 DEF CancelReturns, threadVars, childVars
  <1>8. CASE UNCHANGED vars
    BY <1>8 DEF vars
  <1> QED
    BY <1>1, <1>2, <1>3, <1>4, <1>5, <1>6, <1>7, <1>8
       DEF Next, CancelStep, Finished, Held

\* In every state, what execute() may still conclude about an item agrees with
\* what is left in its pipe.
THEOREM DeliveryInvariant == Spec => []DeliveryInv
  BY InitDeliveryInv, NextDeliveryInv, PTL DEF Spec

\* A result that a child delivered is never taken for a lost worker.
THEOREM MessagesAreReceived == Spec => []EveryMessageIsReceived
  <1>1. DeliveryInv => EveryMessageIsReceived
    BY DEF DeliveryInv, Delivered, EveryMessageIsReceived
  <1> QED
    BY <1>1, DeliveryInvariant, PTL

-----------------------------------------------------------------------------
(***************************************************************************)
(* What recv() waits for.                                                  *)
(***************************************************************************)
Listening ==
  {"registering", "rechecking", "waiting", "scanning", "draining", "receiving", "drained"}

\* A child that leaves while its pipe is open leaves its final envelope in it:
\* an end of file that the thread saw does not go away again.
Unblocked(i) ==
  /\ pc[i] = "scanning" /\ "pipe" \in saw[i] => Readable(i)
  /\ pc[i] \in {"draining", "receiving"} => Readable(i)
  /\ pc[i] \in Listening /\ child[i] = "leaving"
       => taken[i] < Len(sent[i]) /\ sent[i][Len(sent[i])] \in Final

BlockingInv == DeliveryInv /\ \A i \in Items : Unblocked(i)

\* Before anything is started no thread is about to receive.
LEMMA InitBlockingInv == Init => BlockingInv
  BY InitDeliveryInv DEF Init, BlockingInv, Unblocked, Listening

\* A shard thread goes to recv() only from a look that found the pipe readable.
LEMMA ThreadBlockingInv ==
  ASSUME BlockingInv, NEW i \in Items, ThreadStep(i)
  PROVE  \A j \in Items : Unblocked(j)'
  <1> USE DEF BlockingInv, DeliveryInv, CancelInv, TypeOK, Ownership,
            Delivered, Unblocked, Listening, Readable, Unread, Begun, Eof, Goto,
            Return, childVars, cancelVars
  <1>1. CASE RefuseItem(i)
    BY <1>1 DEF RefuseItem
  <1>2. CASE AdmitItem(i)
    BY <1>2 DEF AdmitItem
  <1>3. CASE StartFails(i)
    BY <1>3 DEF StartFails
  <1>4. CASE StartChild(i)
    BY <1>4 DEF StartChild
  <1>5. CASE Register(i)
    BY <1>5 DEF Register
  <1>6. CASE Recheck(i)
    BY <1>6 DEF Recheck
  <1>7. CASE ScanPipe(i)
    BY <1>7 DEF ScanPipe
  <1>8. CASE ScanSentinel(i)
    BY <1>8 DEF ScanSentinel
  <1>9. CASE DrainTimesOut(i)
    BY <1>9 DEF DrainTimesOut
  <1>10. CASE DrainCancelled(i)
    BY <1>10 DEF DrainCancelled
  <1>19. CASE DrainWaits(i)
    BY <1>19 DEF DrainWaits, Receiving
  <1>11. CASE DrainEof(i)
    BY <1>11 DEF DrainEof, Receiving
  <1>12. CASE DrainMessage(i)
    BY <1>12 DEF DrainMessage, Receiving, AnotherMessage, Messages, Final
  <1>13. CASE AfterDrain(i)
    BY <1>13 DEF AfterDrain
  <1>14. CASE ClosePipe(i)
    BY <1>14 DEF ClosePipe
  <1>15. CASE GraceOver(i)
    BY <1>15 DEF GraceOver
  <1>16. CASE SecondGraceOver(i)
    BY <1>16 DEF SecondGraceOver
  <1>17. CASE Reap(i)
    BY <1>17 DEF Reap
  <1>18. CASE Report(i)
    BY <1>18 DEF Report
  <1> QED
    BY <1>1, <1>2, <1>3, <1>4, <1>5, <1>6, <1>7, <1>8, <1>9, <1>10, <1>11,
       <1>12, <1>13, <1>14, <1>15, <1>16, <1>17, <1>18, <1>19 DEF ThreadStep

\* A child never makes a readable pipe unreadable again.
LEMMA ChildBlockingInv ==
  ASSUME BlockingInv, NEW i \in Items,
         ChildStep(i) \/ ChildCrashes(i) \/ ChildHangs(i) \/ ChildKilled(i)
  PROVE  \A j \in Items : Unblocked(j)'
  <1> USE DEF BlockingInv, DeliveryInv, CancelInv, TypeOK, Delivered, Silent,
            Unblocked, Listening, Readable, Unread, Begun, Eof, Alive, threadVars,
            cancelVars, Die
  <1>1. CASE ChildReady(i) \/ ChildWrites(i) \/ ChildCompletes(i)
    <2>1. PICK message \in Messages : Speaks(i, message)
      BY <1>1, ChildSpeaks
    <2> QED
      BY <2>1 DEF Speaks
  <1>2. CASE ChildBegins(i)
    <2>1. PICK message \in Messages \ {"ready"} : Begins(i, message)
      BY <1>2, ChildStarts
    <2> QED
      BY <2>1 DEF Begins, Messages, Final
  <1>4. CASE ChildBrokenPipe(i)
    BY <1>4 DEF ChildBrokenPipe, PipeClosed
  <1>5. CASE ChildExits(i)
    BY <1>5 DEF ChildExits
  <1>6. CASE ChildCrashes(i)
    BY <1>6 DEF ChildCrashes
  <1>7. CASE ChildHangs(i)
    BY <1>7 DEF ChildHangs
  <1>8. CASE ChildKilled(i)
    BY <1>8 DEF ChildKilled
  <1> QED
    BY <1>1, <1>2, <1>4, <1>5, <1>6, <1>7, <1>8 DEF ChildStep

\* Every step keeps the pipe of a thread about to receive readable.
LEMMA NextBlockingInv == BlockingInv /\ [Next]_vars => BlockingInv'
  <1> SUFFICES ASSUME BlockingInv, [Next]_vars PROVE \A j \in Items : Unblocked(j)'
    BY NextDeliveryInv DEF BlockingInv
  <1> USE DEF BlockingInv, DeliveryInv, CancelInv, TypeOK, Unblocked,
             Readable, Unread, Begun, Eof
  <1>1. ASSUME NEW i \in Items, ThreadStep(i) PROVE \A j \in Items : Unblocked(j)'
    BY <1>1, ThreadBlockingInv
  <1>2. ASSUME NEW i \in Items,
               ChildStep(i) \/ ChildCrashes(i) \/ ChildHangs(i) \/ ChildKilled(i)
        PROVE  \A j \in Items : Unblocked(j)'
    BY <1>2, ChildBlockingInv
  <1>3. ASSUME NEW i \in Items, DeadlinePasses(i) PROVE \A j \in Items : Unblocked(j)'
    BY <1>3 DEF DeadlinePasses, threadVars, childVars, cancelVars
  <1>4. CASE CancelSetsFlag
    BY <1>4 DEF CancelSetsFlag, threadVars, childVars
  <1>5. CASE CancelSnapshots
    BY <1>5 DEF CancelSnapshots, threadVars, childVars
  <1>6. ASSUME NEW i \in Items, CancelSignals(i) PROVE \A j \in Items : Unblocked(j)'
    BY <1>6 DEF CancelSignals, threadVars, childVars
  <1>7. CASE CancelReturns
    BY <1>7 DEF CancelReturns, threadVars, childVars
  <1>8. CASE UNCHANGED vars
    BY <1>8 DEF vars
  <1> QED
    BY <1>1, <1>2, <1>3, <1>4, <1>5, <1>6, <1>7, <1>8
       DEF Next, CancelStep, Finished, Held

\* In every state, a thread that is about to receive has something to receive
\* or the end of file.
THEOREM BlockingInvariant == Spec => []BlockingInv
  BY InitBlockingInv, NextBlockingInv, PTL DEF Spec

\* A shard thread is in recv() only for a message of which something has arrived,
\* or for an end of file: nothing but a message that breaks off can hold it there
\* past its deadline or a cancellation.
THEOREM ReceivesWhatIsThere == Spec => []OnlyBrokenMessagesBlock
  <1>1. BlockingInv => OnlyBrokenMessagesBlock
    BY DEF BlockingInv, Unblocked, OnlyBrokenMessagesBlock
  <1> QED
    BY <1>1, BlockingInvariant, PTL

-----------------------------------------------------------------------------
(***************************************************************************)
(* The supervisor implements the pool.                                     *)
(***************************************************************************)
\* Only an item with a deadline has a clock, so only such an item times out.
Timely(i) ==
  /\ child[i] = "boot" => i \in Announces
  /\ \A k \in 1..Len(sent[i]) : sent[i][k] = "ready" => i \in Announces
  /\ writing[i] # "ready"
  /\ clock[i] # "none" => i \in Timed
  /\ timedOut[i] => i \in Timed
  /\ pc[i] = "scanning" /\ saw[i] = {} => Dead(i) \/ clock[i] = "passed"
  /\ pc[i] = "done" => verdict[i] # "none"

PoolInv == DeliveryInv /\ \A i \in Items : Timely(i)

\* Before anything is started no item is timed out.
LEMMA InitPoolInv == Init => PoolInv
  BY InitDeliveryInv DEF Init, PoolInv, Timely

\* wait() finds nothing in the pipe only of a dead or an overdue process.
LEMMA ScanPipeTimely ==
  ASSUME PoolInv, NEW i \in Items, ScanPipe(i)
  PROVE  \A j \in Items : Timely(j)'
  <1>1. /\ pc' = [pc EXCEPT ![i] = "scanning"]
        /\ saw' = [saw EXCEPT ![i] = IF Readable(i) THEN {"pipe"} ELSE {}]
        /\ Readable(i) \/ Dead(i) \/ clock[i] = "passed"
        /\ UNCHANGED <<child, sent, writing, clock, timedOut, verdict>>
    BY DEF ScanPipe, Goto, childVars
  <1>2. /\ pc \in [Items -> PCs]
        /\ saw \in [Items -> SUBSET {"pipe", "sentinel"}]
    BY DEF PoolInv, DeliveryInv, CancelInv, TypeOK
  <1>3. ASSUME NEW j \in Items PROVE Timely(j)'
    <2>1. Timely(j)
      BY DEF PoolInv
    <2>2. CASE j = i
      BY <1>1, <1>2, <2>1, <2>2 DEF Timely, Dead
    <2>3. CASE j # i
      BY <1>1, <1>2, <2>1, <2>3 DEF Timely, Dead
    <2> QED
      BY <2>2, <2>3
  <1> QED
    BY <1>3

\* A shard thread records a timeout only after the deadline of its item.
LEMMA ThreadPoolInv ==
  ASSUME PoolInv, NEW i \in Items, ThreadStep(i)
  PROVE  \A j \in Items : Timely(j)'
  <1> USE DEF PoolInv, DeliveryInv, CancelInv, TypeOK, Ownership, Delivered,
            Timely, Dead, Goto, Return, childVars, cancelVars
  <1>1. CASE RefuseItem(i)
    BY <1>1 DEF RefuseItem
  <1>2. CASE AdmitItem(i)
    BY <1>2 DEF AdmitItem
  <1>3. CASE StartFails(i)
    BY <1>3 DEF StartFails, Verdicts
  <1>4. CASE StartChild(i)
    BY <1>4 DEF StartChild
  <1>5. CASE Register(i)
    BY <1>5 DEF Register
  <1>6. CASE Recheck(i)
    BY <1>6, ConstantsAssumption DEF Recheck
  <1>7. CASE ScanPipe(i)
    BY <1>7, ScanPipeTimely
  <1>8. CASE ScanSentinel(i)
    BY <1>8 DEF ScanSentinel
  <1>9. CASE DrainTimesOut(i)
    BY <1>9 DEF DrainTimesOut
  <1>10. CASE DrainCancelled(i)
    BY <1>10 DEF DrainCancelled
  <1>19. CASE DrainWaits(i)
    BY <1>19 DEF DrainWaits, Receiving
  <1>11. CASE DrainEof(i)
    BY <1>11 DEF DrainEof, Receiving
  <1>12. CASE DrainMessage(i)
    BY <1>12, ConstantsAssumption DEF DrainMessage, Receiving, Unread
  <1>13. CASE AfterDrain(i)
    BY <1>13 DEF AfterDrain
  <1>14. CASE ClosePipe(i)
    BY <1>14 DEF ClosePipe
  <1>15. CASE GraceOver(i)
    BY <1>15 DEF GraceOver
  <1>16. CASE SecondGraceOver(i)
    BY <1>16 DEF SecondGraceOver
  <1>17. CASE Reap(i)
    BY <1>17 DEF Reap
  <1>18. CASE Report(i)
    BY <1>18 DEF Report, StatusOf, Evidence, Final
  <1> QED
    BY <1>1, <1>2, <1>3, <1>4, <1>5, <1>6, <1>7, <1>8, <1>9, <1>10, <1>11,
       <1>12, <1>13, <1>14, <1>15, <1>16, <1>17, <1>18, <1>19 DEF ThreadStep

\* What a child does records no timeout.
LEMMA ChildPoolInv ==
  ASSUME PoolInv, NEW i \in Items,
         ChildStep(i) \/ ChildCrashes(i) \/ ChildHangs(i) \/ ChildKilled(i)
  PROVE  \A j \in Items : Timely(j)'
  <1> USE DEF PoolInv, DeliveryInv, CancelInv, TypeOK, Delivered, Timely,
            Alive, Dead, threadVars, cancelVars, Die
  <1>1. CASE ChildReady(i) \/ ChildWrites(i) \/ ChildCompletes(i)
    <2>1. PICK message \in Messages : Speaks(i, message)
      BY <1>1, ChildSpeaks
    <2> QED
      BY <2>1 DEF Speaks, Final
  <1>2. CASE ChildBegins(i)
    <2>1. PICK message \in Messages \ {"ready"} : Begins(i, message)
      BY <1>2, ChildStarts
    <2> QED
      BY <2>1 DEF Begins
  <1>4. CASE ChildBrokenPipe(i)
    BY <1>4 DEF ChildBrokenPipe
  <1>5. CASE ChildExits(i)
    BY <1>5 DEF ChildExits
  <1>6. CASE ChildCrashes(i)
    BY <1>6 DEF ChildCrashes
  <1>7. CASE ChildHangs(i)
    BY <1>7 DEF ChildHangs
  <1>8. CASE ChildKilled(i)
    BY <1>8 DEF ChildKilled
  <1> QED
    BY <1>1, <1>2, <1>4, <1>5, <1>6, <1>7, <1>8 DEF ChildStep

\* Every step keeps timeouts to the items that have a deadline.
LEMMA NextPoolInv == PoolInv /\ [Next]_vars => PoolInv'
  <1> SUFFICES ASSUME PoolInv, [Next]_vars PROVE \A j \in Items : Timely(j)'
    BY NextDeliveryInv DEF PoolInv
  <1> USE DEF PoolInv, DeliveryInv, CancelInv, TypeOK, Timely, Dead
  <1>1. ASSUME NEW i \in Items, ThreadStep(i) PROVE \A j \in Items : Timely(j)'
    BY <1>1, ThreadPoolInv
  <1>2. ASSUME NEW i \in Items,
               ChildStep(i) \/ ChildCrashes(i) \/ ChildHangs(i) \/ ChildKilled(i)
        PROVE  \A j \in Items : Timely(j)'
    BY <1>2, ChildPoolInv
  <1>3. ASSUME NEW i \in Items, DeadlinePasses(i) PROVE \A j \in Items : Timely(j)'
    BY <1>3 DEF DeadlinePasses, threadVars, childVars, cancelVars
  <1>4. CASE CancelSetsFlag
    BY <1>4 DEF CancelSetsFlag, threadVars, childVars
  <1>5. CASE CancelSnapshots
    BY <1>5 DEF CancelSnapshots, threadVars, childVars
  <1>6. ASSUME NEW i \in Items, CancelSignals(i) PROVE \A j \in Items : Timely(j)'
    BY <1>6 DEF CancelSignals, threadVars, childVars
  <1>7. CASE CancelReturns
    BY <1>7 DEF CancelReturns, threadVars, childVars
  <1>8. CASE UNCHANGED vars
    BY <1>8 DEF vars
  <1> QED
    BY <1>1, <1>2, <1>3, <1>4, <1>5, <1>6, <1>7, <1>8
       DEF Next, CancelStep, Finished, Held

\* In every state a recorded timeout belongs to an item whose deadline passed.
THEOREM PoolInvariant == Spec => []PoolInv
  BY InitPoolInv, NextPoolInv, PTL DEF Spec

\* Each return of execute() is one verdict of the pool, given in shard order.
LEMMA ReturnRefines ==
  ASSUME PoolInv, NEW i \in Items, NEW status \in Verdicts,
         pc[i] # "done", \A j \in Earlier[i] : pc[j] = "done",
         verdict' = [verdict EXCEPT ![i] = status], UNCHANGED Cancelled,
         IF Cancelled THEN status \in {"CANCELLED", "INFRA_ERROR"}
                      ELSE status # "CANCELLED",
         status = "TIMEOUT" => i \in Timed
  PROVE  WorkerPool!Next
  <1>1. \A j \in Earlier[i] : j \in Items
    BY ConstantsAssumption
  <1>2. WorkerPool!Finish(i, status)
    BY <1>1 DEF WorkerPool!Finish, PoolInv, DeliveryInv, CancelInv, TypeOK, Delivered, Timely
  <1> QED
    BY <1>2 DEF WorkerPool!Next, WorkerPool!Verdicts, Verdicts

\* A step of a shard thread is a verdict of the pool or changes nothing the
\* callers of execute_shards can see.
LEMMA ThreadRefines ==
  ASSUME PoolInv, NEW i \in Items, ThreadStep(i)
  PROVE  WorkerPool!Next \/ UNCHANGED WorkerPool!vars
  <1> USE DEF Goto, Return
  <1>1. pc[i] # "queued" => \A j \in Earlier[i] : pc[j] = "done"
    BY DEF PoolInv, DeliveryInv, CancelInv, Ownership
  <1>2. CASE RefuseItem(i)
    <2>1. UNCHANGED Cancelled
      BY <1>2 DEF RefuseItem, cancelVars, Cancelled
    <2> QED
      BY <1>2, <2>1, ReturnRefines DEF RefuseItem, Verdicts
  <1>3. CASE StartFails(i)
    <2>1. UNCHANGED Cancelled
      BY <1>3 DEF StartFails, cancelVars, Cancelled
    <2> QED
      BY <1>1, <1>3, <2>1, ReturnRefines DEF StartFails, Verdicts
  <1>4. CASE Report(i)
    <2>1. UNCHANGED Cancelled
      BY <1>4 DEF Report, cancelVars, Cancelled
    <2>2. /\ StatusOf(i) \in Verdicts
          /\ IF Cancelled THEN StatusOf(i) = "CANCELLED" ELSE StatusOf(i) # "CANCELLED"
          /\ StatusOf(i) = "TIMEOUT" => i \in Timed
      BY DEF StatusOf, Evidence, Verdicts, PoolInv, Timely
    <2> QED
      BY <1>1, <1>4, <2>1, <2>2, ReturnRefines DEF Report
  <1>5. CASE UNCHANGED <<verdict, canceller>>
    BY <1>5 DEF WorkerPool!vars, Cancelled
  <1> QED
    BY <1>2, <1>3, <1>4, <1>5
       DEF ThreadStep, cancelVars, AdmitItem, StartChild, Register, Recheck,
           ScanPipe, ScanSentinel, DrainTimesOut, DrainCancelled, DrainWaits, DrainEof,
           DrainMessage, AfterDrain, ClosePipe, GraceOver, SecondGraceOver, Reap

\* Every step is a verdict, the cancellation, or invisible to the callers.
LEMMA NextRefines ==
  PoolInv /\ [Next]_vars => [WorkerPool!Next]_WorkerPool!vars
  <1> SUFFICES ASSUME PoolInv, [Next]_vars
               PROVE  WorkerPool!Next \/ UNCHANGED WorkerPool!vars
    OBVIOUS
  <1>1. ASSUME NEW i \in Items, ThreadStep(i)
        PROVE  WorkerPool!Next \/ UNCHANGED WorkerPool!vars
    BY <1>1, ThreadRefines
  <1>2. CASE CancelSetsFlag
    BY <1>2 DEF CancelSetsFlag, threadVars, Cancelled, WorkerPool!Next, WorkerPool!Cancel
  <1>3. CASE CancelStep
    BY <1>3 DEF CancelStep, CancelSnapshots, CancelSignals, CancelReturns,
                threadVars, Cancelled, WorkerPool!vars
  <1>4. CASE UNCHANGED <<verdict, canceller>>
    BY <1>4 DEF WorkerPool!vars, Cancelled
  <1>5. ASSUME NEW i \in Items,
               ChildStep(i) \/ ChildCrashes(i) \/ ChildHangs(i) \/ ChildKilled(i)
                 \/ DeadlinePasses(i)
        PROVE  UNCHANGED <<verdict, canceller>>
    BY <1>5 DEF ChildStep, ChildReady, ChildWrites, ChildBegins, ChildCompletes,
                ChildBrokenPipe, ChildExits, ChildCrashes, ChildHangs, ChildKilled, DeadlinePasses,
                Die, threadVars, cancelVars
  <1> QED
    BY <1>1, <1>2, <1>3, <1>4, <1>5 DEF Next, Finished, Held, vars

\* execute_shards keeps the promises its callers rely on: one verdict per item,
\* in shard order, timeouts only where there is a deadline, and no success after
\* a cancellation.
THEOREM SupervisorImplementsPool == Spec => ImplementsPool
  <1>1. Init => WorkerPool!Init
    BY DEF Init, WorkerPool!Init, Cancelled
  <1> QED
    BY <1>1, PoolInvariant, NextRefines, PTL DEF Spec, ImplementsPool, WorkerPool!Spec
=============================================================================
