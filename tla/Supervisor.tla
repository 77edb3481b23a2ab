----------------------------- MODULE Supervisor -----------------------------
(***************************************************************************)
(* ProcessSupervisor of src/testenix/worker.py: one thread per shard runs  *)
(* its work items one after the other, each in a fresh child process that  *)
(* reports over a pipe, while another thread may call cancel_all().        *)
(*                                                                         *)
(* The state of a thread is kept per work item: an item leaves "queued"    *)
(* only when the items its shard runs before it are "done", so at most one *)
(* item of a shard is between those two values of pc.  A pipe is the       *)
(* sequence sent[i] of every message the child ever wrote, the number      *)
(* taken[i] of those the supervisor has received, and writing[i], the      *)
(* message of which only the beginning is in it.  Messages of more than    *)
(* PIPE_BUF bytes enter a pipe by parts.                                   *)
(***************************************************************************)
EXTENDS Naturals, Sequences

CONSTANTS
  Items,         \* work items of one execute_shards call
  Earlier,       \* Earlier[i]: the items the shard of i runs before i
  Timed,         \* items with a timeout
  Announces,     \* timed items with a ready callback and a startup deadline
  Streaming,     \* items that publish results before they return
  Stubborn,      \* items whose process may survive SIGTERM
  MayHang,       \* items whose process may stop making progress
  Large,         \* items whose envelopes may enter the pipe by parts
  Leaky,         \* items with a descendant that keeps the pipe's write end open
  DrainLimit,    \* envelopes drained per wake-up (64 in the code)
  PipeCapacity,  \* envelopes the operating system buffers for one pipe
  MaxSent        \* bound on the envelopes of one child before its last

ASSUME ConstantsAssumption ==
  /\ Earlier \in [Items -> SUBSET Items]
  /\ Timed \subseteq Items
  /\ Announces \subseteq Timed
  /\ Streaming \subseteq Items
  /\ Stubborn \subseteq Items
  /\ MayHang \subseteq Items
  /\ Large \subseteq Items
  /\ Leaky \subseteq Items
  /\ DrainLimit \in Nat \ {0}
  /\ PipeCapacity \in Nat \ {0}
  /\ MaxSent \in Nat

VARIABLES
  pc,         \* where the shard thread is in execute(i)
  child,      \* the process of i
  exit,       \* its exit code, once dead
  signal,     \* the strongest signal sent to its process group
  sent,       \* messages written to the pipe of i
  writing,    \* the message the child has begun to write, or "nothing"
  taken,      \* messages received from it
  saw,        \* handles the last wait() returned: a snapshot
  drained,    \* messages received since that wait()
  clock,      \* the deadline of i: none, armed or passed
  envelope,   \* the final envelope, once received
  timedOut,   \* the local timed_out of execute(i)
  verdict,    \* status of the WorkerExecution execute(i) returned
  active,     \* _active_processes
  canceller,  \* progress of the thread in cancel_all()
  targets     \* the processes of its snapshot it has yet to look at

threadVars == <<pc, saw, drained, envelope, timedOut, verdict>>
childVars  == <<child, exit, sent, writing>>
cancelVars == <<canceller, targets>>
vars == <<pc, child, exit, signal, sent, writing, taken, saw, drained, clock, envelope,
          timedOut, verdict, active, canceller, targets>>

-----------------------------------------------------------------------------
Final    == {"ok", "exception", "unserializable"}
Messages == Final \union {"ready", "stream"}
Verdicts == {"VALUE", "INFRA_ERROR", "CRASH", "TIMEOUT", "CANCELLED"}

Registered == {"rechecking", "waiting", "scanning", "draining", "receiving",
               "drained", "closing", "grace", "secondGrace", "reaping"}
PCs == Registered \union {"queued", "starting", "registering", "reporting", "done"}

Alive(i) == child[i] \in {"boot", "run", "leaving", "hung"}
Dead(i)  == child[i] = "dead"

\* _cancelled.is_set()
Cancelled == canceller # "idle"

\* The parent sees end of file when no process holds the write end any more.
Eof(i) == child[i] \in {"leaving", "dead"} /\ i \notin Leaky
Unread(i)   == taken[i] < Len(sent[i])
Begun(i)    == writing[i] # "nothing"

\* What poll() tells: the first bytes of a message are as good as all of it.
Readable(i) == Unread(i) \/ Begun(i) \/ Eof(i)

\* _terminate_process_tree: a signal is never taken back.
Signalled(i, force) ==
  [signal EXCEPT ![i] = IF force \/ @ = "kill" THEN "kill" ELSE "term"]

Init ==
  /\ pc       = [i \in Items |-> "queued"]
  /\ child    = [i \in Items |-> "absent"]
  /\ exit     = [i \in Items |-> "none"]
  /\ signal   = [i \in Items |-> "none"]
  /\ sent     = [i \in Items |-> << >>]
  /\ writing  = [i \in Items |-> "nothing"]
  /\ taken    = [i \in Items |-> 0]
  /\ saw      = [i \in Items |-> {}]
  /\ drained  = [i \in Items |-> 0]
  /\ clock    = [i \in Items |-> "none"]
  /\ envelope = [i \in Items |-> "none"]
  /\ timedOut = [i \in Items |-> FALSE]
  /\ verdict  = [i \in Items |-> "none"]
  /\ active   = {}
  /\ canceller = "idle"
  /\ targets   = {}

-----------------------------------------------------------------------------
(***************************************************************************)
(* The shard thread.                                                       *)
(***************************************************************************)
Goto(i, from, to) == pc[i] = from /\ pc' = [pc EXCEPT ![i] = to]

Return(i, from, status) ==
  /\ Goto(i, from, "done")
  /\ verdict' = [verdict EXCEPT ![i] = status]

\* execute() looks at the cancellation flag before it starts anything.
RefuseItem(i) ==
  /\ \A j \in Earlier[i] : pc[j] = "done"
  /\ Cancelled
  /\ Return(i, "queued", "CANCELLED")
  /\ UNCHANGED <<childVars, cancelVars, signal, taken, saw, drained, clock,
                 envelope, timedOut, active>>

AdmitItem(i) ==
  /\ \A j \in Earlier[i] : pc[j] = "done"
  /\ ~Cancelled
  /\ Goto(i, "queued", "starting")
  /\ UNCHANGED <<childVars, cancelVars, signal, taken, saw, drained, clock,
                 envelope, timedOut, verdict, active>>

StartFails(i) ==
  /\ Return(i, "starting", "INFRA_ERROR")
  /\ UNCHANGED <<childVars, cancelVars, signal, taken, saw, drained, clock,
                 envelope, timedOut, active>>

StartChild(i) ==
  /\ Goto(i, "starting", "registering")
  /\ child' = [child EXCEPT ![i] = IF i \in Announces THEN "boot" ELSE "run"]
  /\ UNCHANGED <<cancelVars, exit, sent, writing, signal, taken, saw, drained,
                 clock, envelope, timedOut, verdict, active>>

Register(i) ==
  /\ Goto(i, "registering", "rechecking")
  /\ active' = active \union {i}
  /\ UNCHANGED <<childVars, cancelVars, signal, taken, saw, drained, clock,
                 envelope, timedOut, verdict>>

\* Mutant: execute() trusts the look it took before it started the process.
NoSecondLook(i) == FALSE

\* A cancellation that came between the first look and the registration finds
\* no process to terminate; the second look makes up for it.
SecondLook(i) == Cancelled

Recheck(i) ==
  /\ Goto(i, "rechecking", "waiting")
  /\ signal' = IF SecondLook(i) THEN Signalled(i, FALSE) ELSE signal
  /\ clock' = [clock EXCEPT ![i] = IF i \in Timed THEN "armed" ELSE "none"]
  /\ UNCHANGED <<childVars, cancelVars, taken, saw, drained, envelope,
                 timedOut, verdict, active>>

\* wait((parent_connection, process.sentinel), remaining) polls its handles in
\* order, and the child may write and exit between the two looks.
ScanPipe(i) ==
  /\ Readable(i) \/ Dead(i) \/ clock[i] = "passed"
  /\ Goto(i, "waiting", "scanning")
  /\ saw' = [saw EXCEPT ![i] = IF Readable(i) THEN {"pipe"} ELSE {}]
  /\ UNCHANGED <<childVars, cancelVars, signal, taken, drained, clock,
                 envelope, timedOut, verdict, active>>

ScanSentinel(i) ==
  LET ready == saw[i] \union (IF Dead(i) THEN {"sentinel"} ELSE {})
  IN /\ Goto(i, "scanning", IF ready = {} THEN "closing"
                            ELSE IF "pipe" \in ready THEN "draining" ELSE "drained")
     /\ saw' = [saw EXCEPT ![i] = ready]
     /\ drained' = [drained EXCEPT ![i] = 0]
     /\ timedOut' = [timedOut EXCEPT ![i] = (ready = {})]
     /\ UNCHANGED <<childVars, cancelVars, signal, taken, clock, envelope,
                    verdict, active>>

\* The two ways out of the drain loop without a call of recv().
DrainTimesOut(i) ==
  /\ clock[i] = "passed"
  /\ Goto(i, "draining", "closing")
  /\ timedOut' = [timedOut EXCEPT ![i] = TRUE]
  /\ UNCHANGED <<childVars, cancelVars, signal, taken, saw, drained, clock,
                 envelope, verdict, active>>

DrainCancelled(i) ==
  /\ clock[i] # "passed" /\ Cancelled
  /\ Goto(i, "draining", "closing")
  /\ UNCHANGED <<childVars, cancelVars, signal, taken, saw, drained, clock,
                 envelope, timedOut, verdict, active>>

\* The rest of a drain, in recv() or on the way into it.
Receiving(i) ==
  \/ pc[i] = "draining" /\ clock[i] # "passed" /\ ~Cancelled
  \/ pc[i] = "receiving"

\* recv() has no timeout and is deaf to a cancellation: it waits for a message,
\* and for all of it.
DrainWaits(i) ==
  /\ Receiving(i) /\ ~Unread(i) /\ ~Eof(i)
  /\ Goto(i, "draining", "receiving")
  /\ UNCHANGED <<childVars, cancelVars, signal, taken, saw, drained, clock,
                 envelope, timedOut, verdict, active>>

\* EOFError, or the OSError of a message that breaks off.
DrainEof(i) ==
  /\ Receiving(i) /\ ~Unread(i) /\ Eof(i)
  /\ Goto(i, pc[i], "closing")
  /\ UNCHANGED <<childVars, cancelVars, signal, taken, saw, drained, clock,
                 envelope, timedOut, verdict, active>>

\* Mutant: the drain goes on to its limit without asking poll().
DrainsBlindly(i) == TRUE

\* poll(), after the message just taken.
AnotherMessage(i) == taken[i] + 1 < Len(sent[i]) \/ Begun(i) \/ Eof(i)

\* recv() returns: a partial result, the ready signal, which restarts the clock with
\* the test's own budget, or the final envelope.
DrainMessage(i) ==
  LET message == sent[i][taken[i] + 1]
  IN /\ Receiving(i) /\ Unread(i)
     /\ Goto(i, pc[i], IF message \in Final THEN "closing"
                       ELSE IF drained[i] + 1 < DrainLimit /\ AnotherMessage(i)
                            THEN "draining" ELSE "drained")
     /\ taken' = [taken EXCEPT ![i] = @ + 1]
     /\ drained' = [drained EXCEPT ![i] = @ + 1]
     /\ envelope' = [envelope EXCEPT ![i] = IF message \in Final THEN message ELSE @]
     /\ clock' = [clock EXCEPT ![i] = IF message = "ready" THEN "armed" ELSE @]
     /\ UNCHANGED <<childVars, cancelVars, signal, saw, timedOut, verdict, active>>

\* Mutant: a dead process ends the loop whatever is left in its pipe.
NoLastLook(i) == FALSE

\* parent_connection.poll(0.01)
LastLook(i) == Readable(i)

\* After the drain: the sentinel of the snapshot ends the loop only if one more
\* look at the pipe finds nothing.
AfterDrain(i) ==
  /\ Goto(i, "drained", IF ~Cancelled /\ ("sentinel" \in saw[i] => LastLook(i))
                        THEN "waiting" ELSE "closing")
  /\ UNCHANGED <<childVars, cancelVars, signal, taken, saw, drained, clock,
                 envelope, timedOut, verdict, active>>

\* The finally block: close the pipe, with what is left in it, and escalate SIGTERM,
\* SIGKILL.
ClosePipe(i) ==
  /\ Goto(i, "closing", "grace")
  /\ writing' = [writing EXCEPT ![i] = "nothing"]
  /\ signal' = IF Alive(i) /\ (envelope[i] # "none" \/ timedOut[i])
               THEN Signalled(i, FALSE) ELSE signal
  /\ UNCHANGED <<cancelVars, child, exit, sent, taken, saw, drained, clock, envelope,
                 timedOut, verdict, active>>

\* Mutant: the first escalation repeats SIGTERM.
NeverForces(i) == FALSE

\* A process that overran its deadline is killed at the end of its first grace
\* period, any other one only at the end of a second.
ForcesFirst(i) == timedOut[i]

GraceOver(i) ==
  /\ Goto(i, "grace", IF Alive(i) /\ ~timedOut[i] THEN "secondGrace" ELSE "reaping")
  /\ signal' = IF Alive(i) THEN Signalled(i, ForcesFirst(i)) ELSE signal
  /\ UNCHANGED <<childVars, cancelVars, taken, saw, drained, clock, envelope,
                 timedOut, verdict, active>>

SecondGraceOver(i) ==
  /\ Goto(i, "secondGrace", "reaping")
  /\ signal' = IF Alive(i) THEN Signalled(i, TRUE) ELSE signal
  /\ UNCHANGED <<childVars, cancelVars, taken, saw, drained, clock, envelope,
                 timedOut, verdict, active>>

\* Mutant: the last join() gives up on the process.
JoinGivesUp(i) == TRUE

Joined(i) == Dead(i)

\* join() returns, the rest of the group is killed, the process is discarded.
Reap(i) ==
  /\ Joined(i)
  /\ Goto(i, "reaping", "reporting")
  /\ signal' = Signalled(i, TRUE)
  /\ active' = active \ {i}
  /\ UNCHANGED <<childVars, cancelVars, taken, saw, drained, clock, envelope,
                 timedOut, verdict>>

Evidence(i) ==
  IF timedOut[i] THEN "TIMEOUT"
  ELSE IF envelope[i] = "ok" THEN "VALUE"
  ELSE IF envelope[i] = "none" /\ exit[i] = "nonzero" THEN "CRASH"
  ELSE "INFRA_ERROR"

\* Mutant: the kind of the envelope is used as a status.
RawStatus(i) == IF Cancelled THEN "CANCELLED" ELSE envelope[i]

\* Mutant: a result that arrived before the cancellation is reported after it.
StatusDespiteCancel(i) == Evidence(i)

\* Cancellation outranks a timeout, which outranks whatever was received.
StatusOf(i) == IF Cancelled THEN "CANCELLED" ELSE Evidence(i)

\* The locals of execute(i) end with it.
Report(i) ==
  /\ Return(i, "reporting", StatusOf(i))
  /\ saw' = [saw EXCEPT ![i] = {}]
  /\ drained' = [drained EXCEPT ![i] = 0]
  /\ clock' = [clock EXCEPT ![i] = "none"]
  /\ envelope' = [envelope EXCEPT ![i] = "none"]
  /\ timedOut' = [timedOut EXCEPT ![i] = FALSE]
  /\ UNCHANGED <<childVars, cancelVars, signal, taken, active>>

ThreadStep(i) ==
  \/ RefuseItem(i) \/ AdmitItem(i) \/ StartFails(i) \/ StartChild(i)
  \/ Register(i) \/ Recheck(i) \/ ScanPipe(i) \/ ScanSentinel(i)
  \/ DrainTimesOut(i) \/ DrainCancelled(i) \/ DrainWaits(i) \/ DrainEof(i)
  \/ DrainMessage(i)
  \/ AfterDrain(i) \/ ClosePipe(i) \/ GraceOver(i) \/ SecondGraceOver(i)
  \/ Reap(i) \/ Report(i)

-----------------------------------------------------------------------------
(***************************************************************************)
(* The child process: _child_entry around the target.                      *)
(***************************************************************************)
PipeClosed(i) == pc[i] \in {"grace", "secondGrace", "reaping"}

\* Room in the pipe, for one writer: the thread of the child that runs the test.
MaySend(i) ==
  /\ ~PipeClosed(i) /\ ~Begun(i)
  /\ Len(sent[i]) - taken[i] < PipeCapacity

Send(i, message) ==
  /\ MaySend(i)
  /\ sent' = [sent EXCEPT ![i] = Append(@, message)]
  /\ UNCHANGED writing

\* Its final envelope written, the child has nothing more to do.
After(i, message) ==
  child' = [child EXCEPT ![i] = IF message \in Final THEN "leaving" ELSE "run"]

\* A small message, or one that enters the pipe before anybody looks again.
ChildReady(i) ==
  /\ child[i] = "boot"
  /\ Send(i, "ready") /\ After(i, "ready")
  /\ UNCHANGED <<threadVars, cancelVars, exit, signal, taken, clock, active>>

\* What the child may write next: a partial result, or the target returned,
\* raised, or returned what cannot be pickled; before the ready signal it can
\* only have raised.
Outgoing(i) ==
  CASE child[i] = "boot" -> {"exception"}
    [] child[i] = "run" -> Final \union
         (IF i \in Streaming /\ Len(sent[i]) < MaxSent THEN {"stream"} ELSE {})
    [] OTHER -> {}

ChildWrites(i) ==
  /\ \E message \in Outgoing(i) : Send(i, message) /\ After(i, message)
  /\ UNCHANGED <<threadVars, cancelVars, exit, signal, taken, clock, active>>

\* Connection.send() of a large one: the beginning, and later the rest.
ChildBegins(i) ==
  /\ i \in Large /\ MaySend(i)
  /\ \E message \in Outgoing(i) : writing' = [writing EXCEPT ![i] = message]
  /\ UNCHANGED <<threadVars, cancelVars, child, exit, sent, signal, taken, clock,
                 active>>

ChildCompletes(i) ==
  /\ child[i] \in {"boot", "run"} /\ Begun(i) /\ ~PipeClosed(i)
  /\ sent' = [sent EXCEPT ![i] = Append(@, writing[i])]
  /\ writing' = [writing EXCEPT ![i] = "nothing"]
  /\ After(i, writing[i])
  /\ UNCHANGED <<threadVars, cancelVars, exit, signal, taken, clock, active>>

\* Writing to a closed pipe raises, and so does the fallback envelope.
ChildBrokenPipe(i) ==
  /\ child[i] \in {"boot", "run"} /\ PipeClosed(i)
  /\ child' = [child EXCEPT ![i] = "leaving"]
  /\ UNCHANGED <<threadVars, cancelVars, exit, sent, writing, signal, taken, clock,
                 active>>

Die(i, code) ==
  /\ child' = [child EXCEPT ![i] = "dead"]
  /\ exit' = [exit EXCEPT ![i] = code]
  /\ UNCHANGED <<threadVars, cancelVars, signal, sent, writing, taken, clock, active>>

ChildExits(i) == child[i] = "leaving" /\ Die(i, "zero")

\* A hard crash, or test code that calls os._exit.
ChildCrashes(i) ==
  /\ child[i] \in {"boot", "run", "leaving"}
  /\ \E code \in {"zero", "nonzero"} : Die(i, code)

ChildHangs(i) ==
  /\ i \in MayHang /\ child[i] \in {"boot", "run", "leaving"}
  /\ child' = [child EXCEPT ![i] = "hung"]
  /\ UNCHANGED <<threadVars, cancelVars, exit, signal, sent, writing, taken, clock,
                 active>>

ChildKilled(i) == Alive(i) /\ signal[i] # "none" /\ Die(i, "nonzero")

\* Only SIGKILL is sure to end a stubborn process.
MustDie(i) ==
  ChildKilled(i) /\ (signal[i] = "kill" \/ i \notin Stubborn)

ChildStep(i) ==
  ChildReady(i) \/ ChildWrites(i) \/ ChildBegins(i) \/ ChildCompletes(i)
    \/ ChildBrokenPipe(i) \/ ChildExits(i)

\* time.monotonic() reaches the deadline of a process not yet dealt with.
DeadlinePasses(i) ==
  /\ clock[i] = "armed"
  /\ pc[i] \in {"waiting", "scanning", "draining", "receiving", "drained"}
  /\ clock' = [clock EXCEPT ![i] = "passed"]
  /\ UNCHANGED <<threadVars, childVars, cancelVars, signal, taken, active>>

-----------------------------------------------------------------------------
(***************************************************************************)
(* cancel_all(), called when the embedding task is cancelled.              *)
(***************************************************************************)
CancelSetsFlag ==
  /\ canceller = "idle"
  /\ canceller' = "flagged"
  /\ UNCHANGED <<threadVars, childVars, signal, taken, clock, active, targets>>

CancelSnapshots ==
  /\ canceller = "flagged"
  /\ canceller' = "sweeping"
  /\ targets' = active
  /\ UNCHANGED <<threadVars, childVars, signal, taken, clock, active>>

CancelSignals(i) ==
  /\ canceller = "sweeping" /\ i \in targets
  /\ targets' = targets \ {i}
  /\ signal' = IF Alive(i) THEN Signalled(i, FALSE) ELSE signal
  /\ UNCHANGED <<threadVars, childVars, taken, clock, active, canceller>>

CancelReturns ==
  /\ canceller = "sweeping" /\ targets = {}
  /\ canceller' = "returned"
  /\ UNCHANGED <<threadVars, childVars, signal, taken, clock, active, targets>>

CancelStep == CancelSnapshots \/ (\E i \in Items : CancelSignals(i)) \/ CancelReturns

-----------------------------------------------------------------------------
AllDone == \A i \in Items : pc[i] = "done"

\* execute_shards has returned and nobody cancels any more.
Finished == AllDone /\ canceller \in {"idle", "returned"} /\ UNCHANGED vars

\* The beginning of a message whose writer writes no more, and whose pipe is
\* still open: its child hangs, or died and left a descendant.
BrokenOff(i) ==
  /\ pc[i] = "receiving" /\ ~Unread(i) /\ Begun(i) /\ ~Eof(i)
  /\ child[i] \in {"hung", "dead"}

\* No step is left to a thread in recv() on such a message.
Held == (\E i \in Items : BrokenOff(i)) /\ UNCHANGED vars

Next ==
  \/ \E i \in Items :
       \/ ThreadStep(i) \/ ChildStep(i) \/ ChildCrashes(i) \/ ChildHangs(i)
       \/ ChildKilled(i) \/ DeadlinePasses(i)
  \/ CancelSetsFlag \/ CancelStep \/ Finished \/ Held

Spec == Init /\ [][Next]_vars

\* The operating system runs every thread and every process that is not hung,
\* delivers signals, and time passes.  Nothing obliges anybody to cancel.
Fairness ==
  /\ \A i \in Items :
       /\ WF_vars(ThreadStep(i))
       /\ WF_vars(ChildStep(i))
       /\ WF_vars(MustDie(i))
       /\ WF_vars(DeadlinePasses(i))
  /\ WF_vars(CancelStep)

FairSpec == Spec /\ Fairness

-----------------------------------------------------------------------------
TypeOK ==
  /\ pc \in [Items -> PCs]
  /\ child \in [Items -> {"absent", "boot", "run", "leaving", "hung", "dead"}]
  /\ exit \in [Items -> {"none", "zero", "nonzero"}]
  /\ signal \in [Items -> {"none", "term", "kill"}]
  /\ sent \in [Items -> Seq(Messages)]
  /\ writing \in [Items -> Messages \union {"nothing"}]
  /\ taken \in [Items -> Nat]
  /\ saw \in [Items -> SUBSET {"pipe", "sentinel"}]
  /\ drained \in [Items -> Nat]
  /\ clock \in [Items -> {"none", "armed", "passed"}]
  /\ envelope \in [Items -> Final \union {"none"}]
  /\ timedOut \in [Items -> BOOLEAN]
  /\ verdict \in [Items -> Verdicts \union {"none"}]
  /\ active \in SUBSET Items
  /\ canceller \in {"idle", "flagged", "sweeping", "returned"}
  /\ targets \in SUBSET Items

\* Once cancel_all() has returned, every child that is still alive and that its
\* thread has gone on to wait for has been sent a termination signal, however
\* the flag, the snapshot of _active_processes and a concurrent start interleave.
CancelReachesEveryChild ==
  canceller = "returned" =>
    \A i \in Items : Alive(i) /\ pc[i] \in Registered \ {"rechecking"}
                       => signal[i] # "none"

\* A live child is always somebody's: its thread is between the start and the
\* reaping, cancel_all() can see it except in the moment before registration,
\* and no two items of a shard have live children at once.
LiveChildrenAreOwned ==
  \A i \in Items : Alive(i) =>
    /\ i \in active \/ pc[i] = "registering"
    /\ \A j \in Items : i \in Earlier[j] \/ j \in Earlier[i] => ~Alive(j)

\* Unless the item was cancelled or timed out, everything its child wrote before
\* it died was received: a fast exit, a full drain or a stale snapshot of the
\* sentinel never turns a delivered result into a lost worker.
EveryMessageIsReceived ==
  \A i \in Items :
    verdict[i] \in {"VALUE", "CRASH", "INFRA_ERROR"} => taken[i] = Len(sent[i])

\* recv() is called, and waits, only when something of a message has arrived, or at
\* the end of the file: past its deadline and any cancellation a shard can be held
\* there by nothing but a message that breaks off.
OnlyBrokenMessagesBlock ==
  \A i \in Items : pc[i] \in {"draining", "receiving"} => Readable(i)

\* An item with a deadline comes to an end whatever its process does: hang,
\* ignore SIGTERM, or leave a descendant that keeps the pipe open.  One case is
\* excepted, in which the deadline is not enforced: the process stops in the
\* middle of a message.
TimedItemsFinish ==
  \A i \in Timed : pc[i] = "waiting" ~> (pc[i] = "done" \/ []BrokenOff(i))

\* SIGTERM is the only signal a cancellation sends, and only to the living: a
\* thread without a deadline waits for a process that survives it.
Survives(i) ==
  /\ pc[i] = "waiting" /\ clock[i] = "none"
  /\ child[i] = "hung" /\ i \in Stubborn /\ signal[i] = "term"

\* run_async and cancel_all: after a cancellation every shard thread returns,
\* unless one is held for good, by a process that survives SIGTERM and has no
\* deadline, or by a message that breaks off.
CancellationEndsRun ==
  Cancelled ~> (AllDone \/ \E i \in Items : [](Survives(i) \/ BrokenOff(i)))

\* The supervisor implements the pool of workers its callers see.
WorkerPool == INSTANCE Pool WITH cancelled <- Cancelled
ImplementsPool == WorkerPool!Spec
=============================================================================
