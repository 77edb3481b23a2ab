---------------------------- MODULE ProcessTree -----------------------------
(***************************************************************************)
(* _run_bounded_process of tuning.py on POSIX: one measured command, the   *)
(* thread that remembers its descendants while it runs (_PosixTreeTracker),*)
(* and the signals that bring all of them down when it has ended, has run  *)
(* for too long, or was interrupted.                                       *)
(*                                                                         *)
(* A process here is what the code calls an identity: a process number     *)
(* together with its creation time.  Numbers are given again to other      *)
(* processes, by the rules of the operating system (external).  A capture, *)
(* a listing by ps, and the identity check together with the signal that   *)
(* follows it are one step each.                                           *)
(***************************************************************************)
EXTENDS Integers, FiniteSets, Functions

CONSTANTS
  Root,        \* the measured command
  Workers,     \* what it may start, and these in turn
  Strangers,   \* processes of others
  Stubborn,    \* the processes that survive SIGTERM for the time of grace
  Pids,        \* process numbers
  None

Procs == {Root} \union Workers \union Strangers

ASSUME TreeAssumption ==
  /\ Root \notin Workers \union Strangers
  /\ Workers \intersect Strangers = {}
  /\ Stubborn \subseteq Procs
  /\ Pids # {}
  /\ Pids \subseteq Nat
  /\ None \notin Procs

VARIABLES
  stage,       \* where _run_bounded_process is
  life,        \* "unborn", "alive", "zombie" (exited and not waited for), "dead"
  pid,         \* the number of a process
  parent,      \* the process that started it, None once that one is gone
  group,       \* the leader of its process group
  known,       \* the tracker's _identities
  targets,     \* tracked_pids and descendants: what cleanup knows of
  signalled,   \* the processes that were sent a signal
  ending       \* "returned", "raised": a deadline or another exception, or
               \* "interrupted": another exception before the cleanup was done

treeVars == <<stage, life, pid, parent, group, known, targets, signalled, ending>>

-----------------------------------------------------------------------------
(***************************************************************************)
(* Processes.                                                              *)
(***************************************************************************)
Exists(p) == life[p] \in {"alive", "zombie"}

\* A number is given to nobody while a process or a group has it.
Free(n) ==
  \A p \in Procs :
    /\ Exists(p) => pid[p] # n
    /\ life[p] = "alive" => pid[group[p]] # n

\* The processes below those of S, through parents that still exist: they are in
\* every set that has S and the children of all it has.
Descendants(S) ==
  LET families == {T \in SUBSET Procs :
                     /\ S \subseteq T
                     /\ \A p \in Procs : life[p] = "alive" /\ parent[p] \in T => p \in T}
  IN {p \in Procs \ S : \A T \in families : p \in T}

\* Whoever has the number n now.
Holders(n) == {p \in Procs : Exists(p) /\ pid[p] = n}

\* The processes of S exit: the command stays a zombie until it is waited for,
\* and init waits for the others.  Their children lose their parent.
Exit(S) ==
  /\ life' = [p \in Procs |-> IF p \notin S THEN life[p]
                              ELSE IF p = Root THEN "zombie" ELSE "dead"]
  /\ parent' = [p \in Procs |-> IF p \in S \/ parent[p] \in S THEN None ELSE parent[p]]

-----------------------------------------------------------------------------
(***************************************************************************)
(* The command and its descendants, and everybody else.                    *)
(***************************************************************************)
LeastFree == CHOOSE n \in Pids : Free(n) /\ \A k \in Pids : Free(k) => n <= k

\* A worker of Testenix has a session of its own; other children stay in the
\* group of their parent.
Fork(p, child) ==
  /\ life[p] = "alive" /\ life[child] = "unborn"
  /\ p \in Strangers <=> child \in Strangers
  /\ \E n \in Pids : Free(n)
  /\ life' = [life EXCEPT ![child] = "alive"]
  /\ pid' = [pid EXCEPT ![child] = LeastFree]
  /\ parent' = [parent EXCEPT ![child] = p]
  /\ \E leader \in {group[p], child} : group' = [group EXCEPT ![child] = leader]
  /\ UNCHANGED <<stage, known, targets, signalled, ending>>

\* Somebody else's process is given any free number.
StrangerAppears(s) ==
  /\ life[s] = "unborn"
  /\ \E n \in Pids : Free(n) /\ pid' = [pid EXCEPT ![s] = n]
  /\ life' = [life EXCEPT ![s] = "alive"]
  /\ group' = [group EXCEPT ![s] = s]
  /\ UNCHANGED <<stage, parent, known, targets, signalled, ending>>

Exits(p) ==
  /\ life[p] = "alive"
  /\ p \notin Strangers
  /\ Exit({p})
  /\ UNCHANGED <<stage, pid, group, known, targets, signalled, ending>>

\* The processes that a step starts.
Births == {p \in Procs : life[p] = "unborn" /\ life'[p] = "alive"}

Environment ==
  /\ stage # "idle"
  /\ \/ \E p, child \in Procs : Fork(p, child)
     \/ \E s \in Strangers : StrangerAppears(s)
     \/ \E p \in Procs : Exits(p)

-----------------------------------------------------------------------------
(***************************************************************************)
(* The tracker.                                                            *)
(***************************************************************************)
\* Mutant: a number that was seen is taken for the process that had it.
CapturedByNumber ==
  LET seen == UNION {Holders(pid[p]) : p \in known}
  IN seen \union Descendants({p \in {Root} : Exists(p)} \union seen)

\* _capture: what was known and has kept its identity, and all descendants of it
\* and of the command.
Captured ==
  LET kept == {p \in known : Exists(p)}
  IN kept \union Descendants({p \in {Root} : Exists(p)} \union kept)

Capture ==
  /\ stage = "watched"
  /\ known' = Captured
  /\ UNCHANGED <<stage, life, pid, parent, group, targets, signalled, ending>>

\* stop() captures once more.
StopTracker(next) ==
  /\ known' = Captured
  /\ targets' = Captured
  /\ stage' = next

-----------------------------------------------------------------------------
(***************************************************************************)
(* The process that measures.                                              *)
(***************************************************************************)
TreeInit ==
  /\ stage = "idle"
  /\ life = [p \in Procs |-> "unborn"]
  /\ pid = [p \in Procs |-> 0]
  /\ parent = [p \in Procs |-> None]
  /\ group = [p \in Procs |-> p]
  /\ known = {}
  /\ targets = {}
  /\ signalled = {}
  /\ ending = "returned"

\* What earlier commands left behind is of no concern to the next.
Renew(where, alive) ==
  /\ stage' = where
  /\ life' = [p \in Procs |-> IF p \in alive THEN "alive" ELSE "unborn"]
  /\ pid' = [p \in Procs |-> IF p \in alive THEN CHOOSE n \in Pids : \A k \in Pids : n <= k
                             ELSE 0]
  /\ parent' = [p \in Procs |-> None]
  /\ group' = [p \in Procs |-> p]
  /\ known' = {} /\ targets' = {} /\ signalled' = {}
  /\ ending' = "returned"

\* Popen, as the leader of a new session.
Launch == stage = "idle" /\ Renew("started", {Root})

Leave == stage = "over" /\ Renew("idle", {})

\* The tracker's constructor takes the first look.
StartTracker ==
  /\ stage = "started"
  /\ known' = Captured
  /\ stage' = "watched"
  /\ UNCHANGED <<life, pid, parent, group, targets, signalled, ending>>

\* wait() returns, and the number of the command is free.
CommandReturns ==
  /\ stage = "watched"
  /\ life[Root] = "zombie"
  /\ life' = [life EXCEPT ![Root] = "dead"]
  /\ stage' = "returned"
  /\ UNCHANGED <<pid, parent, group, known, targets, signalled, ending>>

StopAfterReturn ==
  /\ stage = "returned"
  /\ StopTracker("clearing")
  /\ UNCHANGED <<life, pid, parent, group, signalled, ending>>

\* wait() does not return in time, or an exception comes before cleanup_started is
\* set, be it after wait() has returned.
StopsWaiting ==
  /\ stage \in {"watched", "returned"}
  /\ ending' = "raised"
  /\ StopTracker("listing")
  /\ UNCHANGED <<life, pid, parent, group, signalled>>

\* An exception before there is a tracker.
InterruptedEarly ==
  /\ stage = "started"
  /\ ending' = "raised"
  /\ stage' = "listing"
  /\ UNCHANGED <<life, pid, parent, group, known, targets, signalled>>

\* _posix_descendant_pids: everything below whoever has the command's number.
ListByNumber(from, to) ==
  /\ stage = from
  /\ targets' = targets \union Descendants(Holders(pid[Root]))
  /\ stage' = to
  /\ UNCHANGED <<life, pid, parent, group, known, signalled, ending>>

\* poll() waits for a command that has exited.
Polled(lives) == IF lives[Root] = "zombie" THEN [lives EXCEPT ![Root] = "dead"] ELSE lives

\* Mutant: the command's own group and no other.
AddressedGroupOnly(owned) ==
  {p \in Procs : owned /\ life[p] = "alive" /\ group[p] = Root}

\* _posix_signal_tree: the groups of the targets that still exist, and the
\* command's own if it is said to be ours.
Addressed(owned) ==
  LET groups == {group[p] : p \in {q \in targets : Exists(q)}}
                  \union (IF owned THEN {Root} ELSE {})
  IN {p \in Procs : life[p] = "alive" /\ group[p] \in groups}

SignalTree(owned, dies, to) ==
  /\ LET lives == [p \in Procs |-> IF p \notin Addressed(owned) \intersect dies THEN life[p]
                                   ELSE IF p = Root THEN "zombie" ELSE "dead"]
     IN life' = IF life[Root] = "zombie" THEN Polled(lives) ELSE lives
  /\ parent' = [p \in Procs |-> IF {p, parent[p]} \intersect Addressed(owned) \intersect dies # {}
                                  THEN None ELSE parent[p]]
  /\ signalled' = signalled \union Addressed(owned)
  /\ stage' = to
  /\ UNCHANGED <<pid, group, known, targets, ending>>

\* After a return the group of the command is not addressed as such.
KillAfterReturn ==
  /\ stage = "clearing"
  /\ SignalTree(FALSE, Procs, "over")

Terminate ==
  /\ stage = "terminating"
  /\ SignalTree(life[Root] = "alive", Procs \ Stubborn, "grace")

\* wait() with the time of grace, whether the command exits in it or not.
GraceEnds ==
  /\ stage = "grace"
  /\ life' = Polled(life)
  /\ stage' = "listing-again"
  /\ UNCHANGED <<pid, parent, group, known, targets, signalled, ending>>

Kill ==
  /\ stage = "killing"
  /\ SignalTree(life[Root] = "alive", Procs, "waiting")

\* The last wait(): whatever kill() leaves of the command is waited for.
WaitForKilled ==
  /\ stage = "waiting"
  /\ life' = Polled(life)
  /\ stage' = "over"
  /\ UNCHANGED <<pid, parent, group, known, targets, signalled, ending>>

\* An exception between Popen and the try, or once cleanup_started is set: in the
\* join or the captures of stop(), between the signals or in the time of grace, as a
\* second Ctrl-C brings it.  The handler does not take the cleanup up again, and the
\* tracker's last look is read by nobody.
CleanupInterrupted ==
  /\ stage \notin {"idle", "over"}
  /\ ending' = "interrupted"
  /\ stage' = "over"
  /\ UNCHANGED <<life, pid, parent, group, known, targets, signalled>>

CleanUp ==
  \/ CommandReturns
  \/ StopAfterReturn
  \/ KillAfterReturn
  \/ StopsWaiting
  \/ InterruptedEarly
  \/ ListByNumber("listing", "terminating")
  \/ Terminate
  \/ GraceEnds
  \/ ListByNumber("listing-again", "killing")
  \/ Kill
  \/ WaitForKilled
  \/ CleanupInterrupted

\* Everything but the launch, and the return to whoever launched it.
TreeNext == Environment \/ StartTracker \/ Capture \/ CleanUp

-----------------------------------------------------------------------------
(***************************************************************************)
(* Properties.                                                             *)
(***************************************************************************)
\* Every variable keeps its type, and a process that exists has a number of its own.
TreeTypeOK ==
  /\ stage \in {"idle", "started", "watched", "returned", "clearing", "listing", "terminating",
                "grace", "listing-again", "killing", "waiting", "over"}
  /\ life \in [Procs -> {"unborn", "alive", "zombie", "dead"}]
  /\ pid \in [Procs -> Pids \union {0}]
  /\ parent \in [Procs -> Procs \union {None}]
  /\ group \in [Procs -> Procs]
  /\ known \subseteq Procs /\ targets \subseteq Procs /\ signalled \subseteq Procs
  /\ ending \in {"returned", "raised", "interrupted"}
  /\ \A p, q \in Procs : Exists(p) /\ Exists(q) /\ p # q => pid[p] # pid[q]

\* Whoever was given the command's number after it was waited for, and what is below.
Heirs ==
  LET holders == Holders(pid[Root]) \ {Root} IN holders \union Descendants(holders)

\* Everything cleanup has ever seen of a command's descendants is gone when
\* _run_bounded_process returns, and when it raises after a deadline or an
\* interrupt, be it detached or deaf to SIGTERM, so that no worker of one
\* measurement runs beside the next.  Only an exception that comes before the
\* cleanup is done leaves any of it alive: the handler at tuning.py:1192 passes over
\* a cleanup that was started.  It ends the session, so nothing is measured beside
\* what it leaves.
ObservedAreCleanedUp ==
  stage = "over" /\ ending # "interrupted" =>
    \A p \in known \union targets \union {Root} : life[p] # "alive"

\* No process of others is signalled, however numbers are given again while the
\* command runs or is brought down - except what is in a group with a process that
\* became a target because, when ps was asked about the command's number after the
\* command was waited for, another had it: that one's descendants
\* (_posix_descendant_pids, _process_identity, _posix_signal_tree).
StrangersAreSpared ==
  [][\A p \in Strangers :
       /\ p \in targets' \ targets => life[Root] = "dead" /\ p \in Heirs
       /\ p \in signalled' \ signalled =>
            \E q \in targets \intersect Strangers : group[q] = group[p]]_treeVars
=============================================================================
