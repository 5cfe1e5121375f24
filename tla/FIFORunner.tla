----------------------------- MODULE FIFORunner -----------------------------
(***************************************************************************)
(* senf::scheduler::detail::FIFORunner (senf/Scheduler/FIFORunner.cc):     *)
(* the task queue of the single threaded scheduler.  Tasks sit in one list *)
(* divided by two sentinels into a high, a normal and a low priority       *)
(* segment.  run() sweeps the segments; run(f, l) marks the present end of *)
(* a segment with queueEnd_, walks it, and calls each runnable task after  *)
(* moving it behind the marker.  Callbacks may enable and disable any      *)
(* task, yield, or throw.  SIGURG interrupts all of it at any point.       *)
(* scheduler::process() is represented by what it means to the runner: it  *)
(* starts and stops the watchdog and alternates between polling, where     *)
(* dispatchers mark tasks runnable, and run().                             *)
(***************************************************************************)
EXTENDS TaskList

CONSTANTS
  Task,        \* the TaskInfo objects
  Hook,        \* EventHooks and IdleEvents: enable() marks them runnable
  Alive,       \* fd, timer and idle events: what keeps process() going
  Priority,    \* TaskInfo::priority_, a function on Task
  Null,
  MaxTicks,    \* bound on watchdogCount_
  MaxHangs     \* bound on hangCount_

HighPriorityEnd   == "highPriorityEnd_"
NormalPriorityEnd == "normalPriorityEnd_"
QueueEnd          == "queueEnd_"
End               == "tasks_.end()"

Sentinel == {HighPriorityEnd, NormalPriorityEnd, QueueEnd, End}
Node == Task \cup Sentinel
Segment == {"HIGH", "NORMAL", "LOW"}

ASSUME FIFORunnerAssumption ==
  /\ Task \cap Sentinel = {}
  /\ Hook \subseteq Task
  /\ Alive \subseteq Task
  /\ Priority \in [Task -> Segment]
  /\ Null \notin Node
  /\ MaxTicks \in Nat /\ MaxHangs \in Nat

VARIABLES
  tasks,          \* tasks_, its root node last
  next,           \* next_, a node
  runnable,       \* TaskInfo::runnable_
  runningTask,    \* runningTask_
  yield,          \* yield_
  watchdogCount,  \* watchdogCount_
  hangCount,      \* hangCount_
  pc,             \* where process() and run() are
  seg,            \* the segment run() is at
  current,        \* history: the task whose callback is executing
  due,            \* history: runnable when run() began, not yet called
  ran             \* history: called since queueEnd_ was set

vars == <<tasks, next, runnable, runningTask, yield, watchdogCount,
          hangCount, pc, seg, current, due, ran>>

listVars == <<tasks, next, runnable, runningTask>>
watchdogVars == <<watchdogCount, hangCount>>

Linked == Nodes(tasks) \ Sentinel

Init ==
  /\ tasks = <<HighPriorityEnd, NormalPriorityEnd, End>>
  /\ next = End
  /\ runnable = [t \in Task |-> FALSE]
  /\ runningTask = Null
  /\ yield = FALSE
  /\ watchdogCount = 0
  /\ hangCount = 0
  /\ pc = "idle"
  /\ seg = "HIGH"
  /\ current = Null
  /\ due = {}
  /\ ran = {}

\* priorityEnd(): the node that ends a segment, in front of which tasks of
\* that priority are inserted.
PriorityEnd(p) ==
  CASE p = "HIGH"   -> HighPriorityEnd
    [] p = "NORMAL" -> NormalPriorityEnd
    [] OTHER        -> End

\* The first node of a segment, the iterator f of run().
SegmentBegin(p) ==
  CASE p = "HIGH"   -> tasks[1]
    [] p = "NORMAL" -> Succ(tasks, HighPriorityEnd)
    [] OTHER        -> Succ(tasks, NormalPriorityEnd)

-----------------------------------------------------------------------------
(***************************************************************************)
(* Calls into the runner from a callback or from outside run().            *)
(***************************************************************************)

MayCall == pc \in {"idle", "callback"}

\* Mutant: insertion in front of the marker of the running pass.
EnqueueBeforeMarker(t) ==
  /\ MayCall
  /\ t \notin Linked
  /\ tasks' = InsertBefore(tasks, IF QueueEnd \in Nodes(tasks) THEN QueueEnd
                                  ELSE PriorityEnd(Priority[t]), t)
  /\ runnable' = [runnable EXCEPT ![t] = @ \/ t \in Hook]
  /\ UNCHANGED <<next, runningTask, yield, watchdogVars, pc, seg, current, due, ran>>

\* enqueue(), as enable() of an event calls it: only when not yet linked, and
\* followed by setRunnable() for an EventHook or IdleEvent.
Enqueue(t) ==
  /\ MayCall
  /\ t \notin Linked
  /\ tasks' = InsertBefore(tasks, PriorityEnd(Priority[t]), t)
  /\ runnable' = [runnable EXCEPT ![t] = @ \/ t \in Hook]
  /\ UNCHANGED <<next, runningTask, yield, watchdogVars, pc, seg, current, due, ran>>

\* Mutant: next_ is left on the erased node.
DequeueKeepsNext(t) ==
  /\ MayCall
  /\ t \in Linked
  /\ runningTask' = IF runningTask = t THEN Null ELSE runningTask
  /\ tasks' = Erase(tasks, t)
  /\ due' = due \ {t}
  /\ UNCHANGED <<next, runnable, yield, watchdogVars, pc, seg, current, ran>>

\* Mutant: runningTask_ is left on the erased node.
DequeueKeepsRunningTask(t) ==
  /\ MayCall
  /\ t \in Linked
  /\ next' = IF next = t THEN Succ(tasks, t) ELSE next
  /\ tasks' = Erase(tasks, t)
  /\ due' = due \ {t}
  /\ UNCHANGED <<runnable, runningTask, yield, watchdogVars, pc, seg, current, ran>>

\* dequeue(), from disable() or a destructor: next_ is moved off the node and
\* runningTask_ forgets it.  runnable_ is not cleared.
Dequeue(t) ==
  /\ MayCall
  /\ t \in Linked
  /\ next' = IF next = t THEN Succ(tasks, t) ELSE next
  /\ runningTask' = IF runningTask = t THEN Null ELSE runningTask
  /\ tasks' = Erase(tasks, t)
  /\ due' = due \ {t}
  /\ UNCHANGED <<runnable, yield, watchdogVars, pc, seg, current, ran>>

\* setRunnable() by a dispatcher's prepareRun() or signal(), before a run.
SetRunnable(t) ==
  /\ pc = "poll"
  /\ t \in Linked
  /\ ~runnable[t]
  /\ runnable' = [runnable EXCEPT ![t] = TRUE]
  /\ UNCHANGED <<tasks, next, runningTask, yield, watchdogVars, pc, seg, current, due, ran>>

\* scheduler::yield()
Yield ==
  /\ MayCall
  /\ ~yield
  /\ yield' = TRUE
  /\ UNCHANGED <<listVars, watchdogVars, pc, seg, current, due, ran>>

-----------------------------------------------------------------------------
(***************************************************************************)
(* process(), run() and run(f, l).                                         *)
(***************************************************************************)

\* process() starts the watchdog and polls, if an event keeps it alive.
Process ==
  /\ pc = "idle"
  /\ Alive \cap Linked # {}
  /\ pc' = "poll"
  /\ UNCHANGED <<listVars, yield, watchdogVars, seg, current, due, ran>>

Run ==
  /\ pc = "poll"
  /\ pc' = "sweep"
  /\ seg' = "HIGH"
  /\ due' = {t \in Linked : runnable[t]}
  /\ UNCHANGED <<listVars, yield, watchdogVars, current, ran>>

\* run(f, l) returns at once when f = l ...
EmptySegment ==
  /\ pc = "sweep"
  /\ SegmentBegin(seg) = PriorityEnd(seg)
  /\ pc' = "leave"
  /\ UNCHANGED <<listVars, yield, watchdogVars, seg, current, due, ran>>

\* ... and otherwise marks the end of the range it is going to process.
BeginSegment ==
  /\ pc = "sweep"
  /\ SegmentBegin(seg) # PriorityEnd(seg)
  /\ tasks' = InsertBefore(tasks, PriorityEnd(seg), QueueEnd)
  /\ next' = SegmentBegin(seg)
  /\ pc' = "loop"
  /\ ran' = {}
  /\ UNCHANGED <<runnable, runningTask, yield, watchdogVars, seg, current, due>>

\* Mutant: the task keeps its place in the list.
DispatchInPlace ==
  /\ pc = "loop"
  /\ next # QueueEnd
  /\ runnable[next]
  /\ runningTask' = next
  /\ runnable' = [runnable EXCEPT ![next] = FALSE]
  /\ next' = Succ(tasks, next)
  /\ watchdogCount' = 1
  /\ yield' = FALSE
  /\ current' = next
  /\ due' = due \ {next}
  /\ ran' = ran \cup {next}
  /\ pc' = "callback"
  /\ UNCHANGED <<tasks, hangCount, seg>>

\* The task is moved to the end of its segment before its callback is called.
Dispatch ==
  /\ pc = "loop"
  /\ next # QueueEnd
  /\ runnable[next]
  /\ runningTask' = next
  /\ runnable' = [runnable EXCEPT ![next] = FALSE]
  /\ next' = Succ(tasks, next)
  /\ tasks' = Splice(tasks, PriorityEnd(seg), next)
  /\ watchdogCount' = 1
  /\ yield' = FALSE
  /\ current' = next
  /\ due' = due \ {next}
  /\ ran' = ran \cup {next}
  /\ pc' = "callback"
  /\ UNCHANGED <<hangCount, seg>>

Skip ==
  /\ pc = "loop"
  /\ next # QueueEnd
  /\ ~runnable[next]
  /\ runningTask' = next
  /\ next' = Succ(tasks, next)
  /\ UNCHANGED <<tasks, runnable, yield, watchdogVars, pc, seg, current, due, ran>>

EndSegment ==
  /\ pc = "loop"
  /\ next = QueueEnd
  /\ watchdogCount' = 0
  /\ next' = PriorityEnd(seg)
  /\ tasks' = Erase(tasks, QueueEnd)
  /\ pc' = "leave"
  /\ UNCHANGED <<runnable, runningTask, yield, hangCount, seg, current, due, ran>>

\* The callback returns.  If it yielded, run(f, l) is left at once; next_ and
\* watchdogCount_ stay as they are.
CallbackReturn ==
  /\ pc = "callback"
  /\ current' = Null
  /\ \/ /\ yield
        /\ tasks' = Erase(tasks, QueueEnd)
        /\ pc' = "leave"
     \/ /\ ~yield
        /\ pc' = "loop"
        /\ UNCHANGED tasks
  /\ UNCHANGED <<next, runnable, runningTask, yield, watchdogVars, seg, due, ran>>

\* Mutant: no catch clause, the marker stays linked.
ThrowKeepsMarker ==
  /\ pc = "callback"
  /\ current' = Null
  /\ pc' = "idle"
  /\ due' = {}
  /\ UNCHANGED <<listVars, yield, watchdogVars, seg, ran>>

\* The callback throws; the exception leaves run() and process().
CallbackThrow ==
  /\ pc = "callback"
  /\ current' = Null
  /\ watchdogCount' = 0
  /\ next' = PriorityEnd(seg)
  /\ tasks' = Erase(tasks, QueueEnd)
  /\ pc' = "idle"
  /\ due' = {}
  /\ UNCHANGED <<runnable, runningTask, yield, hangCount, seg, ran>>

\* run() returns to process(), which polls again, or returns and stops the
\* watchdog: because of terminate() or since nothing keeps it alive.
LeaveRun == pc' = "idle" \/ (pc' = "poll" /\ Alive \cap Linked # {})

\* Mutant: a yield leaves run() ("break" for "continue").
LeaveOnYield ==
  /\ pc = "leave"
  /\ yield' = FALSE
  /\ \/ /\ yield \/ seg = "LOW"
        /\ seg' = seg /\ LeaveRun
     \/ /\ ~yield /\ seg = "HIGH"
        /\ seg' = "NORMAL" /\ pc' = "sweep"
     \/ /\ ~yield /\ seg = "NORMAL"
        /\ seg' = "LOW" /\ pc' = "sweep"
  /\ UNCHANGED <<listVars, watchdogVars, current, due, ran>>

\* Mutant: the "continue" after a yield is missing.
LeaveIgnoresYield ==
  /\ pc = "leave"
  /\ yield' = FALSE
  /\ \/ /\ seg = "HIGH"
        /\ seg' = "NORMAL" /\ pc' = "sweep"
     \/ /\ seg = "NORMAL"
        /\ seg' = "LOW" /\ pc' = "sweep"
     \/ /\ seg = "LOW"
        /\ seg' = seg /\ LeaveRun
  /\ UNCHANGED <<listVars, watchdogVars, current, due, ran>>

\* Back in run(): a yield starts over with the high priority segment.
LeaveSegment ==
  /\ pc = "leave"
  /\ yield' = FALSE
  /\ \/ /\ yield
        /\ seg' = "HIGH" /\ pc' = "sweep"
     \/ /\ ~yield /\ seg = "HIGH"
        /\ seg' = "NORMAL" /\ pc' = "sweep"
     \/ /\ ~yield /\ seg = "NORMAL"
        /\ seg' = "LOW" /\ pc' = "sweep"
     \/ /\ ~yield /\ seg = "LOW"
        /\ seg' = seg /\ LeaveRun
  /\ UNCHANGED <<listVars, watchdogVars, current, due, ran>>

-----------------------------------------------------------------------------
(***************************************************************************)
(* The watchdog: the SIGURG handler, and the accessor of its counter.      *)
(***************************************************************************)

\* watchdog(), while the interval timer is running.
Watchdog ==
  /\ pc # "idle"
  /\ watchdogCount > 0
  /\ watchdogCount < MaxTicks /\ hangCount < MaxHangs
  /\ watchdogCount' = watchdogCount + 1
  /\ hangCount' = IF watchdogCount' > 2 THEN hangCount + 1 ELSE hangCount
  /\ UNCHANGED <<listVars, yield, pc, seg, current, due, ran>>

\* hangCount() returns the counter and resets it.
HangCount ==
  /\ MayCall
  /\ hangCount > 0
  /\ hangCount' = 0
  /\ UNCHANGED <<listVars, yield, watchdogCount, pc, seg, current, due, ran>>

-----------------------------------------------------------------------------
RunStep ==
  \/ Run \/ EmptySegment \/ BeginSegment \/ Dispatch \/ Skip
  \/ EndSegment \/ CallbackReturn \/ LeaveSegment

Next ==
  \/ Process
  \/ RunStep
  \/ CallbackThrow
  \/ Yield
  \/ \E t \in Task : Enqueue(t) \/ Dequeue(t) \/ SetRunnable(t)
  \/ Watchdog
  \/ HangCount

Spec == Init /\ [][Next]_vars

\* The program calls process() again when it returns or throws, process() keeps
\* calling run(), and callbacks return.
FairSpec == Spec /\ WF_vars(Process) /\ WF_vars(RunStep)

-----------------------------------------------------------------------------
(***************************************************************************)
(* Properties.                                                             *)
(***************************************************************************)

\* Type invariant.
TypeOK ==
  /\ tasks \in Seq(Node)
  /\ next \in Node
  /\ runnable \in [Task -> BOOLEAN]
  /\ runningTask \in Task \cup {Null}
  /\ yield \in BOOLEAN
  /\ watchdogCount \in Nat
  /\ hangCount \in Nat
  /\ pc \in {"idle", "poll", "sweep", "loop", "callback", "leave"}
  /\ seg \in Segment
  /\ current \in Task \cup {Null}
  /\ due \subseteq Task
  /\ ran \subseteq Task

InPass == pc \in {"loop", "callback"}

\* The list stays a list: no node is linked twice, the root is last, the two
\* priority sentinels are in place and queueEnd_ is linked exactly during a
\* run(f, l), in front of the end of the segment that is processed.
ListWellFormed ==
  /\ NoRepeat(tasks)
  /\ tasks # << >> /\ tasks[Len(tasks)] = End
  /\ Before(tasks, HighPriorityEnd, NormalPriorityEnd)
  /\ QueueEnd \in Nodes(tasks) <=> InPass
  /\ InPass => Before(tasks, QueueEnd, PriorityEnd(seg))

\* Every task is linked inside the segment of its priority, whatever callbacks
\* enable, disable or move: enqueue() and the splice in run(f, l) agree.
SegmentsSorted ==
  \A t \in Linked :
    /\ Before(tasks, t, PriorityEnd(Priority[t]))
    /\ Priority[t] # "HIGH" => Before(tasks, HighPriorityEnd, t)
    /\ Priority[t] = "LOW" => Before(tasks, NormalPriorityEnd, t)

\* next_ is a linked node of the processed segment, at or before queueEnd_, all
\* through run(f, l), also while a callback removes arbitrary tasks ("carefully
\* adjusted to make it work even when arbitrary tasks are removed from the
\* queue"): the loop neither follows an erased node nor runs past its marker.
NextInRange ==
  InPass =>
    /\ next = QueueEnd \/ Before(tasks, next, QueueEnd)
    /\ seg # "HIGH" => Before(tasks, HighPriorityEnd, next)
    /\ seg = "LOW" => Before(tasks, NormalPriorityEnd, next)

\* No task that was runnable when run() started is passed over: until it is
\* called or removed it stays linked and runnable, while its segment is
\* processed it is still ahead of next_, and in the segments run() has left
\* none remains.
NoneForgotten ==
  /\ pc \in {"idle", "poll"} => due = {}
  /\ \A t \in due :
       /\ t \in Linked /\ runnable[t]
       /\ seg # "HIGH" => Priority[t] # "HIGH"
       /\ seg = "LOW" => Priority[t] # "NORMAL"
       /\ pc = "leave" /\ ~yield => Priority[t] # seg
       /\ InPass /\ Priority[t] = seg =>
            /\ t = next \/ Before(tasks, next, t)
            /\ Before(tasks, t, QueueEnd)

\* The watchdog's signal handler reads runningTask_->name() at any time: the
\* pointer never refers to a task that has been removed (and maybe destroyed).
RunningTaskLinked == runningTask # Null => runningTask \in Linked

\* run(f, l) calls a task at most once before it returns, even when its
\* callback disables and re-enables it: a pass ends.
OncePerPass == [][pc = "loop" /\ pc' = "callback" => current' \notin ran]_vars

\* Tasks already called in this pass are behind the marker, and a callback is
\* executing exactly when pc says so.
HistoryAgrees ==
  /\ InPass => \A t \in ran : Priority[t] = seg /\ (t \in Linked => Before(tasks, QueueEnd, t))
  /\ pc = "callback" <=> current # Null

\* The inductive invariant the proofs rest on: the invariants above hold
\* together, and none of them is inductive alone.
IndInv ==
  /\ TypeOK
  /\ ListWellFormed
  /\ SegmentsSorted
  /\ NextInRange
  /\ NoneForgotten
  /\ RunningTaskLinked
  /\ HistoryAgrees

\* The segments run() sweeps before segment p, and again after every yield.
Ahead(p) ==
  CASE p = "HIGH" -> {} [] p = "NORMAL" -> {"HIGH"} [] OTHER -> {"HIGH", "NORMAL"}

\* A registered runnable task is called or removed in the end, even if every
\* callback yields, throws, or re-enables itself, provided no task has a higher
\* priority: a task is moved behind the others before it is called.
NoStarvation ==
  \A t \in {u \in Task : \A v \in Task : Priority[v] \notin Ahead(Priority[u])} :
    (t \in Linked /\ runnable[t]) ~> (t \notin Linked \/ ~runnable[t])

\* run() implements the abstract task runner.
Runner == INSTANCE TaskRunner
            WITH linked <- Linked, active <- pc \notin {"idle", "poll"}
ImplementsTaskRunner == Runner!Spec

=============================================================================
