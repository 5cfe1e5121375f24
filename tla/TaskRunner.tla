----------------------------- MODULE TaskRunner -----------------------------
(***************************************************************************)
(* What FIFORunner promises the rest of the scheduler, without its list:   *)
(* a run executes tasks one at a time, only tasks that are registered and  *)
(* marked runnable, clears the mark before it calls the task, and does not *)
(* end (except by an exception) before every task that was runnable when   *)
(* it started has been executed or removed.  Which task comes next is left *)
(* open.                                                                   *)
(***************************************************************************)
CONSTANTS Task,     \* the TaskInfo objects
          Hook,     \* those whose enable() also marks them runnable
          Null

VARIABLES
  linked,     \* registered tasks (TaskInfo::v_enabled)
  runnable,   \* TaskInfo::runnable_
  active,     \* FIFORunner::run() is executing
  current,    \* the task whose callback is executing, or Null
  due         \* tasks this run still owes a call

vars == <<linked, runnable, active, current, due>>

TypeOK ==
  /\ linked \subseteq Task
  /\ runnable \in [Task -> BOOLEAN]
  /\ active \in BOOLEAN
  /\ current \in Task \cup {Null}
  /\ due \subseteq Task

Init ==
  /\ linked = {}
  /\ runnable = [t \in Task |-> FALSE]
  /\ active = FALSE
  /\ current = Null
  /\ due = {}

\* Code outside the runner, or the executing callback, may register tasks.
MayCall == active => current # Null

\* Registration: an EventHook or IdleEvent is runnable at once.
Enable(t) ==
  /\ MayCall
  /\ t \notin linked
  /\ linked' = linked \cup {t}
  /\ runnable' = [runnable EXCEPT ![t] = @ \/ t \in Hook]
  /\ UNCHANGED <<active, current, due>>

\* Removal; runnable_ keeps its value.
Disable(t) ==
  /\ MayCall
  /\ t \in linked
  /\ linked' = linked \ {t}
  /\ due' = due \ {t}
  /\ UNCHANGED <<runnable, active, current>>

\* The dispatchers mark registered tasks between two runs.
Signal(R) ==
  /\ ~active
  /\ R \subseteq linked
  /\ runnable' = [t \in Task |-> runnable[t] \/ t \in R]
  /\ UNCHANGED <<linked, active, current, due>>

Run ==
  /\ ~active
  /\ active' = TRUE
  /\ due' = {t \in linked : runnable[t]}
  /\ UNCHANGED <<linked, runnable, current>>

Dispatch(t) ==
  /\ active /\ current = Null
  /\ t \in linked /\ runnable[t]
  /\ runnable' = [runnable EXCEPT ![t] = FALSE]
  /\ current' = t
  /\ due' = due \ {t}
  /\ UNCHANGED <<linked, active>>

Return ==
  /\ current # Null
  /\ current' = Null
  /\ UNCHANGED <<linked, runnable, active, due>>

\* The callback throws: the run is abandoned.
Throw ==
  /\ current # Null
  /\ current' = Null
  /\ active' = FALSE
  /\ due' = {}
  /\ UNCHANGED <<linked, runnable>>

Finish ==
  /\ active /\ current = Null /\ due = {}
  /\ active' = FALSE
  /\ UNCHANGED <<linked, runnable, current, due>>

Next ==
  \/ \E t \in Task : Enable(t) \/ Disable(t) \/ Dispatch(t)
  \/ \E R \in SUBSET linked : Signal(R)
  \/ Run \/ Return \/ Throw \/ Finish

Spec == Init /\ [][Next]_vars

=============================================================================
