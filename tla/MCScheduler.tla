---------------------------- MODULE MCScheduler -----------------------------
(***************************************************************************)
(* Small instances of Scheduler for TLC.                                   *)
(***************************************************************************)
EXTENDS Scheduler, TLC

CONSTANTS tm, fd, file, idle

KindOf == (tm :> "timer") @@ (fd :> "fd") @@ (file :> "file") @@ (idle :> "idle")
Kinds == [t \in Task |-> KindOf[t]]

Using(events, times) == [events |-> events, times |-> times]

\* A timer with both kinds of events that make the poll return at once, and a
\* timer that is set to different times with a descriptor.
TwoPrograms == {Using({tm, idle, file}, {2}), Using({tm, fd}, {0, 2})}

\* A timer and a descriptor.
OneProgram == {Using({tm, fd}, {1, 2})}
=============================================================================
