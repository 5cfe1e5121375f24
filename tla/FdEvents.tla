------------------------------ MODULE FdEvents ------------------------------
(***************************************************************************)
(* File descriptor events (FdEvent.cc): the FdDispatcher, which keeps one  *)
(* epoll entry per descriptor for all of its events, and the               *)
(* FileDispatcher, which takes the events of descriptors epoll refuses.    *)
(* The entry of a descriptor holds the union of its events' masks and a    *)
(* pointer to the first of them, from which signal() walks on.             *)
(***************************************************************************)
EXTENDS TaskList

CONSTANTS
  Event,      \* FdEvent objects
  Fd,         \* descriptors
  Pollable,   \* those epoll accepts
  Bit,        \* EV_READ, EV_PRIO, EV_WRITE
  ErrBit,     \* EV_ERR, EV_HUP
  Mask,       \* the event masks the program registers for
  Null,
  NumEvents,  \* the most entries epoll_wait() reports at once
  HandleEnabled  \* TRUE if handle() is called for enabled events too

ASSUME FdAssumption ==
  /\ Pollable \subseteq Fd /\ IsFiniteSet(Pollable)
  /\ Bit \cap ErrBit = {}
  /\ Mask # {} /\ Mask \subseteq SUBSET Bit
  /\ Null \notin Event
  /\ NumEvents \in Nat \ {0}
  /\ HandleEnabled \in BOOLEAN

VARIABLES
  linked, runnable, active, current, due,   \* the task runner
  at,         \* where process() is
  fd,         \* FdEvent::fd_
  events,     \* FdEvent::events_
  pollable,   \* FdEvent::pollable_
  signaled,   \* FdEvent::signaledEvents_
  fds,        \* FdDispatcher::fds_, the range of each descriptor
  files,      \* FileDispatcher::fds_
  epoll,      \* the epoll entries: mask and event
  ready       \* what the descriptors are ready for

runnerVars == <<linked, runnable, active, current, due>>
eventVars == <<fd, events, pollable, signaled>>
vars == <<runnerVars, at, eventVars, fds, files, epoll, ready>>

NoEntry == [mask |-> {}, data |-> Null]

Runner == INSTANCE TaskRunner WITH Task <- Event, Hook <- {}

Init ==
  /\ Runner!Init
  /\ at = "out"
  /\ fd \in [Event -> Fd]
  /\ events \in [Event -> Mask]
  /\ pollable = [e \in Event |-> TRUE]
  /\ signaled = [e \in Event |-> {}]
  /\ fds = [f \in Fd |-> << >>]
  /\ files = {}
  /\ epoll = [f \in Fd |-> NoEntry]
  /\ ready = [f \in Pollable |-> {}]

-----------------------------------------------------------------------------
(***************************************************************************)
(* Registration.  Regs is the registration: both sets and epoll.           *)
(***************************************************************************)

MayCall == at \in {"out", "callback"}

Regs == [fds |-> fds, files |-> files, epoll |-> epoll]

\* The events of a range, or'ed.
UnionMask(s, ev) == UNION {ev[x] : x \in Nodes(s)}

\* fds_.erase(FdSet::s_iterator_to(e))
EraseEvent(ranges, e) ==
  [f \in Fd |-> IF e \in Nodes(ranges[f]) THEN Erase(ranges[f], e) ELSE ranges[f]]

\* Mutant: the mask is left as it is while events remain.
RemoveKeepsMask(r, e, ev) ==
  IF pollable[e]
  THEN LET ranges == EraseEvent(r.fds, e)
           rest == ranges[fd[e]]
       IN  [r EXCEPT !.fds = ranges,
                     !.epoll[fd[e]] = IF rest = << >> THEN NoEntry
                                      ELSE [mask |-> @.mask, data |-> Head(rest)]]
  ELSE [r EXCEPT !.files = @ \ {e}]

\* remove() of the dispatcher pollable_ names.
RemoveFrom(r, e, ev) ==
  IF pollable[e]
  THEN LET ranges == EraseEvent(r.fds, e)
           rest == ranges[fd[e]]
       IN  [r EXCEPT !.fds = ranges,
                     !.epoll[fd[e]] = IF rest = << >> THEN NoEntry
                                      ELSE [mask |-> UnionMask(rest, ev), data |-> Head(rest)]]
  ELSE [r EXCEPT !.files = @ \ {e}]

\* Mutant: the entry holds the descriptor (epoll_event.data.fd), not the event.
AddToData(r, e, ev) ==
  IF fd[e] \in Pollable
  THEN [r EXCEPT !.fds[fd[e]] = <<e>> \o @,
                 !.epoll[fd[e]] = [mask |-> UnionMask(r.fds[fd[e]], ev) \cup ev[e], data |-> fd[e]]]
  ELSE [r EXCEPT !.files = @ \cup {e}]

\* add(): the new event becomes the first of its range and owns the entry.
AddTo(r, e, ev) ==
  IF fd[e] \in Pollable
  THEN [r EXCEPT !.fds[fd[e]] = <<e>> \o @,
                 !.epoll[fd[e]] = [mask |-> UnionMask(r.fds[fd[e]], ev) \cup ev[e], data |-> e]]
  ELSE [r EXCEPT !.files = @ \cup {e}]

\* Mutant: no check for events registered twice.
DuplicateNever(r, e, ev) == FALSE

\* add() throws DuplicateEventRegistrationException, before it changes anything.
Duplicate(r, e, ev) ==
  ev[e] \cap (IF fd[e] \in Pollable THEN UnionMask(r.fds[fd[e]], ev)
              ELSE UNION {ev[x] : x \in {y \in r.files : fd[y] = fd[e]}}) # {}

SetRegs(r) == fds' = r.fds /\ files' = r.files /\ epoll' = r.epoll

\* enable(): a refused descriptor is left to the FileDispatcher for good.
Enable(e) ==
  /\ MayCall
  /\ e \notin linked /\ events[e] # {}
  /\ ~Duplicate(Regs, e, events)
  /\ Runner!Enable(e)
  /\ SetRegs(AddTo(Regs, e, events))
  /\ pollable' = [pollable EXCEPT ![e] = fd[e] \in Pollable]
  /\ UNCHANGED <<at, fd, events, signaled, ready>>

Disable(e) ==
  /\ MayCall
  /\ Runner!Disable(e)
  /\ SetRegs(RemoveFrom(Regs, e, events))
  /\ UNCHANGED <<at, eventVars, ready>>

\* events(m), addEvents(), removeEvents(): disable, change and enable again, which
\* enable() refuses for an empty mask and add() may refuse with an exception.  The
\* event is left disabled then.
SetEvents(e, m) ==
  LET ev == [events EXCEPT ![e] = m]
      r == RemoveFrom(Regs, e, ev)
      again == m # {} /\ ~Duplicate(r, e, ev)
  IN  /\ MayCall
      /\ m # events[e]
      /\ events' = ev
      /\ IF e \in linked
         THEN /\ linked' = IF again THEN linked ELSE linked \ {e}
              /\ due' = due \ {e}
              /\ SetRegs(IF again THEN AddTo(r, e, ev) ELSE r)
         ELSE UNCHANGED <<linked, due, fds, files, epoll>>
      /\ UNCHANGED <<runnable, active, current, at, fd, pollable, signaled, ready>>

\* handle(h): enable() of an event that is enabled already does nothing.
Handle(e, f) ==
  /\ MayCall
  /\ e \notin linked \/ HandleEnabled
  /\ f # fd[e]
  /\ fd' = [fd EXCEPT ![e] = f]
  /\ pollable' = [pollable EXCEPT ![e] = TRUE]
  /\ UNCHANGED <<runnerVars, at, events, signaled, fds, files, epoll, ready>>

-----------------------------------------------------------------------------
(***************************************************************************)
(* A turn of process().                                                    *)
(***************************************************************************)

\* The outside world: readiness matters when process() polls.
Ready(f, m) ==
  /\ at = "poll"
  /\ m # ready[f]
  /\ ready' = [ready EXCEPT ![f] = m]
  /\ UNCHANGED <<runnerVars, at, eventVars, fds, files, epoll>>

\* What epoll reports of a descriptor.
Reported(f) == ready[f] \cap (epoll[f].mask \cup ErrBit)

Signaling == {f \in Pollable : epoll[f] # NoEntry /\ Reported(f) # {}}

\* Mutant: the walk starts behind the event that was signaled.
WalkSkipsFirst(f) == {fds[f][i] : i \in {j \in 1..Len(fds[f]) :
                        \E k \in 1..(j - 1) : fds[f][k] = epoll[f].data}}

\* FdEvent::signal(): the events from the one in the entry to the range's end.
Walk(f) == {fds[f][i] : i \in {j \in 1..Len(fds[f]) :
              \E k \in 1..j : fds[f][k] = epoll[f].data}}

\* Mutant: an error alone makes nobody runnable.
SignalsNoError(e, m) == events[e] \cap m # {}

\* An error or hangup alone is reported to every event of the descriptor.
Signals(e, m) == events[e] \cap m # {} \/ (m \cap ErrBit # {} /\ m \cap Bit = {})

\* processOnce() with the entries of F, then FileDispatcher::prepareRun().
Poll(F) ==
  LET hit == UNION {Walk(f) : f \in F}
  IN  /\ at = "poll"
      /\ F \subseteq Signaling
      /\ at' = "run"
      /\ signaled' = [e \in Event |->
                        IF e \in files THEN events[e]
                        ELSE IF e \in hit THEN Reported(fd[e]) \cap (ErrBit \cup events[e])
                        ELSE signaled[e]]
      /\ Runner!Signal(files \cup {e \in hit : Signals(e, Reported(fd[e]))})
      /\ UNCHANGED <<fd, events, pollable, fds, files, epoll, ready>>

\* epoll_wait() reports as many entries as fit; interrupted or timed out, none.
PollReady ==
  \E F \in SUBSET Signaling :
    /\ Cardinality(F) = Min({Cardinality(Signaling), NumEvents})
    /\ Poll(F)

PollNone == Poll({})

Process ==
  /\ at = "out"
  /\ at' = "poll"
  /\ UNCHANGED <<runnerVars, eventVars, fds, files, epoll, ready>>

Run ==
  /\ at = "run"
  /\ Runner!Run
  /\ UNCHANGED <<at, eventVars, fds, files, epoll, ready>>

\* FdEvent::v_run() passes signaledEvents_ to the callback.
Call(e) ==
  /\ at = "run"
  /\ Runner!Dispatch(e)
  /\ at' = "callback"
  /\ UNCHANGED <<eventVars, fds, files, epoll, ready>>

Return ==
  /\ at = "callback"
  /\ Runner!Return
  /\ at' = "run"
  /\ UNCHANGED <<eventVars, fds, files, epoll, ready>>

Throw ==
  /\ at = "callback"
  /\ Runner!Throw
  /\ at' = "out"
  /\ UNCHANGED <<eventVars, fds, files, epoll, ready>>

\* The next turn, or the end of process().
Finish ==
  /\ at = "run"
  /\ Runner!Finish
  /\ at' \in {"poll", "out"}
  /\ UNCHANGED <<eventVars, fds, files, epoll, ready>>

-----------------------------------------------------------------------------
Next ==
  \/ \E e \in Event : \/ Enable(e) \/ Disable(e) \/ Call(e)
                      \/ \E m \in Mask : SetEvents(e, m)
                      \/ \E f \in Fd : Handle(e, f)
  \/ \E f \in Pollable, m \in SUBSET (Bit \cup ErrBit) : Ready(f, m)
  \/ PollReady \/ PollNone
  \/ Process \/ Run \/ Return \/ Throw \/ Finish

Spec == Init /\ [][Next]_vars

\* process() is called again and goes on; epoll reports every descriptor that stays
\* ready in the end, also if there are more than NumEvents and if polls are
\* interrupted; run() calls the tasks it owes.
FairSpec ==
  /\ Spec
  /\ WF_vars(Process \/ Run \/ Return)
  /\ WF_vars(PollNone)
  /\ \A f \in Pollable : SF_vars(\E F \in SUBSET Signaling : f \in F /\ Poll(F) /\ PollReady)
  /\ \A e \in Event : SF_vars(Call(e))
  /\ SF_vars(Finish)

-----------------------------------------------------------------------------
(***************************************************************************)
(* Properties.                                                             *)
(***************************************************************************)

\* Type invariant.
TypeOK ==
  /\ Runner!TypeOK
  /\ at \in {"out", "poll", "run", "callback"}
  /\ fd \in [Event -> Fd] /\ events \in [Event -> Mask]
  /\ pollable \in [Event -> BOOLEAN]
  /\ signaled \in [Event -> SUBSET (Bit \cup ErrBit)]
  /\ fds \in [Fd -> Seq(Event)]
  /\ files \subseteq Event
  /\ epoll \in [Fd -> [mask : SUBSET Bit, data : Event \cup {Null}]]
  /\ ready \in [Pollable -> SUBSET (Bit \cup ErrBit)]

\* However events are enabled, disabled and changed, epoll watches exactly what
\* the enabled events of a descriptor ask for, and reports it to the first event
\* of the range, so that signal() reaches them all.
EpollAgrees ==
  \A f \in Fd :
    LET users == {e \in linked : fd[e] = f}
    IN  /\ Nodes(fds[f]) \subseteq users /\ users \subseteq Nodes(fds[f]) \cup files
        /\ epoll[f] = IF fds[f] = << >> THEN NoEntry
                      ELSE [mask |-> UNION {events[e] : e \in users}, data |-> Head(fds[f])]

\* "Only a single handler may be registered for any combination of file
\* descriptor and event", and disable() looks for an event where enable() put it.
OneHandler ==
  /\ \A e, x \in linked : e # x /\ fd[e] = fd[x] => events[e] \cap events[x] = {}
  /\ \A e \in linked : IF pollable[e] THEN e \in Nodes(fds[fd[e]]) ELSE e \in files

\* Where the enabled events are: each in the range of its descriptor, once, or with the
\* FileDispatcher if epoll refuses the descriptor.
Placed ==
  /\ \A f \in Fd : /\ NoRepeat(fds[f])
                   /\ Nodes(fds[f]) = {e \in linked : fd[e] = f /\ f \in Pollable}
  /\ files = {e \in linked : fd[e] \notin Pollable}
  /\ \A e \in linked : pollable[e] = (fd[e] \in Pollable)

\* The inductive invariant, of programs that call handle() for disabled events only.
IndInv == TypeOK /\ EpollAgrees /\ OneHandler /\ Placed

\* A report of epoll is answered: it makes every event registered for it runnable,
\* and always at least one.  Level triggered polling nobody answers would spin.
NoBusyLoop ==
  [][\A f \in Signaling :
       at = "poll" /\ at' = "run" /\ PollReady /\ NumEvents >= Cardinality(Signaling) =>
         /\ \E e \in linked : fd[e] = f /\ runnable'[e]
         /\ \A e \in linked : fd[e] = f /\ events[e] \cap Reported(f) # {} => runnable'[e]]_vars

\* An enabled event whose descriptor stays ready for it is called in the end.
ReadyIsServed ==
  \A e \in Event :
    []<>(\/ e \notin linked \/ current = e
         \/ fd[e] \in Pollable /\ events[e] \cap ready[fd[e]] = {})

=============================================================================
