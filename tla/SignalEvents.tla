---------------------------- MODULE SignalEvents ----------------------------
(***************************************************************************)
(* UNIX signal events (SignalEvent.cc).  The signal handler writes a       *)
(* siginfo record to a pipe that process() polls; each poll reads one      *)
(* record and marks the event of that signal runnable.  Registered signals *)
(* are blocked outside of process(), and all signals inside the scope of a *)
(* BlockSignals object.                                                    *)
(***************************************************************************)
EXTENDS Naturals, FiniteSets, Sequences

CONSTANTS
  Event,      \* SignalEvent objects, and descriptor, timer, file and idle events
  Signals,     \* signals
  SigOf,      \* SignalEvent::signal_; Null for an event of another kind
  Null,
  MaxRaise,   \* bound: signals raised in a behaviour; fewer than the pipe holds
  InSection   \* TRUE if the program registers events in the scope of a BlockSignals

ASSUME SignalAssumption ==
  /\ IsFiniteSet(Event) /\ SigOf \in [Event -> Signals \cup {Null}]
  /\ Null \notin Event \cup Signals
  /\ MaxRaise \in Nat
  /\ InSection \in BOOLEAN

VARIABLES
  linked,     \* handlers_, the registered events
  runnable, active, current, due,   \* the task runner
  at,         \* where process() is
  sigSet,     \* sigSet_
  blocked,    \* blocked_
  mask,       \* the signal mask of the process
  section,    \* BlockSignals::blocked_
  savedSigs,  \* BlockSignals::savedSigs_
  pending,    \* signals raised and not delivered
  sigPipe,    \* the records in sigPipe_
  raised,     \* history: number of signals raised
  written,    \* history: records written, per signal
  called      \* history: callbacks called, per signal

runnerVars == <<linked, runnable, active, current, due>>
maskVars == <<sigSet, blocked, mask, section, savedSigs>>
deliveryVars == <<pending, sigPipe, raised, written>>
vars == <<runnerVars, at, maskVars, deliveryVars, called>>

Runner == INSTANCE TaskRunner WITH Task <- Event, Hook <- {}

SignalEvent == {e \in Event : SigOf[e] # Null}
Registered == {SigOf[e] : e \in linked \cap SignalEvent}

Init ==
  /\ Runner!Init
  /\ at = "out"
  /\ sigSet = {} /\ blocked = TRUE /\ mask = {}
  /\ section = FALSE /\ savedSigs = {}
  /\ pending = {} /\ sigPipe = << >> /\ raised = 0
  /\ written = [s \in Signals |-> 0] /\ called = [s \in Signals |-> 0]

-----------------------------------------------------------------------------
(***************************************************************************)
(* The kernel.                                                             *)
(***************************************************************************)

Raise(s) ==
  /\ raised < MaxRaise
  /\ raised' = raised + 1
  /\ pending' = pending \cup {s}
  /\ UNCHANGED <<runnerVars, at, maskVars, sigPipe, written, called>>

\* Mutant: si_signo is not set in the record.
SigHandlerRaw(s) ==
  /\ s \in pending \ mask
  /\ s \in Registered
  /\ pending' = pending \ {s}
  /\ sigPipe' = Append(sigPipe, Null)
  /\ written' = [written EXCEPT ![s] = @ + 1]
  /\ UNCHANGED <<runnerVars, at, maskVars, raised, called>>

\* sigHandler() is entered for a pending signal that is not blocked.
SigHandler(s) ==
  /\ s \in pending \ mask
  /\ s \in Registered
  /\ pending' = pending \ {s}
  /\ sigPipe' = Append(sigPipe, s)
  /\ written' = [written EXCEPT ![s] = @ + 1]
  /\ UNCHANGED <<runnerVars, at, maskVars, raised, called>>

\* A signal nobody is registered for takes its default action, here to be ignored.
DefaultAction(s) ==
  /\ s \in pending \ mask
  /\ s \notin Registered
  /\ pending' = pending \ {s}
  /\ UNCHANGED <<runnerVars, at, maskVars, sigPipe, raised, written, called>>

-----------------------------------------------------------------------------
(***************************************************************************)
(* Registration and critical sections.                                     *)
(***************************************************************************)

MayCall == at \in {"out", "callback"}
MayRegister == MayCall /\ (section => InSection)

\* SignalDispatcher::add(); a second event for the same signal is refused.
Enable(e) ==
  /\ MayRegister
  /\ e \in SignalEvent /\ SigOf[e] \notin Registered
  /\ Runner!Enable(e)
  /\ sigSet' = sigSet \cup {SigOf[e]}
  /\ mask' = IF blocked THEN mask \cup {SigOf[e]} ELSE mask \ {SigOf[e]}
  /\ UNCHANGED <<at, blocked, section, savedSigs, deliveryVars, called>>

\* SignalDispatcher::remove(); sigSet_ keeps the signal.
Disable(e) ==
  /\ MayRegister
  /\ e \in SignalEvent
  /\ Runner!Disable(e)
  /\ mask' = mask \ {SigOf[e]}
  /\ UNCHANGED <<at, sigSet, blocked, section, savedSigs, deliveryVars, called>>

\* Registration of an event of another kind.
OtherEvent(e) ==
  /\ MayCall
  /\ e \notin SignalEvent
  /\ Runner!Enable(e) \/ Runner!Disable(e)
  /\ UNCHANGED <<at, maskVars, deliveryVars, called>>

\* BlockSignals::block() and unblock(), by the callback or outside of process().
Block ==
  /\ MayCall /\ ~section
  /\ section' = TRUE
  /\ savedSigs' = mask
  /\ mask' = Signals
  /\ UNCHANGED <<runnerVars, at, sigSet, blocked, deliveryVars, called>>

Unblock ==
  /\ section
  /\ section' = FALSE
  /\ mask' = savedSigs
  /\ UNCHANGED <<runnerVars, at, sigSet, blocked, savedSigs, deliveryVars, called>>

-----------------------------------------------------------------------------
(***************************************************************************)
(* process().                                                              *)
(***************************************************************************)

\* unblockSignals()
Process ==
  /\ at = "out" /\ ~section
  /\ at' = "loop"
  /\ blocked' = FALSE
  /\ mask' = mask \ sigSet
  /\ UNCHANGED <<runnerVars, sigSet, section, savedSigs, deliveryVars, called>>

\* Mutant: the record's signal is not looked at.
SignalReadsAll(O) ==
  /\ runnable' = [e \in Event |-> runnable[e] \/ e \in linked]
  /\ sigPipe' = Tail(sigPipe)

\* Mutant: the pipe is emptied, only its first record used.
SignalReadsDrains(O) ==
  /\ runnable' = [e \in Event |->
                    runnable[e] \/ e \in O \/ (e \in linked /\ SigOf[e] = Head(sigPipe))]
  /\ sigPipe' = << >>

\* signal(): one record is read; its event, if there is one, becomes runnable, as
\* do the events O of other kinds that were signaled.
SignalReads(O) ==
  /\ runnable' = [e \in Event |->
                    runnable[e] \/ e \in O \/ (e \in linked /\ SigOf[e] = Head(sigPipe))]
  /\ sigPipe' = Tail(sigPipe)

PollSignal ==
  /\ at = "poll"
  /\ sigPipe # << >>
  /\ at' = "run"
  /\ \E O \in SUBSET (linked \ SignalEvent) : SignalReads(O)
  /\ UNCHANGED <<linked, active, current, due, maskVars, pending, raised, written, called>>

\* The poll ends for another reason and does not report the pipe.
PollOther ==
  /\ at = "poll"
  /\ at' = "run"
  /\ \E O \in SUBSET (linked \ SignalEvent) : Runner!Signal(O)
  /\ UNCHANGED <<maskVars, deliveryVars, called>>

Run ==
  /\ at = "run"
  /\ Runner!Run
  /\ UNCHANGED <<at, maskVars, deliveryVars, called>>

Call(e) ==
  /\ at = "run"
  /\ Runner!Dispatch(e)
  /\ at' = "callback"
  /\ called' = [s \in Signals |-> IF s = SigOf[e] THEN called[s] + 1 ELSE called[s]]
  /\ UNCHANGED <<maskVars, deliveryVars>>

Return ==
  /\ at = "callback" /\ ~section
  /\ Runner!Return
  /\ at' = "run"
  /\ UNCHANGED <<maskVars, deliveryVars, called>>

\* Mutant: blockSignals() is not reached when process() is left.
BlockSignalsNot == UNCHANGED <<blocked, mask>>

\* blockSignals()
BlockSignals ==
  /\ blocked' = TRUE
  /\ mask' = mask \cup sigSet

\* The condition of the loop: without a descriptor, timer, file or idle event process()
\* returns, whatever signal events are registered, and leaves the pipe as it is.
Loop ==
  /\ at = "loop"
  /\ \/ linked \ SignalEvent # {} /\ at' = "poll" /\ UNCHANGED <<blocked, mask>>
     \/ linked \subseteq SignalEvent /\ at' = "out" /\ BlockSignals
  /\ UNCHANGED <<runnerVars, sigSet, section, savedSigs, deliveryVars, called>>

\* An exception leaves process().
Throw ==
  /\ at = "callback" /\ ~section
  /\ Runner!Throw
  /\ at' = "out"
  /\ BlockSignals
  /\ UNCHANGED <<sigSet, section, savedSigs, deliveryVars, called>>

\* The end of a turn; a callback may have called terminate().
Finish ==
  /\ at = "run"
  /\ Runner!Finish
  /\ \/ at' = "loop" /\ UNCHANGED <<blocked, mask>>
     \/ at' = "out" /\ BlockSignals
  /\ UNCHANGED <<sigSet, section, savedSigs, deliveryVars, called>>

-----------------------------------------------------------------------------
Next ==
  \/ \E s \in Signals : Raise(s) \/ SigHandler(s) \/ DefaultAction(s)
  \/ \E e \in Event : Enable(e) \/ Disable(e) \/ OtherEvent(e) \/ Call(e)
  \/ Block \/ Unblock
  \/ Process \/ Loop \/ PollSignal \/ PollOther \/ Run \/ Return \/ Throw \/ Finish

Spec == Init /\ [][Next]_vars

\* process() is called again and goes on, also if the program enters critical
\* sections over and over (hence strong fairness).  Signals that are not blocked
\* are delivered, a poll that could read the pipe does so in the end, critical
\* sections end and run() calls the tasks it owes.
FairSpec ==
  /\ Spec
  /\ \A s \in Signals : SF_vars(SigHandler(s))
  /\ SF_vars(PollSignal)
  /\ WF_vars(Unblock) /\ SF_vars(Process \/ Return) /\ WF_vars(Loop)
  /\ WF_vars(Run)
  /\ \A e \in Event : SF_vars(Call(e))
  /\ SF_vars(Finish)

-----------------------------------------------------------------------------
(***************************************************************************)
(* Properties.                                                             *)
(***************************************************************************)

\* Type invariant.
TypeOK ==
  /\ Runner!TypeOK
  /\ at \in {"out", "loop", "poll", "run", "callback"}
  /\ sigSet \subseteq Signals /\ mask \subseteq Signals /\ savedSigs \subseteq Signals
  /\ blocked \in BOOLEAN /\ section \in BOOLEAN
  /\ pending \subseteq Signals /\ sigPipe \in Seq(Signals) /\ raised \in 0..MaxRaise
  /\ written \in [Signals -> Nat] /\ called \in [Signals -> Nat]

\* Outside of critical sections a registered signal is blocked exactly while
\* process() is not executing, however events, sections and exceptions interleave:
\* the handler runs only while process() does.
MaskAgrees ==
  /\ blocked <=> at = "out"
  /\ ~section => \A e \in linked \cap SignalEvent : SigOf[e] \in mask <=> blocked

\* No callback without a signal: of the records written for a signal, each is in
\* the pipe, has been used up by one call, stands for one runnable event or is gone.
NoPhantom ==
  \A s \in Signals :
    called[s] + Cardinality({i \in 1..Len(sigPipe) : sigPipe[i] = s})
              + Cardinality({e \in Event : SigOf[e] = s /\ runnable[e]}) <= written[s]

\* There is at most one event for a signal, and its signal is in sigSet_.
RegisteredOnce ==
  /\ \A e, x \in linked \cap SignalEvent : SigOf[e] = SigOf[x] => e = x
  /\ Registered \subseteq sigSet

\* A critical section is left with the mask that the registrations need.
SectionKeepsMask ==
  section => /\ MayCall
             /\ \A e \in linked \cap SignalEvent : SigOf[e] \in savedSigs <=> blocked

\* The inductive invariant.  The mask is right only if no event is registered in a
\* critical section.
IndInv ==
  TypeOK /\ RegisteredOnce /\ NoPhantom /\ (~InSection => MaskAgrees /\ SectionKeepsMask)

\* In a program that keeps polling, a signal raised for a registered event leads to a call
\* of its callback ("the callback will be called synchronously ... by the scheduler"),
\* unless the event is unregistered or another callback ends process() with an exception
\* after signal() has used up the record: then the event is left runnable outside of
\* process().  The premise is needed: signal events alone do not make process() poll.
SignalServed ==
  []<>(at = "poll") =>
    \A e \in SignalEvent :
      (e \in linked /\ SigOf[e] \in pending) ~>
        (current = e \/ e \notin linked \/ (at = "out" /\ runnable[e]))

=============================================================================
