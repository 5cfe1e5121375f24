----------------------------- MODULE Scheduler ------------------------------
(***************************************************************************)
(* senf::scheduler::process() and the dispatchers it drives: the poll loop *)
(* (Scheduler.cc, FdManager.cc), timers with their three wake-up sources   *)
(* (TimerEvent.cc, TimerSource.cc), idle events, file events and event     *)
(* hooks, on top of the task runner.  The poll timeout is handed down      *)
(* through three objects: the timer source sets that of the                *)
(* IdleEventDispatcher, which overrides it by 0 while idle events exist    *)
(* and passes it to the FileDispatcher, which overrides it by 0 while file *)
(* events exist and passes it to the poller.                               *)
(***************************************************************************)
EXTENDS Integers, FiniteSetsExt

CONSTANTS
  Task,       \* event objects
  Kind,       \* [Task -> {"fd", "file", "timer", "idle", "hook"}]
  Null,
  Programs,   \* the programs considered: their events, the times their timers are set to
  Hires,      \* what hiresTimers() installs: "timerfd" if the kernel has it, else "posix"
  Again,      \* TRUE if hiresTimers() is called while hires timers are in use, too
  Ms,         \* clock ticks per millisecond
  IntLimit,   \* an int holds -IntLimit .. IntLimit - 1
  MaxTime     \* bound of the clock; it stands for any later time

Of(k) == {t \in Task : Kind[t] = k}
Hook == Of("hook") \cup Of("idle")
None == -1

ASSUME SchedulerAssumption ==
  /\ Kind \in [Task -> {"fd", "file", "timer", "idle", "hook"}]
  /\ Null \notin Task
  /\ \A p \in Programs : p.events \subseteq Task
                        /\ p.times # {} /\ p.times \subseteq 0..(MaxTime - 1)
  /\ Hires \in {"posix", "timerfd"} /\ Again \in BOOLEAN
  /\ Ms \in Nat \ {0} /\ IntLimit \in Nat \ {0} /\ MaxTime \in Nat

VARIABLES
  program,        \* the program that uses the scheduler
  linked, runnable, active, current, due,   \* the task runner
  at,             \* where process() is
  terminate,      \* terminate_
  timeout,        \* TimerEvent::timeout_
  now,            \* ClockService::now()
  idleTimeout,    \* IdleEventDispatcher::managerTimeout_
  fileTimeout,    \* FileDispatcher::managerTimeout_
  pollTimeout,    \* Poller::timeout_, in ms; None for no timeout
  pollStart,      \* when epoll_wait() was entered; 0 when process() does not poll
  source,         \* TimerDispatcher::source_: "poll" or Hires
  timeoutEnabled, \* TimerSource::timeoutEnabled_
  sourceTimeout,  \* TimerSource::timeout_
  armed,          \* when the kernel timer of the source expires
  alarm,          \* SIGALRM is pending
  ignored,        \* the POSIX source is in use, but SIGALRM is ignored
  readable        \* the source's pipe or timerfd can be read

runnerVars == <<linked, runnable, active, current, due>>
layerVars == <<idleTimeout, fileTimeout, pollTimeout>>
kernelVars == <<timeoutEnabled, sourceTimeout, armed, alarm, readable>>
sourceVars == <<source, ignored, kernelVars>>
vars == <<program, runnerVars, at, terminate, timeout, now, layerVars, pollStart, sourceVars>>

Runner == INSTANCE TaskRunner

Linked(k) == linked \cap Of(k)

\* TimerDispatcher::TimerDispatcher() and the constructor of the timer source.
SourceInit ==
  /\ source = "poll" /\ ignored = FALSE
  /\ timeoutEnabled = FALSE /\ sourceTimeout = 0
  /\ armed = None /\ alarm = FALSE /\ readable = FALSE

Init ==
  /\ program \in Programs
  /\ Runner!Init
  /\ at = "out"
  /\ terminate = FALSE
  /\ timeout = [t \in Of("timer") |-> Min(program.times)]
  /\ now = 0
  /\ idleTimeout = None /\ fileTimeout = None /\ pollTimeout = None
  /\ pollStart = 0
  /\ SourceInit

-----------------------------------------------------------------------------
(***************************************************************************)
(* Poll timeouts and timer sources.                                        *)
(***************************************************************************)

\* IdleEventDispatcher::timeout(t), FileDispatcher::timeout(t).
SetIdleTimeout(t) ==
  /\ idleTimeout' = t
  /\ fileTimeout' = IF Linked("idle") = {} THEN t ELSE fileTimeout
  /\ pollTimeout' = IF Linked("idle") = {} /\ Linked("file") = {} THEN t ELSE pollTimeout

\* Conversion to int.
ToInt(x) == ((x + IntLimit) % (2 * IntLimit)) - IntLimit

\* Milliseconds in a time difference, truncated towards zero.
InMilliseconds(d) == IF d < 0 THEN -((-d) \div Ms) ELSE d \div Ms

\* Mutant: a negative delay is passed on, which epoll_wait() takes for "none".
PollDelayUnclamped(t) == ToInt(InMilliseconds(t - now) + 1)

\* The delay PollTimerSource::timeout() asks for: rounded up, never negative.
PollDelay(t) == Max({ToInt(InMilliseconds(t - now) + 1), 0})

\* reschedule() of the source: the kernel timer is set or stopped, which takes back
\* an expiration nobody has read from a timerfd.
SetTime ==
  /\ armed' = IF timeoutEnabled' THEN sourceTimeout' ELSE None
  /\ readable' = (readable /\ source = "posix")
  /\ UNCHANGED alarm

\* timeout(t) of the source.
SourceTimeout(t) ==
  IF source = "poll"
  THEN SetIdleTimeout(PollDelay(t)) /\ UNCHANGED kernelVars
  ELSE /\ IF timeoutEnabled /\ sourceTimeout = t
          THEN UNCHANGED kernelVars
          ELSE timeoutEnabled' = TRUE /\ sourceTimeout' = Max({t, 1}) /\ SetTime
       /\ UNCHANGED layerVars

\* notimeout() of the source.
SourceNoTimeout ==
  IF source = "poll"
  THEN SetIdleTimeout(None) /\ UNCHANGED kernelVars
  ELSE /\ IF timeoutEnabled
          THEN timeoutEnabled' = FALSE /\ UNCHANGED sourceTimeout /\ SetTime
          ELSE UNCHANGED kernelVars
       /\ UNCHANGED layerVars

\* TimerDispatcher::reschedule()
Reschedule ==
  IF Linked("timer") = {} THEN SourceNoTimeout
  ELSE SourceTimeout(Min({timeout[t] : t \in Linked("timer")}))

\* Mutant: the new source keeps what the kernel timer of the old one was set to.
NewSourceStale ==
  /\ armed' = None /\ alarm' = FALSE /\ readable' = FALSE
  /\ UNCHANGED <<timeoutEnabled, sourceTimeout>>

\* The constructor of the new source, then the destructor of the old one, which
\* deletes the kernel timer and drops a pending SIGALRM.
NewSource ==
  /\ timeoutEnabled' = FALSE /\ sourceTimeout' = 0
  /\ armed' = None /\ alarm' = FALSE /\ readable' = FALSE

\* TimerDispatcher::timerSource(s), never from a callback.  The destructor of a POSIX
\* source ignores SIGALRM, after the constructor of the new one has set the handler.
\* The poll timeout keeps the value the poll source has set last.
TimerSource(s) ==
  /\ at = "out"
  /\ source' = s
  /\ ignored' = (source = "posix" /\ s = "posix")
  /\ NewSource
  /\ UNCHANGED <<program, runnerVars, at, terminate, timeout, now, layerVars, pollStart>>

HiresTimers == (source = "poll" \/ Again) /\ TimerSource(Hires)

LoresTimers == source # "poll" /\ TimerSource("poll")

\* The kernel timer expires.  SIGALRM is blocked outside of process(); the signal
\* handler of the POSIX source writes to the source's pipe.
Expire ==
  /\ armed # None /\ now >= armed
  /\ armed' = None
  /\ alarm' = (alarm \/ (source = "posix" /\ ~ignored /\ at = "out"))
  /\ readable' = (readable \/ source = "timerfd" \/ (~ignored /\ at # "out"))
  /\ UNCHANGED <<program, runnerVars, at, terminate, timeout, now, layerVars, pollStart,
                 source, ignored, timeoutEnabled, sourceTimeout>>

\* Time passes while user code runs and while process() polls.
Tick ==
  /\ at \in {"out", "poll", "callback"}
  /\ now < MaxTime
  /\ now' = now + 1
  /\ UNCHANGED <<program, runnerVars, at, terminate, timeout, layerVars, pollStart, sourceVars>>

-----------------------------------------------------------------------------
(***************************************************************************)
(* Event registration, by a callback or outside of process().              *)
(***************************************************************************)

MayCall == at \in {"out", "callback"}

\* enable() of a file event polls with timeout 0, of an idle event too, but only
\* as far as the file events let it.
EnableLayers(t) ==
  /\ fileTimeout' = IF Kind[t] = "idle" THEN 0 ELSE fileTimeout
  /\ pollTimeout' = IF Kind[t] = "file" \/ (Kind[t] = "idle" /\ Linked("file") = {})
                    THEN 0 ELSE pollTimeout
  /\ UNCHANGED idleTimeout

\* enable() of any event, for a timer also timeout(), which sets a new time first.
Enable(t) ==
  /\ MayCall
  /\ t \in program.events
  /\ Runner!Enable(t)
  /\ EnableLayers(t)
  /\ IF Kind[t] = "timer"
     THEN \E to \in program.times : timeout' = [timeout EXCEPT ![t] = to]
     ELSE UNCHANGED timeout
  /\ UNCHANGED <<program, at, terminate, now, pollStart, sourceVars>>

\* Mutant: the last file event restores the timer source's timeout.
DisableLayersSkipping(t) ==
  LET lastIdle == Linked("idle") = {t}
      lastFile == Linked("file") = {t}
  IN  /\ fileTimeout' = IF lastIdle THEN idleTimeout ELSE fileTimeout
      /\ pollTimeout' = IF lastFile \/ (lastIdle /\ Linked("file") = {})
                        THEN idleTimeout ELSE pollTimeout
      /\ UNCHANGED idleTimeout

\* remove() of the last idle or file event restores the timeout set below it.
DisableLayers(t) ==
  LET lastIdle == Linked("idle") = {t}
      lastFile == Linked("file") = {t}
  IN  /\ fileTimeout' = IF lastIdle THEN idleTimeout ELSE fileTimeout
      /\ pollTimeout' = IF lastFile \/ (lastIdle /\ Linked("file") = {})
                        THEN fileTimeout' ELSE pollTimeout
      /\ UNCHANGED idleTimeout

Disable(t) ==
  /\ MayCall
  /\ Runner!Disable(t)
  /\ DisableLayers(t)
  /\ UNCHANGED <<program, at, terminate, timeout, now, pollStart, sourceVars>>

\* scheduler::restart(): every dispatcher is destroyed and constructed again, which
\* removes all events.
Restart ==
  /\ at = "out"
  /\ linked' = {}
  /\ idleTimeout' = None /\ fileTimeout' = None /\ pollTimeout' = None
  /\ source' = "poll" /\ ignored' = FALSE /\ NewSource
  /\ UNCHANGED <<program, runnable, active, current, due, at, terminate, timeout, now, pollStart>>

\* scheduler::terminate()
Terminate ==
  /\ MayCall
  /\ ~terminate
  /\ terminate' = TRUE
  /\ UNCHANGED <<program, runnerVars, at, timeout, now, layerVars, pollStart, sourceVars>>

-----------------------------------------------------------------------------
(***************************************************************************)
(* process().                                                              *)
(***************************************************************************)

\* SchedulerScopedInit and terminate_ = false.  Enabling the POSIX source unblocks
\* SIGALRM, which delivers a pending one.
Process ==
  /\ at = "out"
  /\ at' = "resched"
  /\ terminate' = FALSE
  /\ readable' = (readable \/ alarm)
  /\ alarm' = FALSE
  /\ UNCHANGED <<program, runnerVars, timeout, now, layerVars, pollStart,
                 source, ignored, timeoutEnabled, sourceTimeout, armed>>

\* reschedule(), before the loop and at the end of each turn.
Resched ==
  /\ at = "resched"
  /\ at' = "test"
  /\ Reschedule
  /\ UNCHANGED <<program, runnerVars, terminate, timeout, now, pollStart, source, ignored>>

\* Mutant: the loop does not look at terminate_.
KeepsRunningAnyway == \E t \in linked : Kind[t] # "hook"

\* The loop condition: neither signal events nor event hooks keep the loop going.
KeepsRunning == ~terminate /\ \E t \in linked : Kind[t] # "hook"

Poll ==
  /\ at = "test"
  /\ KeepsRunning
  /\ at' = "poll"
  /\ pollStart' = now
  /\ UNCHANGED <<program, runnerVars, terminate, timeout, now, layerVars, sourceVars>>

\* process() returns; ~SchedulerScopedInit.
Leave ==
  /\ at = "test"
  /\ ~KeepsRunning
  /\ at' = "out"
  /\ UNCHANGED <<program, runnerVars, terminate, timeout, now, layerVars, pollStart, sourceVars>>

\* TimerDispatcher::prepareRun(); the event time is that of the end of the poll.
Expired == {t \in Linked("timer") : timeout[t] <= now}

\* epoll_wait() has returned: processOnce() calls signal() for the entries R that
\* are ready, then every dispatcher's prepareRun() marks its events.
Wake(R) ==
  /\ at = "poll"
  /\ at' = "run"
  /\ Runner!Signal(R \cup Linked("file") \cup Linked("hook") \cup Expired \cup Linked("idle"))
  /\ pollStart' = 0
  /\ UNCHANGED <<program, terminate, timeout, now, layerVars>>

\* Mutant: the source still believes its timeout to be set.
SourceSignalKeepsTimeout ==
  /\ readable' = FALSE
  /\ UNCHANGED <<source, ignored, timeoutEnabled, sourceTimeout, armed, alarm>>

\* signal() of the timer source: only the POSIX source forgets its timeout.
SourceSignal ==
  /\ readable' = FALSE
  /\ timeoutEnabled' = (timeoutEnabled /\ (source = "timerfd" \/ ~readable))
  /\ UNCHANGED <<source, ignored, sourceTimeout, armed, alarm>>

TimedOut ==
  pollTimeout >= 0 /\ (now >= pollStart + pollTimeout * Ms \/ now = MaxTime)

\* The poll ends by itself: its timeout is over or the source is readable.  File
\* descriptors may be ready as well.
PollReturns ==
  /\ readable \/ TimedOut
  /\ \E R \in SUBSET Linked("fd") : Wake(R)
  /\ SourceSignal

\* A file descriptor becomes ready.
PollReady ==
  /\ \E R \in SUBSET Linked("fd") : R # {} /\ Wake(R)
  /\ SourceSignal

\* epoll_wait() is interrupted by a signal (EINTR): nothing is read.
PollInterrupted ==
  /\ Wake({})
  /\ UNCHANGED sourceVars

Run ==
  /\ at = "run"
  /\ Runner!Run
  /\ UNCHANGED <<program, at, terminate, timeout, now, layerVars, pollStart, sourceVars>>

\* TaskInfo::run()
Call(t) ==
  /\ at = "run"
  /\ Runner!Dispatch(t)
  /\ at' = IF Kind[t] = "timer" THEN "v_run" ELSE "callback"
  /\ UNCHANGED <<program, terminate, timeout, now, layerVars, pollStart, sourceVars>>

\* TimerEvent::v_run() disables the timer before it calls the callback.
TimerRun ==
  /\ at = "v_run"
  /\ Runner!Disable(current)
  /\ at' = "callback"
  /\ UNCHANGED <<program, terminate, timeout, now, layerVars, pollStart, sourceVars>>

Return ==
  /\ at = "callback"
  /\ Runner!Return
  /\ at' = "run"
  /\ UNCHANGED <<program, terminate, timeout, now, layerVars, pollStart, sourceVars>>

\* An exception of a callback leaves process().
Throw ==
  /\ at = "callback"
  /\ Runner!Throw
  /\ at' = "out"
  /\ UNCHANGED <<program, terminate, timeout, now, layerVars, pollStart, sourceVars>>

Finish ==
  /\ at = "run"
  /\ Runner!Finish
  /\ at' = "resched"
  /\ UNCHANGED <<program, terminate, timeout, now, layerVars, pollStart, sourceVars>>

-----------------------------------------------------------------------------
Next ==
  \/ \E t \in Task : Enable(t) \/ Disable(t) \/ Call(t)
  \/ Terminate \/ Restart \/ HiresTimers \/ LoresTimers
  \/ Process \/ Resched \/ Poll \/ Leave
  \/ PollReturns \/ PollReady \/ PollInterrupted
  \/ Run \/ TimerRun \/ Return \/ Throw \/ Finish
  \/ Expire \/ Tick

Spec == Init /\ [][Next]_vars

\* Time passes, callbacks return, process() is called again and its loop goes on.
\* Strong fairness: however often a signal interrupts the poll or a callback
\* throws, the clock goes on, a kernel timer expires, and a poll that may end by
\* itself is not interrupted for ever.  That run() calls every task it owes and
\* ends is what FIFORunner guarantees as long as callbacks do not yield for ever;
\* that a timer is reached although tasks called before it throw follows from run()
\* moving a task behind the others before it calls it (FIFORunner!NoStarvation).
FairSpec ==
  /\ Spec
  /\ SF_vars(Tick) /\ SF_vars(Expire) /\ SF_vars(PollReturns)
  /\ WF_vars(Process \/ Resched \/ Poll \/ Leave \/ Run \/ TimerRun \/ Return)
  /\ \A t \in Of("timer") : SF_vars(Call(t))
  /\ SF_vars(\E t \in due : Call(t))
  /\ SF_vars(Finish)

-----------------------------------------------------------------------------
(***************************************************************************)
(* Properties.                                                             *)
(***************************************************************************)

\* Type invariant.
TypeOK ==
  /\ Runner!TypeOK
  /\ at \in {"out", "resched", "test", "poll", "run", "v_run", "callback"}
  /\ terminate \in BOOLEAN
  /\ program \in Programs /\ linked \subseteq program.events
  /\ timeout \in [Of("timer") -> program.times]
  /\ now \in 0..MaxTime /\ pollStart \in 0..MaxTime
  /\ {idleTimeout, fileTimeout, pollTimeout} \subseteq None..(IntLimit - 1)
  /\ source \in {"poll", Hires} /\ ignored \in BOOLEAN
  /\ timeoutEnabled \in BOOLEAN /\ sourceTimeout \in 0..MaxTime
  /\ armed \in 0..MaxTime \cup {None} /\ alarm \in BOOLEAN /\ readable \in BOOLEAN

\* The three layers of the poll timeout agree, whatever order idle and file
\* events come and go in and whenever the timers are rescheduled: a dispatcher
\* with events polls with timeout 0 and nothing else is forgotten.
LayersAgree ==
  /\ fileTimeout = IF Linked("idle") # {} THEN 0 ELSE idleTimeout
  /\ pollTimeout = IF Linked("file") # {} THEN 0 ELSE fileTimeout

\* While process() polls, something is arranged that ends the poll in time for
\* every enabled timer, also after the source was exchanged: a poll timeout at most
\* a millisecond past the timer, or a kernel timer set no later than it, or a source
\* that is already readable.
WakeUpInTime ==
  at = "poll" => \A t \in Linked("timer") :
    IF source = "poll"
    THEN /\ pollTimeout >= 0
         /\ pollStart + pollTimeout * Ms <= Max({timeout[t], pollStart}) + Ms
    ELSE readable \/ (armed # None /\ armed <= Max({timeout[t], 1}))

\* v_run() executes for timers only, and SIGALRM is pending only while it is blocked.
AtRightPlace == (at = "v_run" => current \in Of("timer")) /\ (alarm => at = "out")

\* A POSIX source that takes its timeout to be set has a kernel timer that runs up
\* to that time, or an expiration that process() will still see.
SourceBelieves ==
  source = "posix" /\ ~ignored /\ timeoutEnabled =>
    readable \/ alarm \/ (armed # None /\ armed <= sourceTimeout)

\* What reschedule() arranges for a poll that begins at s: WakeUpInTime for the
\* sources that keep it.  The delay of the poll source is right as long as no timer
\* is overdue by more milliseconds than an int holds.
Arranged(s) ==
  \A t \in Linked("timer") :
    /\ source = "poll" /\ (\A u \in Linked("timer") : s <= timeout[u] + IntLimit * Ms) =>
         pollTimeout >= 0 /\ s + pollTimeout * Ms <= Max({timeout[t], s}) + Ms
    /\ source = "posix" /\ ~ignored =>
         readable \/ (armed # None /\ armed <= Max({timeout[t], 1}))

\* The inductive invariant.  SIGALRM is ignored only after a second hiresTimers().
IndInv ==
  /\ TypeOK /\ LayersAgree /\ AtRightPlace /\ SourceBelieves
  /\ at = "test" => Arranged(now)
  /\ at = "poll" => Arranged(pollStart)
  /\ ignored => Again

\* Every enabled timer is called (which disables it) or disabled in the end.
TimerFires == \A t \in Of("timer") : t \in linked ~> t \notin linked

\* A call of terminate() makes process() return.
TerminateReturns == (terminate /\ at # "out") ~> at = "out"

=============================================================================
