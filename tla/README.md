# SENF: models of the scheduler, the packet connectors, the daemon and the tunnel

SENF is a C++ framework for network programs. Everything in it that runs does so
inside one thread, below `senf::scheduler::process()`: a loop polls descriptors,
marks event objects as runnable and lets a task queue call them. The packet
processing infrastructure (PPI) is built on top of it: modules with input and output
connectors, which pass packets and throttling notifications to each other by direct,
nested calls. Around these two layers there are parts where several processes meet:
the start of a daemon (its pid file, and the watcher that forwards its output until it
has detached) and the tunnel of the NetEmu extension, a client-server protocol over
UDP. This project models these parts, checks them with TLC and proves their safety
properties with TLAPS, for any number of tasks, events, packets, processes and clients.

"Single threaded" does not mean sequential here. A callback may enable, disable and
change any event object while the queue that called it is being walked, throw through
all of it, or yield; signals interrupt every line; the kernel decides what a poll
reports; and in the PPI a read can call the handler that reads. These are the
behaviours the models of the scheduler and of the connectors are about. Those of the
daemon and of the tunnel are about processes that interleave, crash and are started
again, and about a network that loses, repeats and reorders what it is given.

## Inventory

| Part (under `src/senf/`) | State | Operations | What makes it correct | Module |
|---|---|---|---|---|
| Task queue, `Scheduler/FIFORunner` | intrusive list with two priority sentinels and a moving end marker, iterator `next_`, `runnable_`, `yield_`, watchdog counters | `enqueue`, `dequeue`, `run()`, `run(f, l)`, `yield`, watchdog handler | list and iterator survive any removal; no runnable task is passed over; each is called once per pass; no starvation | `FIFORunner`, `TaskList`, `TaskRunner` |
| Main loop, `Scheduler/Scheduler` | `terminate_`, position in `process()` | `process`, `terminate`, `restart`, `BlockSignals` | returns after `terminate()`, restores everything when a callback throws | `Scheduler`, `SignalEvents` |
| Timers, `TimerEvent`, `TimerSource` | timers by time, the source's idea of what the kernel timer is set to | `enable`, `timeout`, `disable`, `reschedule`, three sources (poll timeout, POSIX timer, timerfd), `hiresTimers`, `loresTimers` | every poll ends in time for the next timer; every timer is called | `Scheduler` |
| Idle and file events, event hooks | two layers of saved poll timeouts | `add`, `remove`, `timeout`, `prepareRun` | a layer that goes away restores the timeout below it | `Scheduler` |
| Descriptor events, `FdEvent`, `FdManager`, `Poller` | multiset of events by descriptor, one epoll entry per descriptor | `add`, `remove`, `events`, `handle`, `signal`, `prepareRun` | the epoll entry is the union of what is registered; every report reaches its events | `FdEvents` |
| Signal events, `SignalEvent` | registered signals, signal mask, self-pipe | `add`, `remove`, `sigHandler`, `signal`, block and unblock | signals are delivered only inside `process()`, none is invented or lost | `SignalEvents` |
| PPI connectors, `PPI/Connectors`, `PPI/Throttling` | packet queue, packet on the fast path, native and remote throttling flags | `write`, `read`, `throttle`, `unthrottle`, notifications | no packet lost, duplicated or reordered; both sides agree on throttling | `PassiveInput`, `PacketChannel` |
| Pid file, `Utils/Daemon` | a directory entry, a temporary file per process, their link counts | `pidfileCreate`, removal in `~Daemon` | one daemon at a time; nothing left behind; a start is not refused without reason | `PidFile` |
| Daemon start-up, `Utils/Daemon` | the child's descriptors and signal mask; the watcher's two forwarders with their buffers, its timer | `fork`, `detach`, `logReopen`, `readData`, `writeData`, `pipeClosed`, `sigChld`, `childOk` | the log is complete and in order; the daemon is let go; its early death is reported | `DaemonWatcher` |
| Tunnel, `Ext/NetEmu/P2PTunnel` | the server's table of clients with its timer; the clients' `established_` and timers; datagrams in flight | set-up, echo and terminate messages, time-outs, enable, disable | the table stays consistent; every client gets its tunnel back; clients that are gone are forgotten | `Tunnel` |
| PPI routes, module manager, joins, queues, adaptors, socket modules | module graph, initialisation queue | `connect`, `disconnect`, `init`, `run` | later | - |
| Read and write helpers, timer proxy | buffers, sorted timers | | later | - |
| Packets, sockets, console, logger, termlib, the rest of NetEmu | | | not modelled, see the end | - |

How the parts interact: the dispatchers (timer, idle, file, fd, signal, hook) register
event objects with the task queue and with the poller. `process()` calls
`reschedule()` of the timer dispatcher, polls, lets each dispatcher mark its events
(`prepareRun()`), and calls `run()` of the queue. Shared state is the poll timeout,
which three objects hand down to each other, the runnable marks, and the signal mask.
Daemons share the directory of the pid file and see each other by `kill(pid, 0)`. Watcher
and daemon share two pipes and the log files and tell each other by SIGUSR1 and SIGCHLD.
Tunnel server and clients share nothing but datagrams.

`PROJECT.json` lists the hazards found in this code, each at its line, with the
properties aimed at it, or with the reason why no property covers it.

## Modules

`TaskList` is the intrusive list as a sequence whose last element is the root node; an
iterator is the node it points to, as in the code, so that erasing another node leaves
it valid.

`TaskRunner` is the abstract specification of the task queue: which tasks are
registered and runnable, and that a run calls registered, runnable tasks one at a time
and does not end before all that were runnable when it began have been called or
removed. It says nothing of lists or of order. `FIFORunner` is shown to implement it,
and `Scheduler`, `FdEvents` and `SignalEvents` are composed with it (`Runner ==
INSTANCE TaskRunner`) instead of with the list: this is what the refinement is for.

`FIFORunner` follows `FIFORunner.cc` statement by statement: one action for entering
`run()`, for starting a segment (inserting `queueEnd_`), for each turn of the loop
(`Dispatch`, `Skip`, `EndSegment`), for a callback returning, yielding or throwing, for
leaving a segment and leaving `run()`, and for every call a callback can make. SIGURG
and `hangCount()` are actions enabled everywhere. `due` and `ran` are history variables.

`Scheduler` is `process()` with timers, idle, file and fd events and hooks. The variable
`at` is where `process()` is. Clock and kernel timer are explicit (`now`, `armed`,
`alarm`, `readable`); `ToInt` and `InMilliseconds` are the conversions of
`PollTimerSource::timeout()`, with the width of `int` as a parameter. The timer source is
the variable `source`; it is exchanged outside of `process()` only, as `Scheduler.hh`
demands. The constant `Programs` is a set of programs, each with its events and the times
it sets timers to; a behaviour is that of one of them. This is how one run covers two
combinations of events without paying for their product.

`FdEvents` has the events of a descriptor as the sequence in which the multiset stores
them (with the operators of `TaskList`), the epoll entries with mask and data pointer,
and descriptors that become ready, hang up and become quiet at any time. A descriptor
epoll refuses goes to the file dispatcher.

`SignalEvents` has the kernel's pending signals, the signal mask, the records in the
pipe, and `BlockSignals` sections. `Loop` is the condition of the loop in `process()`:
signal events do not keep it going, so without an event of another kind `process()`
returns before it polls.

`PassiveInput` is one connection: a passive input fed by an active output. All code is
a chain of nested calls, so the state has an explicit call stack; the actions push,
pop and continue its frames. A read that unthrottles pushes the notification of the
source, then `v_unthrottleEvent()`, before it returns. The source writes at top level or
from its unthrottle callback, in bursts, throttled or not. A handler reads any number of
packets, none included: `TookNone` records that it left what it could have taken
(`HandlersTake` excludes this). An exception clears the stack and runs the `catch` block of
`enqueue()` if it is a `senf::Exception`; with `OtherExceptions` callbacks throw others too,
which the block does not catch, and `fastPacket_` is left pointing to a packet that is gone:
a read through it returns anything (`Referents`).

`PacketChannel` is what such a connection promises the two modules, without calls: packets
wait in the order they were written, a read takes the oldest and returns that packet and no
other unless an exception ends it, and a read tells the source to go on only when no more
packets than the low threshold are left. `PassiveInput` is shown to implement it: what waits
is the queue followed by the packet on the fast path, what is taken is what the reads in
progress hold. With a low threshold above 0 it does not, which is finding 2.

`PidFile` has one action per system call of `pidfileCreate()`. The directory maps names to
inodes, so that `st_nlink` is counted as the kernel does it. A process may be killed at
every step, which leaves its files, and a later process may have its pid. Every call whose
result the code looks at may fail (`Throw`): `pidfileCreate()` ends with an exception and
leaves what is there. The two that overwrite a stale file are not looked at and may do
nothing (`Truncate`, `Rewrite`).

`DaemonWatcher` has the child (`init()`, the steps of `detach()`, running as a daemon,
SIGHUP, its death at any point with any status) and the watcher inside its own
`process()`: reading a pipe, writing to each target with its own offset into the shared
buffer, the callbacks at the end of both pipes, SIGCHLD, and the timer. Output is a
sequence of numbered pieces, pipes and consoles take any number of them at a time. A
`write()` may fail for good, which ends the watcher with an exception (`WriteFails`), and a
console may break, which `writeData()` handles (`Drop`) or SIGPIPE does (`Pipe`).

`Tunnel` has the server, any number of clients, and the datagrams in flight as a set:
what is received may stay in it, which is a duplicate, and what is sent may be left out
of it, which is a loss. Time is counted in echo intervals. Faults (crash, disable,
change of address) are bounded by `MaxFaults` and end with `Stabilise`. `Timeout` is a
constant and the messages are those senf clients send; "Not modelled" says what this
leaves out.

Each module has an `MC` module with the constants of its instances. Definitions marked
"Mutant" are variants of the definition that follows them, with a plausible bug; they
are used to make sure that each property can fail.

## Runs

| Run | Checks | Shows |
|---|---|---|
| `fifo` | list and iterator invariants, `NoneForgotten`, `RunningTaskLinked`, `IndInv`, `OncePerPass`, `ImplementsTaskRunner`, `NoStarvation` | three tasks in one segment, a hook in another, everything a callback can do; the inductive invariant of the proofs |
| `sched` | `LayersAgree`, `WakeUpInTime`, `IndInv`, `TimerFires`, `TerminateReturns` | poll timeout and POSIX timer source and switching between them; SIGALRM blocked, pending, interrupting the poll; an overflowing delay; callbacks that throw; `restart()` |
| `fd` | `EpollAgrees`, `OneHandler`, `IndInv`, `NoBusyLoop`, `ReadyIsServed` | two events that share a descriptor or change it, hangups, a descriptor epoll refuses |
| `signals` | `MaskAgrees`, `NoPhantom`, `IndInv`, `SignalServed` | two signals and an event of another kind, sections, exceptions, `process()` that returns because only signal events are left |
| `ppi_input` | `NeverLost`, `TakenInOrder`, `PeerAgrees`, `Drained`, `ImplementsChannel` | default thresholds (1, 0), two routes, a module that throttles, handlers that take packets or leave them |
| `pidfile` | `NoLitter`, `ExclusiveWithoutTakeover`, `TakeoverExclusive`, `RefusedForAReason`, `StartDecides` | four starts of three processes, with exits, crashes, failing system calls and stale pid files |
| `watcher` | `LogInOrder`, `NoStrayUsr1`, `ExitReported`, `ChildReleased`, `WatcherEnds` | two pieces of output and one error message, with log files; a daemon that dies anywhere, consoles that break, writes that fail |
| `tunnel` | `AddrUnique`, `TimerCoversOldest`, `Recovers`, `Forgets` | two clients, two faults of any kind, two datagrams in flight |
| `sched_timerfd` | violates `TimerFires` | finding 1 |
| `ppi_lost` | violates `NeverLost` | finding 2 |
| `ppi_stuck` | violates `NotStuck` | finding 3 |
| `pidfile_race` | violates `AtMostOne` | finding 4 |

`IndInv` is the inductive invariant of the module's proofs. It contains the type invariant
and the parts no other property needs; the run shows that it holds before it is proved.
`IndInv` of `PassiveInput`, `PidFile`, `DaemonWatcher` and `Tunnel` held in the instances of
their runs as well, which spend their properties on the hazards: for `PidFile` with up to
five starts, for `DaemonWatcher` also without log files, with one, and with `HupEarly =
TRUE`.

### Findings

1. *timerfd source.* `TimerFDTimerSource::signal()` reads the expiration and keeps
   `timeoutEnabled_`. If a callback throws out of `process()` between that read and the
   call of the timer, the next `process()` does not set the timer again, and polls
   without end. The POSIX source clears the flag and does not have the problem. Without
   exceptions the same happens when a callback enables a timer for the very time that has
   just expired; `TimerFDPollsInTime` proves that programs which do neither are safe.
2. *Nested reads.* `InputConnector::operator()` keeps a queued packet in the member
   `slowPacket_` while it calls `v_dequeueEvent()`. With a low threshold above 0 that
   call runs the handler, whose own read overwrites the member: the outer read returns
   the inner packet a second time and its own is gone. With a low threshold of 0 and a
   high one above 1 it takes a handler that leaves a packet on the fast path as well (below).
3. *Native and remote throttling.* A packet written while only a route throttles the
   input makes the discipline set the native flag. When the route is unthrottled the
   native flag keeps the input throttled, and as no handler is called nothing will
   clear it: the queue is stuck and so is the source.
4. *Pid file.* A start reads the pid of a daemon that then exits and removes its pid file;
   a second start creates a new one and runs; the first one, still sure that the file is
   stale, links to the new file, finds two links and takes it over. Both run, whether or not
   the first can overwrite the file, since nobody looks. The link count only keeps takeovers
   apart that overlap (`TakeoverExclusive`).

### Further counterexamples

Five more configurations show what happens outside of what a passing run and its theorems
assume, or where a property has an exception. Each has one property, which TLC finds violated
within seconds.

- `PassiveInputException.cfg` (with `MCPassiveInput`), `NeverLost`: `enqueue()` saves the packet
  of a handler that throws in `catch (Exception & e)`, `Connectors.cci:260`. Exceptions that do
  not derive from `senf::Exception` pass by, the standard ones and `senf::WrapException<...>`
  (`Exception.hh:200-221`) with its subclasses among them: the packet is not queued,
  `fastPacket_` dangles, and the next write overwrites it. `Throttling.hh:50-51` says "The PPI
  will never loose a packet internally". `NeverLost` and `ImplementsChannel` hold for
  programs whose callbacks throw `senf::Exception`s only.
- `FdEventsHandle.cfg` (`MCFdEvents`), `EpollAgrees`: `FdEvent::handle()` of an enabled event
  changes the descriptor and calls `enable()` without `disable()`, `FdEvent.ct:46`, which does
  nothing for an enabled event: epoll goes on watching the old descriptor. The constant
  `HandleEnabled` is FALSE in the run `fd`.
- `DaemonWatcherHup.cfg` (`MCDaemonWatcher`), `NoStrayUsr1`: SIGHUP before `detach()` replaces
  the pipes by log files; the watcher takes this for `detach()` and sends SIGUSR1 to a
  process without a handler for it, which dies. `Daemon.hh:159-163` says that the foreground
  process will wait until `detach()` is called. The constant `HupEarly` is FALSE in the run
  `watcher`. With a log for stdout only, stderr stays a pipe and nothing happens: the
  proof of `NoStrayUsr1` needs one or the other.
- `DaemonWatcherConsole.cfg` (`MCDaemonWatcher`), `SuccessIsReal`: a console that breaks while
  the log has everything leaves the watcher with a buffer that nobody empties: it ends
  with status 0 and does not send SIGUSR1. The daemon stays in `detach()`, or has died, which
  is not reported, although `Daemon.hh:45-46` promises "an appropriate error exit code".
  `ExitReported` and `ChildReleased` except a broken console for this reason; `SuccessIsReal`
  is `ExitReported` without the exception.
- `TunnelEmpty.cfg` (`MCTunnel`), `ExpiresForClient`: a TerminateRequest removes a client and
  does not set the server's timer again. If it was the last one, the timer expires for an
  empty table, and the assertion at `TunnelController.cc:507` fails; if not, the timer may
  remove another client too early. `Recovers` says only that clients get their tunnels
  back when the server has been started again.

### Behaviour the models show and no run complains about

- A timer that is runnable and is set to a later time by another callback is called at
  once: neither `TimerDispatcher::remove()` nor `FIFORunner::dequeue()` clears `runnable_`.
- The same for descriptor events: the mask handed to a callback may contain bits that
  are no longer registered, or be empty.
- `terminate()` lets the other runnable tasks of the turn run first.
- After a `yield()` the watchdog goes on counting; a poll is counted as well until the
  next `run()` resets it.
- `SignalEvent` consumes the record of a signal before the callback is called. If another
  callback throws in between, the event stays runnable and is called by the next `run()`.
- A signal event registered inside the scope of a `BlockSignals` changes the mask the
  section relies on (constant `InSection`, FALSE in the run).
- With signal events alone `process()` returns at once (`Scheduler.cc:96-99`; `Scheduler.hh`
  says so of programs without descriptor and timer events). A signal that arrives in the
  short time it is unblocked is recorded in the pipe, and the record stays there: no
  callback is called until an event of another kind keeps the loop going.
- `hiresTimers()` called while a POSIX source is in use: the constructor of the new source
  installs the SIGALRM handler, then the destructor of the old one sets SIG_IGN. No timer
  fires any more (constant `Again`; with TRUE `WakeUpInTime` fails).
- `PollTimerSource::timeout()` converts the delay of the next timer to `int` before it asks
  whether it is negative (`TimerSource.cc:167`). A timer that is overdue by more than 2^31
  milliseconds, 24.8 days, has a delay that wraps around to a positive one, and the poll
  goes on for weeks. The proof of `WakeUpInTime` showed this; TLC shows it with
  `MaxTime = 8`, `IntLimit = 4`, `Ms = 1` and one timer next to a descriptor. In the run
  no timer is overdue by that much, and the theorem has it as a hypothesis.
- After a change from the poll timeout to another source nobody resets the poll timeout:
  the loop goes on waking up at the interval that was set last, without pause if it was 0.
- `PassiveInput` without its assumptions `ReadsFirst` and `~HandlerUnthrottles` (below) loses
  packets with the default thresholds too, by the mechanism of finding 2.
- With a high threshold above 1 (`ThresholdThrottling(2,0)`, as in `Connectors.test.cc`) and a
  handler that leaves its packet, `NeverLost` fails too: a read from the queue unthrottles the
  source, which writes; the handler leaves that packet, it is queued, and the
  `v_unthrottleEvent()` of the same read calls the handler once more, whose read from the
  queue overwrites `slowPacket_`.
  At the default threshold of 1 a packet that is left throttles the input, and nothing is
  lost: the run has such handlers, and the theorems ask for `HandlersTake` only above 1.
- A handler that takes nothing leaves its packet in the queue of an input that is not
  throttled, and nothing calls it again before the next write. `Mainpage.dox:202-203` allows
  this, `Connectors.test.cc:202-204` tests it; `Drained` excepts it (history variable `left`).
- `pidfileCreate()` refuses to start although nobody runs if the pid file disappears between
  `link()` and reading it, where it does not try again; if it finds its own pid in it; and
  for ever after a process was killed in the middle of a takeover, which leaves a third
  link or an empty file. `~Daemon()` removes the pid file whosever it is.
- `pidfileCreate()` does not remove its temporary file when it throws: when the file cannot
  be written, when `link()` fails with anything but EEXIST (or ENOENT for the second one),
  or when `stat()` or `unlink()` fails. What is left may be a further link to the pid file and
  then has the same effect as the crash above. `NoLitter` is about a `pidfileCreate()` that
  returns. A pid that could not be written to a stale file is not noticed: the daemon runs
  with an empty pid file, and the next start is refused whether it runs or not.
- `openLog()` opens the file of stdout for stderr too; the file given for stderr is used
  only after SIGHUP (`LogFile`).
- A write to a log file that fails (`Daemon.cc:764-767`, for instance on a full disk) ends the
  watcher with status 1; what it had buffered is lost, and SIGUSR1 is not sent: a daemon
  that calls `detach()` waits there for ever. SIGPIPE from a console, which the watcher does
  not ignore, has the same effect on the daemon. `ChildReleased` names both.
- Tunnel server: after a rejected set-up it modifies `clients_by_macAddr_.end()`, modelled as
  no effect or a crash; SetupReject and TerminateAck are looked up after the client was
  removed, or never filed, and so reach nobody.
- Tunnel client: `v_disable()` releases the socket before `reset()`, which sends through it
  if the tunnel is established: the program ends with an assertion. Only clients in
  `Foreign`, those of another implementation, send a TerminateRequest in the model.
- Two tunnel clients that exchange their addresses never recover: each is known, and its
  new address is on file for the other, so that neither entry is updated. `Home` gives
  clients disjoint sets of addresses; one may get an address of another that is gone.
- A tunnel timeout not longer than the echo interval makes the tunnel go down between two
  echoes (`TunnelAssumption`; nothing in the code checks it).
- Data plane of the tunnel, not modelled: `sendPkt()` queues only the first fragment of a
  frame when its queue is not empty, although its comment promises all or none.

### Bounds and environment assumptions

- `FIFORunner`: three tasks of a segment are the fewest for which one can be before, at and
  behind `next_`, and a fourth has the marker move between segments; the watchdog counters
  (`MaxTicks`, `MaxHangs`) influence nothing else. The proofs hold for any set of tasks.
- `Scheduler`: `MaxTime` is past every timeout; the clock stops there and stands for any
  later time. With `Ms = 2` and `IntLimit = 2` the conversion to `int` overflows for a timer
  at 2 that is set at 0 and does not for one set at 1. One program has a timer with an
  idle and a file event, the other a descriptor and a timer that is set to 0 (which the
  POSIX source turns into 1) or 2. Two timers of one program, with the POSIX source, were
  checked in the same way before switching was added. Event hooks (kind `"hook"`) are in
  the module and in no instance: to the loop they are idle events that do not keep it
  going. Time passes in callbacks, outside of `process()` and in the poll; the scheduler's
  own code takes none.
- `FdEvents`: two events, each registered for one of two bits; `NumEvents = 1` makes reports
  wait for a later turn. Empty masks (670,000 states), and three events of one descriptor
  without liveness, were explored as well, with the same result.
- `SignalEvents`: `MaxRaise` signals, fewer than the pipe holds. The default action of an
  unregistered signal is taken to be "ignore".
- `PassiveInput`: six packets and fourteen nested calls; eight packets and twenty calls
  were explored as well, with the same result. `ReadsFirst`: a handler reads before it
  throttles anything. `HandlerUnthrottles = FALSE`: nothing called from a handler ends a
  throttling, other than the throttling discipline, which always may. Handlers need not take
  packets (`HandlersTake = FALSE`), and throw what `enqueue()` catches (`OtherExceptions =
  FALSE`). Three packets and six nested calls are enough for the violations.
- `PidFile`: three processes are the fewest with an old daemon, a takeover and a third party;
  four starts let a pid be used again. Losing races and retries need no more.
  The failures of system calls have no bound of their own: each ends a start, or leaves
  the file as it is. The reason "the pid file was removed or replaced" of `RefusedForAReason` takes five starts
  in its general form, which its proof showed; the run has the other reasons.
- `DaemonWatcher`: two pieces of output make a buffer with two targets at different offsets;
  two of each stream (1.5 million states) were explored as well. One second of real time is
  enough for a pending SIGCHLD to be delivered (`ChildOk`).
- `Tunnel`: a timeout of two echo intervals is the shortest that survives a lost echo. Three
  faults (1.1 million states), and three addresses with a client that moves between two of
  its own (1.5 million), were explored as well, with the same result.

`pidfile`, `watcher` and `tunnel` do not check for deadlock: processes end for good, and the
number of starts and faults is bounded.

### Fairness

All liveness is about what the scheduler does while the program keeps calling it.

- Callbacks end, and the program calls `process()` again after it returned: weak fairness
  of `Process`, of the steps of `run()` and of `Return`. A program that stops refutes
  nothing.
- Strong fairness of calling a given task, since `FIFORunner` calls every due task
  (`NoneForgotten`) and throwing callbacks do not keep a task behind for ever
  (`NoStarvation`, which `fifo` checks with weak fairness of the run steps
  only). The modules above the queue assume of it what it is shown to provide.
- `Scheduler`: time passes and an expired kernel timer or an elapsed timeout ends the poll.
- `FdEvents`: epoll reports a descriptor that is ready again and again in the end. The
  kernel rotates its list of ready entries.
- `PidFile`: a process inside `pidfileCreate()` that is not killed goes on.
- `DaemonWatcher`: the watcher's loop runs, the kernel delivers SIGCHLD and SIGUSR1, and a
  `detach()` that has begun goes on. The child need not do anything else. Writes need not
  fail.
- `Tunnel`: timers expire, a crashed server is started again, and faults end: after
  `Stabilise` a datagram arrives within the interval it was sent in. Without an end of
  the faults no protocol recovers.
- `SignalEvents`: an unblocked pending signal is delivered; a readable pipe is reported in
  the end by a loop that keeps polling. That it does is the premise `[]<>(at = "poll")` of
  `SignalServed`, and is up to the program, which needs an event of another kind for it.

`NoStarvation` is stated for the tasks no other outranks. A task of a higher priority whose
callback always throws or yields starves the lower ones by design.

## Proofs

Each component's theorems are in a module of their own. They hold for every value of the
constants that satisfies the named assumption of the component's module, that is for any
number of tasks, events, packets, processes, clients and steps; the bounds of the runs are
parameters like the others. Where a theorem has a further hypothesis, the code violates the
property, or one its proof rests on, without it; the findings, "Further
counterexamples" or "Behaviour the models show" say how.

| Module | Theorem | Statement | Hypotheses |
|---|---|---|---|
| `FIFORunnerProofs` | `Invariance` | `Spec => []IndInv` | |
| | `TypeCorrect` | `Spec => []TypeOK` | |
| | `ListSafe` | `Spec => [](ListWellFormed /\ SegmentsSorted)` | |
| | `IteratorSafe` | `Spec => []NextInRange` | |
| | `NothingForgotten` | `Spec => []NoneForgotten` | |
| | `WatchdogSafe` | `Spec => []RunningTaskLinked` | |
| | `CalledOnce` | `Spec => OncePerPass` | |
| | `Refinement` | `Spec => ImplementsTaskRunner` | |
| `SchedulerProofs` | `Invariance` | `Spec => []IndInv` | |
| | `TimeoutsAgree` | `Spec => []LayersAgree` | |
| | `PollsInTime` | `Spec => []WakeUpInTime` | poll and POSIX source, `hiresTimers()` not called twice, `MaxTime <= IntLimit * Ms` |
| | `TimerFDPollsInTime` | `Init /\ [][OrderlyNext]_vars => []WakeUpInTime` | timerfd source, `MaxTime <= IntLimit * Ms`; `OrderlyNext` is a step in which no callback throws and no timer is set to an expired time of the source |
| `FdEventsProofs` | `Invariance` | `Spec => []IndInv` | `handle()` of disabled events only |
| | `EpollInStep` | `Spec => []EpollAgrees` | the same |
| | `SingleHandler` | `Spec => []OneHandler` | the same |
| | `NeverSpins` | `Spec => NoBusyLoop` | the same |
| `SignalEventsProofs` | `Invariance` | `Spec => []IndInv` | |
| | `CallsAccounted` | `Spec => []NoPhantom` | |
| | `MaskCorrect` | `Spec => []MaskAgrees` | no registration inside a `BlockSignals` section |
| `PassiveInputProofs` | `Invariance` | `Spec => []IndInv` | low threshold 0, `ReadsFirst`, `~HandlerUnthrottles`, `~OtherExceptions`, high threshold at most 1 or `HandlersTake` |
| | `PacketsKept` | `Spec => []NeverLost` | the same |
| | `OrderKept` | `Spec => []TakenInOrder` | the same |
| | `SourceInStep` | `Spec => []PeerAgrees` | the same |
| | `QueueDrained` | `Spec => []Drained` | the same |
| | `ChannelRefined` | `Spec => ImplementsChannel` | the same |
| `PidFileProofs` | `Invariance` | `Spec => []IndInv` | |
| | `LeavesNoLitter` | `Spec => []NoLitter` | |
| | `LinkExcludes` | `Spec => []ExclusiveWithoutTakeover` | |
| | `LinkCountExcludes` | `Spec => []TakeoverExclusive` | |
| | `RefusalJustified` | `Spec => RefusedForAReason` | |
| `TunnelProofs` | `Invariance` | `Spec => []IndInv` | |
| | `AddressesUnique` | `Spec => []AddrUnique` | |
| | `TimerInTime` | `Spec => []TimerCoversOldest` | |
| `DaemonWatcherProofs` | `Invariance` | `Spec => []IndInv` | |
| | `TypeCorrect` | `Spec => []TypeOK` | |
| | `DeathReported` | `Spec => []ExitReported` | |
| | `Usr1Expected` | `Spec => []NoStrayUsr1` | no SIGHUP before `detach()`, or no log for stderr |
| | `LogsInOrder` | `Spec => []LogInOrder` | no SIGHUP before `detach()` |

`FIFORunnerProofs` begins with the lemmas about the list: `Before` is a strict total order on
its nodes, and what erasing, inserting and splicing do to it. The rest of that module does
not look at positions.

The arguments, by component:

- *Task queue.* No invariant is inductive alone. That `next` stays in range when a callback
  removes the task it points to needs the list to be well formed and that task to have a
  successor inside the segment; that no due task is passed over needs `next` to be in range
  and the segments to be sorted, since a due task has to lie between `next` and the marker
  of its own segment; that a task is called once needs `HistoryAgrees`: what was called is
  behind the marker. The refinement maps `linked` to the nodes of the list that are tasks
  and `active` to the values of `pc` inside `run()`; its step lemma uses `NoneForgotten` for
  `Finish`. All of it is in terms of the order `Before` and never of positions. The only
  assumption is `FIFORunnerAssumption`: tasks are not sentinels, `Null` is no node,
  priorities are priorities.
- *Scheduler.* `WakeUpInTime` speaks of the poll, but what makes it true happens before:
  `reschedule()` skips a timer source that believes its timeout is set. `SourceBelieves`
  says that such a belief is right, whoever interrupts (the kernel timer runs, or its
  expiration is still to be seen), and `Arranged` what a poll begins with, from the end of
  `reschedule()` on, whatever the kernel timer does until then. `LayersAgree` is
  inductive with the types, since each layer saves and restores the one below. The timerfd
  source goes on to believe in a timeout whose expiration it has read. `TimerFDInv`, which
  TLC checked with two timers and a descriptor (793,000 states), says why this does no harm
  in an orderly program: the timers the expiration was for are owed a call before the next
  `reschedule()` (`Seen`, `Owed`), a called timer is disabled, and so no enabled timer has
  that time when the belief is asked for again.
- *Descriptor events.* `EpollAgrees` is about the first event of a range and the union of the
  masks; both change when one of several events is removed from the middle, so `Placed`
  says that the range of a descriptor holds its enabled events, each once. This is for any
  number of events of a descriptor, which the run has two of. `NoBusyLoop` follows from
  `EpollAgrees` for the state before the step.
- *Signal events.* `NoPhantom` counts calls, records in the pipe and runnable events; it
  needs `RegisteredOnce`, or one record could make two events runnable. The mask needs to
  know what a section will restore (`SectionKeepsMask`).
- *Connection.* The calls in progress are a stack, and everything is about what may be below
  what. `WellNested` says who calls whom, and that whatever a read leads to concerns
  packets on the fast path and no second read from the queue: this is what keeps
  `slowPacket_` from being overwritten, and why the low threshold has to be 0 (finding 2).
  `FastAlone` and `FastCallback` say that a packet on the fast path is the only one and has
  its writer's call on top of the stack, or the handler it was given to, or was left by that
  handler in an input that is throttled or about to be (which is where the high threshold
  matters); an exception that is caught moves it to the queue. `LoopProgress` says that
  the loop of `v_unthrottleEvent()` does not stop early, unless a handler took nothing; `Draining` that what is queued in
  an open input is the business of the loop at the bottom of the stack. With these
  (`ControlInv`), `DataInv` says where the packets are: in the queue in order, in exactly one
  read (`HeldOnce`), returned or lost in an exception, those taken older than those left.
  `PeerAgrees` is proved as an equality in every state, in the middle of nested calls too.
  The refinement needs both halves: a read maps to `Read` because what it takes is the head
  of what waits, which on the fast path is `FastAlone`; it returns what it took because no
  nested read overwrites `slowPacket_`; every other step leaves waiting and taken packets
  alone.
- *Pid file.* `TakeoverExclusive` follows from the link count only if an inode with two names
  has no third one, and if two processes that overwrite the same file know that it is not
  the pid file any more (`OverwriteExclusive`). `OwnerExclusive` is the same for `link()` as
  long as nobody took the file for stale. `EmptyFiles` finds the process to blame for a
  file without a pid, which `RefusedForAReason` asks for: a process that is about to write
  it, one that died or left with an exception, or a write nobody looked at (`unwritten`).
  Cardinalities of finite sets are
  those of `FiniteSetTheorems`.
- *Tunnel.* The two invariants are inductive with the types. The work is in the timer, which
  some steps set from the oldest entry of the table and others leave alone: removing a
  client may leave it early and never late.
- *Daemon and watcher.* Each of the three invariants compares what the two processes know.
  `ForwarderInv` says of each stream that exactly those targets wait to write that have not
  written the whole buffer, that the log is never dropped, and that a closed pipe is one
  whose end was read with everything forwarded. `ReportInv` follows both closed pipes: the
  watcher then has sent SIGUSR1, once, and waits for its timer, or it has ended with the
  status of the child. `HandlerInv` is where SIGHUP matters: a child that has not called
  `detach()` still has the pipe as its stderr, so that stream cannot be closed. `LogInOrder`
  needs `DataInv`: what is in the log, what the log's part of the buffer still holds and what
  is in the pipe follow each other without a gap and without a repetition (`NoGap`), and the
  daemon writes to the file itself only when nothing is left in the last two. These parts
  hold for any `HupEarly`, `DataInv` and `HandlerInv` under the hypotheses of the table, which
  they contain as premises.

Only model-checked: all liveness (the prover has no ENABLED and no fairness) - `NoStarvation`,
`TimerFires`, `TerminateReturns`, `ReadyIsServed`, `SignalServed`, `StartDecides`,
`ChildReleased`, `WatcherEnds`, `Recovers`, `Forgets`. Every invariant and action property that
a passing run checks is proved, `ImplementsTaskRunner` and `ImplementsChannel` included.

## Plan

1. Done: `TaskList`, `TaskRunner`, `FIFORunner`; `Scheduler` with exchange of the timer
   source; `FdEvents`; `SignalEvents`; `PassiveInput`; `PidFile`; `DaemonWatcher`; `Tunnel`,
   all with proofs of their invariants.
2. Next, in this order: `connect()`, `disconnect()` and `v_init()` with the module
   manager's initialisation queue; forwarding routes and a graph of modules, composed
   from `PassiveInput` and its counterpart for passive outputs; `PassiveQueue` and the
   joins on that graph; `ReadHelper`, `WriteHelper` and `TimerEventProxy` on
   `Scheduler`; the data plane of the tunnel.
3. Abstract specifications worth stating: a timer service that calls each timer once and
   not before a time it was set to, which `Scheduler` implements for the poll source; a
   graph of `PacketChannel`s, for the modules of item 2 to be composed with instead of with
   `PassiveInput`.
4. Theorems: the invariants of these modules, from that of `PacketChannel`.

## Not modelled

Most lines of the repository are of a kind there is nothing to model in: a vendored part of
Boost, headers of kernel interfaces, packet layouts, and templates that wrap system calls
in types. What has state, a protocol or concurrency is listed above; the rest is:

- Packets: headers chained over one buffer; sequential, and mostly templates and layout.
- Sockets: typed wrappers of system calls.
- Console, logger, termlib, statistics: text, terminals and floating-point numbers.
- NetEmu, other than the tunnel's control protocol: interfaces of hardware and kernel.
- Of the tunnel's control protocol: `timeout(t)` at run time (`TunnelController.cc:307-311`,
  a console command, `TunnelInterface.cc:219-220`), which does not set the server's timer
  again, so that after a shorter timeout it expires too late, `TimerCoversOldest` to the
  contrary, until the next message of a client; the SetupReject for a request without
  capacity (433-437) and the server's answers to acks, which senf clients do not cause.
- Debugging and analysis modules of the PPI: no protocol of their own.
- The event manager and the console directory of the scheduler: listings.
