--------------------------- MODULE DaemonWatcher ----------------------------
(***************************************************************************)
(* The start of a daemon in the background (Utils/Daemon/Daemon.cc): after *)
(* fork() the parent becomes the DaemonWatcher, which forwards the child's *)
(* output from two pipes to the console and to the log files, until the    *)
(* child calls detach().  The child closes the pipes and waits for SIGUSR1, *)
(* which the watcher sends when all output has been forwarded; from then   *)
(* on the child writes to the log files itself.  The watcher stays for one *)
(* second more and passes on the child's exit status if it dies.           *)
(***************************************************************************)
EXTENDS Integers, SequencesExt

CONSTANTS
  stdoutLog,  \* stdoutLog_, stderrLog_: the log file names; None if empty
  stderrLog,
  None,
  HupEarly,   \* SIGHUP may arrive before detach() has replaced stdout and stderr
  MaxOut      \* bound of the pieces of output, for each stream

Stream == {"out", "err"}

\* openLog(): the file descriptor opened for a stream.  Either branch for stderr
\* opens (or duplicates) the file of stdout.
LogFile(s) ==
  IF s = "out" THEN stdoutLog ELSE IF stderrLog = None THEN None ELSE stdoutLog

ASSUME WatcherAssumption ==
  /\ MaxOut \in [Stream -> Nat] /\ HupEarly \in BOOLEAN
  /\ stderrLog # None => stdoutLog # None    \* otherwise openLog() throws
  /\ "pipe" \notin {stdoutLog, stderrLog, None}
  /\ None \notin {"0", "1", "signal", "init", "blocked", "suspended", "daemon", "zombie", "dead"}

\* addTarget() in the constructor of the watcher.
Target(s) == {"console"} \cup (IF LogFile(s) = None THEN {} ELSE {"log"})

VARIABLES
  child,     \* where the child is
  status,    \* what it ended with
  fd,        \* what its stdout and stderr are: "pipe", a log file, or None: /dev/null
  usr1,      \* SIGUSR1 is pending for the child
  written,   \* pieces of output the child has written
  pipe,      \* contents of the pipes
  log,       \* contents of the log files and of the consoles
  console,
  broken,    \* streams whose console has gone away
  watcher,   \* "run", "terminate", or what it ended with
  src,       \* Forwarder: src_ # -1, its read event is enabled
  buffer,    \* Forwarder::buffer_
  offset,    \* Forwarder::targets_, each with its offset
  writing,   \* targets whose write event is enabled
  closed,    \* coutpipe_, cerrpipe_ = -1
  sigChld,   \* sigChld_
  chld,      \* SIGCHLD is pending for the watcher
  timer,     \* timer_ is set
  sentTo,    \* history: where the child was when SIGUSR1 was sent
  released   \* history: the child has left detach()

childVars == <<child, status, fd, usr1, written, released>>
forwarderVars == <<src, buffer, offset, writing>>
watcherVars == <<watcher, closed, sigChld, chld, timer, sentTo>>
outputVars == <<log, console>>
vars == <<childVars, pipe, outputVars, broken, watcherVars, forwarderVars>>

Files == {stdoutLog, stderrLog} \ {None}

\* fork(): both processes run, the watcher inside scheduler::process().
Init ==
  /\ child = "init" /\ status = None /\ usr1 = FALSE /\ released = FALSE
  /\ fd = [s \in Stream |-> "pipe"]
  /\ written = [s \in Stream |-> 0]
  /\ pipe = [s \in Stream |-> <<>>]
  /\ log = [f \in Files |-> <<>>] /\ console = [s \in Stream |-> <<>>]
  /\ broken = {}
  /\ watcher = "run"
  /\ src = [s \in Stream |-> TRUE] /\ buffer = [s \in Stream |-> <<>>]
  /\ offset = [s \in Stream |-> [t \in Target(s) |-> 0]]
  /\ writing = [s \in Stream |-> {}]
  /\ closed = [s \in Stream |-> FALSE]
  /\ sigChld = FALSE /\ chld = FALSE /\ timer = FALSE /\ sentTo = None

-----------------------------------------------------------------------------
(***************************************************************************)
(* The child.                                                              *)
(***************************************************************************)

Ended == {"zombie", "dead"}

\* The write end of a pipe is open.
HasPipe(s) == child \notin Ended /\ fd[s] = "pipe"

\* SIGUSR1 has its handler.
Handled == {"blocked", "suspended"}

\* The watcher reads the pipes.
Watching == watcher \in {"run", "terminate"}

\* The child writes a piece of output, in init() or as a daemon; SIGPIPE is ignored.
Output(s) ==
  /\ child \in {"init", "daemon"} /\ written[s] < MaxOut[s]
  /\ LET piece == <<s, written[s] + 1>>
     IN  /\ log' = [f \in Files |-> IF f = fd[s] THEN Append(log[f], piece) ELSE log[f]]
         /\ pipe' = IF fd[s] = "pipe" /\ Watching
                    THEN [pipe EXCEPT ![s] = Append(@, piece)] ELSE pipe
  /\ written' = [written EXCEPT ![s] = @ + 1]
  /\ UNCHANGED <<child, status, fd, usr1, released, console, broken, watcherVars, forwarderVars>>

\* Mutant: the pipes are closed before SIGUSR1 is blocked and has its handler.
DetachLate ==
  /\ child = "init"
  /\ IF \E s \in Stream : fd[s] = "pipe"
     THEN fd' = [s \in Stream |-> LogFile(s)] /\ UNCHANGED child
     ELSE child' = "suspended" /\ UNCHANGED fd
  /\ UNCHANGED <<status, usr1, written, released, pipe, outputVars, broken, watcherVars,
                 forwarderVars>>

\* Replaces stdout, then stderr, and closes the pipes.
Redirect(s) ==
  /\ child = "blocked" /\ fd[s] # LogFile(s) /\ (s = "err" => fd["out"] = LogFile("out"))
  /\ fd' = [fd EXCEPT ![s] = LogFile(s)]
  /\ UNCHANGED child

\* Mutant: SIGUSR1 is not blocked and may come before sigsuspend(), which waits for
\* the next one.
DetachUnblocked ==
  /\ \/ child = "init" /\ child' = "blocked" /\ UNCHANGED <<fd, usr1>>
     \/ \E s \in Stream : Redirect(s) /\ UNCHANGED usr1
     \/ child = "blocked" /\ (\A s \in Stream : fd[s] = LogFile(s))
        /\ child' = "suspended" /\ usr1' = FALSE /\ UNCHANGED fd
  /\ UNCHANGED <<status, written, released, pipe, outputVars, broken, watcherVars,
                 forwarderVars>>

\* detach(): SIGUSR1 is blocked and its handler installed, then stdout and stderr are
\* replaced and sigsuspend() waits for SIGUSR1.
Detach ==
  /\ \/ child = "init" /\ child' = "blocked" /\ UNCHANGED fd
     \/ \E s \in Stream : Redirect(s)
     \/ child = "blocked" /\ (\A s \in Stream : fd[s] = LogFile(s))
        /\ child' = "suspended" /\ UNCHANGED fd
  /\ UNCHANGED <<status, usr1, written, released, pipe, outputVars, broken, watcherVars,
                 forwarderVars>>

\* SIGUSR1 has arrived: the signal mask and the old handler are restored.
Resume ==
  /\ child = "suspended" /\ usr1
  /\ child' = "daemon" /\ usr1' = FALSE /\ released' = TRUE
  /\ UNCHANGED <<status, fd, written, pipe, outputVars, broken, watcherVars, forwarderVars>>

\* logReopen(), the handler of SIGHUP.
LogReopen ==
  /\ child \notin Ended
  /\ HupEarly \/ child \in {"suspended", "daemon"}
  /\ fd' = [s \in Stream |->
              LET f == IF s = "out" THEN stdoutLog ELSE stderrLog
              IN  IF f = None THEN fd[s] ELSE f]
  /\ UNCHANGED <<child, status, usr1, written, released, pipe, outputVars, broken, watcherVars,
                 forwarderVars>>

\* The child exits or is killed, which closes its pipes ...
Die ==
  /\ child \notin Ended
  /\ child' = "zombie"
  /\ status' \in {"0", "1", "signal"}
  /\ UNCHANGED <<fd, usr1, written, released, pipe, outputVars, broken, watcherVars,
                 forwarderVars>>

\* ... and sends SIGCHLD to the watcher, which has had it blocked since before fork().
Notify ==
  /\ child = "zombie"
  /\ child' = "dead" /\ chld' = TRUE
  /\ UNCHANGED <<status, fd, usr1, written, released, pipe, outputVars, broken, watcher,
                 closed, sigChld, timer, sentTo, forwarderVars>>

\* The reader of the console goes away.
Break(s) ==
  /\ s \notin broken /\ Watching
  /\ broken' = broken \cup {s}
  /\ UNCHANGED <<childVars, pipe, outputVars, watcherVars, forwarderVars>>

-----------------------------------------------------------------------------
(***************************************************************************)
(* The watcher.                                                            *)
(***************************************************************************)

\* childDied(): the watcher ends the way the child did, and an exit before the
\* daemon was ready is never a success.
ChildDied == watcher' = IF status = "0" THEN "127" ELSE status

\* kill(childPid_, SIGUSR1): kills a child that has no handler for it.
SendUsr1 ==
  /\ sentTo' = child
  /\ usr1' = (usr1 \/ child \in Handled)
  /\ IF child \in Handled \cup Ended
     THEN UNCHANGED <<child, status>>
     ELSE child' = "zombie" /\ status' = "signal"

\* Mutant: one closed pipe is enough.
PipeClosedEither(s) ==
  /\ closed' = [closed EXCEPT ![s] = TRUE]
  /\ IF sigChld
     THEN ChildDied /\ UNCHANGED <<timer, sentTo, usr1, child, status>>
     ELSE SendUsr1 /\ timer' = TRUE /\ UNCHANGED watcher

\* pipeClosed(id), called when a pipe is at its end and all of it has been written.
PipeClosed(s) ==
  LET both == \A r \in Stream \ {s} : closed[r]
  IN  /\ closed' = [closed EXCEPT ![s] = TRUE]
      /\ \/ ~both /\ UNCHANGED <<watcher, timer, sentTo, usr1, child, status>>
         \/ both /\ sigChld /\ ChildDied /\ UNCHANGED <<timer, sentTo, usr1, child, status>>
         \/ both /\ ~sigChld /\ SendUsr1 /\ timer' = TRUE /\ UNCHANGED watcher

\* cb_(), if it is called.
CallBack(s, called) ==
  IF called THEN PipeClosed(s)
            ELSE UNCHANGED <<closed, watcher, timer, sentTo, usr1, child, status>>

\* Mutant: the end of the pipe is not noticed.
ReadDataNoEnd(s) ==
  /\ Watching /\ src[s]
  /\ pipe[s] # <<>>
  /\ pipe' = [pipe EXCEPT ![s] = <<>>]
  /\ buffer' = [buffer EXCEPT ![s] = @ \o pipe[s]]
  /\ writing' = [writing EXCEPT ![s] = DOMAIN offset[s]]
  /\ UNCHANGED <<src, offset, outputVars, broken, childVars, watcherVars>>

\* Forwarder::readData(): what has been read is dropped if there is no target left.
ReadData(s) ==
  /\ Watching /\ src[s]
  /\ \/ \E n \in 1..Len(pipe[s]) :
          /\ pipe' = [pipe EXCEPT ![s] = SubSeq(@, n + 1, Len(@))]
          /\ LET targets == DOMAIN offset[s]
             IN  /\ buffer' = [buffer EXCEPT ![s] =
                                 IF targets = {} THEN @ ELSE @ \o SubSeq(pipe[s], 1, n)]
                 /\ writing' = [writing EXCEPT ![s] =
                                  @ \cup {t \in targets : offset[s][t] >= Len(buffer[s])}]
          /\ CallBack(s, FALSE) /\ UNCHANGED src
     \/ /\ pipe[s] = <<>> /\ ~HasPipe(s)
        /\ CallBack(s, buffer[s] = <<>>)
        /\ src' = [src EXCEPT ![s] = FALSE]
        /\ UNCHANGED <<pipe, buffer, writing>>
  /\ UNCHANGED <<offset, outputVars, broken, fd, written, released, sigChld, chld>>

\* Forwarder::writeData() with an error event: the target is removed.
Drop(s) ==
  /\ Watching /\ "console" \in writing[s] /\ s \in broken
  /\ LET left == DOMAIN offset[s] \ {"console"}
     IN  /\ offset' = [offset EXCEPT ![s] = [t \in left |-> offset[s][t]]]
         /\ CallBack(s, left = {} /\ ~src[s])
  /\ writing' = [writing EXCEPT ![s] = @ \ {"console"}]
  /\ UNCHANGED <<pipe, buffer, src, outputVars, broken, fd, written, released, sigChld, chld>>

\* The console goes away between the poll and the write(): SIGPIPE.
Pipe(s) ==
  /\ Watching /\ "console" \in writing[s] /\ s \in broken
  /\ watcher' = "killed"
  /\ UNCHANGED <<childVars, pipe, outputVars, broken, closed, sigChld, chld, timer, sentTo,
                 forwarderVars>>

\* Forwarder::writeData(), the write() to a target fails, the disk being full or broken:
\* the exception leaves process(), and start() returns 1.
WriteFails(s) ==
  /\ Watching /\ writing[s] # {}
  /\ watcher' = "failed"
  /\ UNCHANGED <<childVars, pipe, outputVars, broken, closed, sigChld, chld, timer, sentTo,
                 forwarderVars>>

\* What a target gets.
Put(s, t, data) ==
  IF t = "console"
  THEN console' = [console EXCEPT ![s] = @ \o data] /\ UNCHANGED log
  ELSE log' = [log EXCEPT ![LogFile(s)] = @ \o data] /\ UNCHANGED console

\* Forwarder::writeData(): part of the buffer is written to a target, and what all
\* targets have written is removed from the buffer.
WriteData(s, t) ==
  /\ Watching /\ t \in writing[s] /\ (t = "console" => s \notin broken)
  /\ \E w \in 1..(Len(buffer[s]) - offset[s][t]) :
       LET from == offset[s][t]
           now == [offset[s] EXCEPT ![t] = @ + w]
           n == Min({now[u] : u \in DOMAIN now})
       IN  /\ Put(s, t, SubSeq(buffer[s], from + 1, from + w))
           /\ buffer' = [buffer EXCEPT ![s] = SubSeq(@, n + 1, Len(@))]
           /\ offset' = [offset EXCEPT ![s] = [u \in DOMAIN now |-> now[u] - n]]
           /\ writing' = [writing EXCEPT ![s] =
                            IF now[t] - n >= Len(buffer'[s]) THEN @ \ {t} ELSE @]
           /\ CallBack(s, ~src[s] /\ buffer'[s] = <<>>)
  /\ UNCHANGED <<pipe, src, broken, fd, written, released, sigChld, chld>>

\* Mutant: a death after the pipes have been closed is noted and no more.
SigChldNoted ==
  /\ Watching /\ chld
  /\ chld' = FALSE /\ sigChld' = TRUE
  /\ UNCHANGED <<childVars, pipe, outputVars, broken, watcher, closed, timer, sentTo,
                 forwarderVars>>

\* sigChld()
SigChld ==
  /\ Watching /\ chld
  /\ chld' = FALSE /\ sigChld' = TRUE
  /\ IF \A s \in Stream : closed[s] THEN ChildDied ELSE UNCHANGED watcher
  /\ UNCHANGED <<childVars, pipe, outputVars, broken, closed, timer, sentTo, forwarderVars>>

\* childOk() calls terminate().  One second is enough for the SIGCHLD of a child that
\* was dead when the timer was set.
ChildOk ==
  /\ watcher = "run" /\ timer
  /\ sentTo \in Ended => sigChld
  /\ timer' = FALSE /\ watcher' = "terminate"
  /\ UNCHANGED <<childVars, pipe, outputVars, broken, closed, sigChld, chld, sentTo,
                 forwarderVars>>

\* process() returns, after terminate() or because no descriptor event and no timer
\* is left, and the watcher ends with _exit(0).
Leave ==
  /\ \/ watcher = "terminate"
     \/ watcher = "run" /\ ~timer /\ \A s \in Stream : ~src[s] /\ writing[s] = {}
  /\ watcher' = "0"
  /\ UNCHANGED <<childVars, pipe, outputVars, broken, closed, sigChld, chld, timer, sentTo,
                 forwarderVars>>

-----------------------------------------------------------------------------
Forward == \E s \in Stream : ReadData(s) \/ Drop(s) \/ \E t \in writing[s] : WriteData(s, t)

Next ==
  \/ \E s \in Stream : Output(s) \/ Break(s) \/ Pipe(s) \/ WriteFails(s)
  \/ Detach \/ Resume \/ LogReopen \/ Die \/ Notify
  \/ Forward \/ SigChld \/ ChildOk \/ Leave

Spec == Init /\ [][Next]_vars

\* The watcher runs, the kernel delivers signals, and detach() goes on.
FairSpec ==
  /\ Spec
  /\ WF_vars(Forward) /\ WF_vars(SigChld) /\ WF_vars(ChildOk) /\ WF_vars(Leave)
  /\ WF_vars(Notify) /\ WF_vars(Resume) /\ WF_vars(child # "init" /\ Detach)

-----------------------------------------------------------------------------
(***************************************************************************)
(* Properties.                                                             *)
(***************************************************************************)

Piece == Stream \X Nat

\* Type invariant.
TypeOK ==
  /\ child \in {"init", "blocked", "suspended", "daemon"} \cup Ended
  /\ status \in {None, "0", "1", "signal"} /\ (status = None <=> child \notin Ended)
  /\ fd \in [Stream -> Files \cup {"pipe", None}]
  /\ usr1 \in BOOLEAN /\ released \in BOOLEAN
  /\ written \in [Stream -> Nat] /\ \A s \in Stream : written[s] <= MaxOut[s]
  /\ pipe \in [Stream -> Seq(Piece)] /\ buffer \in [Stream -> Seq(Piece)]
  /\ console \in [Stream -> Seq(Piece)] /\ log \in [Files -> Seq(Piece)]
  /\ DOMAIN offset = Stream
  /\ \A s \in Stream : /\ DOMAIN offset[s] \subseteq Target(s)
                       /\ \A t \in DOMAIN offset[s] : offset[s][t] \in 0..Len(buffer[s])
  /\ writing \in [Stream -> SUBSET {"console", "log"}]
  /\ broken \subseteq Stream
  /\ watcher \in {"run", "terminate", "0", "1", "127", "signal", "killed", "failed"}
  /\ src \in [Stream -> BOOLEAN] /\ closed \in [Stream -> BOOLEAN]
  /\ sigChld \in BOOLEAN /\ chld \in BOOLEAN /\ timer \in BOOLEAN

\* The pieces of every stream in q are in the order in which they were written.
InOrder(q) ==
  \A i, j \in 1..Len(q) : i < j /\ q[i][1] = q[j][1] => q[i][2] < q[j][2]

\* All of stream s is in the log files.
Complete(s) == \A n \in 1..written[s] : \E f \in Files : Contains(log[f], <<s, n>>)

\* What the suspension in detach() is for: although the watcher and later the daemon
\* write to the same log files, every stream is in them in the order in which it was
\* written, and nothing is missing once the daemon runs or its death was reported.
LogInOrder ==
  /\ \A f \in Files : InOrder(log[f])
  /\ released \/ watcher \in {"1", "127", "signal"} =>
       \A s \in Stream : LogFile(s) # None => Complete(s)

\* SIGUSR1 is sent at most once, and never to a child that would die of it: both
\* pipes are closed only when detach() has installed the handler.
NoStrayUsr1 == sentTo \notin {"init", "daemon"}

\* A child that was dead before it got its SIGUSR1 is not reported as started, however
\* SIGCHLD and the ends of the two pipes are ordered.
ExitReported == watcher = "0" => broken # {} \/ sentTo \notin Ended \cup {None}

\* The parts of the inductive invariant.  A target of a forwarder waits for its write
\* event as long as it has not written all of the buffer, the log file stays a target,
\* and a pipe that is reported closed is at its end, for good.  While no console breaks
\* some target is at the start of the buffer, so that the end is always reported.
ForwarderOK(s) ==
  /\ writing[s] = {t \in DOMAIN offset[s] : offset[s][t] < Len(buffer[s])}
  /\ LogFile(s) # None => "log" \in DOMAIN offset[s] /\ (closed[s] => buffer[s] = <<>>)
  /\ closed[s] => ~src[s] /\ writing[s] = {}
  /\ ~src[s] => pipe[s] = <<>> /\ ~HasPipe(s)
  /\ broken = {} => /\ \E t \in DOMAIN offset[s] : offset[s][t] = 0
                    /\ ~src[s] /\ writing[s] = {} => closed[s]
ForwarderInv == \A s \in Stream : ForwarderOK(s)

\* When both pipes are closed, either SIGUSR1 has been sent, once, and the timer is
\* set, or the watcher ends with the status of the child.
AllClosed == \A s \in Stream : closed[s]
ReportInv ==
  /\ sentTo # None => AllClosed
  /\ AllClosed /\ Watching => sentTo # None /\ ~sigChld
  /\ (usr1 \/ released \/ timer => sentTo # None) /\ (child = "daemon" => released)
  /\ watcher \in {"1", "127", "signal"} => AllClosed
  /\ watcher = "run" /\ sentTo # None => timer
  /\ watcher = "terminate" => sentTo \notin Ended \cup {None}
  /\ sigChld \/ chld => child = "dead"
  /\ ExitReported

\* In init() one pipe at least is open, unless SIGHUP replaces both.
HandlerInv ==
  ~HupEarly \/ stderrLog = None =>
    (child = "init" => fd["err"] = "pipe") /\ NoStrayUsr1

\* The pieces of stream s the log file has got from the watcher: what is in the pipe and
\* what the log file has still to write of the buffer follow them without a gap.
Forwarded(s) == written[s] - Len(pipe[s]) - (Len(buffer[s]) - offset[s]["log"])
NoGap(s) ==
  /\ \A i \in 1..Len(pipe[s]) : pipe[s][i] = <<s, written[s] - Len(pipe[s]) + i>>
  /\ \A i \in 1..Len(buffer[s]) :
       buffer[s][i] = <<s, written[s] - Len(pipe[s]) - Len(buffer[s]) + i>>
  /\ \A i \in 1..Len(log[LogFile(s)]) :
       log[LogFile(s)][i][1] = s => log[LogFile(s)][i][2] <= Forwarded(s)
  /\ \A n \in 1..Forwarded(s) : Contains(log[LogFile(s)], <<s, n>>)

\* Who writes when: the child to the pipes until detach(), the watcher to the log files
\* until SIGUSR1 is sent, then the child to the log files.
DataInv ==
  ~HupEarly =>
    /\ child = "init" => \A s \in Stream : fd[s] = "pipe"
    /\ child \in {"suspended", "daemon"} =>
         \A s \in Stream : fd[s] # "pipe" /\ (LogFile(s) # None => fd[s] \in Files)
    /\ \A f \in Files : /\ InOrder(log[f])
                        /\ \A i \in 1..Len(log[f]) : log[f][i][2] <= written[log[f][i][1]]
    /\ \A s \in Stream : LogFile(s) # None => /\ Watching /\ ~released => NoGap(s)
                                              /\ AllClosed => Complete(s)

\* The inductive invariant.
IndInv == TypeOK /\ ForwarderInv /\ ReportInv /\ HandlerInv /\ DataInv

\* What a caller of start() reads from the exit status 0: the watcher has sent SIGUSR1 to
\* a living child, whatever happens to the consoles.
SuccessIsReal == watcher = "0" => sentTo \notin Ended \cup {None}

\* detach() returns, unless the watcher ends without having sent SIGUSR1: a console has
\* broken and the end of a pipe is never reported, or a write() has failed.
ChildReleased ==
  child = "suspended" ~> \/ child # "suspended"
                         \/ ~Watching /\ sentTo = None /\ (broken # {} \/ watcher = "failed")

\* The watcher ends when the daemon is detached or dead: the shell gets its prompt.
WatcherEnds == child \in Ended \cup {"daemon"} ~> ~Watching

=============================================================================
