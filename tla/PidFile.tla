------------------------------ MODULE PidFile -------------------------------
(***************************************************************************)
(* The pid file of senf::Daemon (Utils/Daemon/Daemon.cc): pidfileCreate(), *)
(* run by several processes that start at the same time, and the removal   *)
(* in ~Daemon().  Every system call is a step of its own.  The directory   *)
(* maps names to inodes, so that hard links and their count are what they  *)
(* are in the file system.  A process may die at every step, and a system  *)
(* call may fail and end pidfileCreate() with an exception; both leave the *)
(* files behind, and the pid may be used again by a later start.           *)
(***************************************************************************)
EXTENDS Integers, FiniteSets

CONSTANTS
  Pid,        \* process ids; each has its own temporary file name
  Inode,      \* inodes of the file system
  Null,
  MaxStarts   \* bound of the number of starts

ASSUME PidFileAssumption ==
  /\ IsFiniteSet(Pid) /\ IsFiniteSet(Inode) /\ Null \notin Pid \cup Inode
  /\ "pidfile" \notin Pid
  /\ MaxStarts \in Nat
  /\ Cardinality(Inode) > Cardinality(Pid)

VARIABLES
  pc,       \* where a process is; "none": there is no such process
  dir,      \* the directory: inode of the pid file and of each temporary file
  content,  \* the pid in an inode; Null: empty
  oldPid,   \* old_pid of a process
  starts,   \* number of starts so far
  crashed,  \* history: pids that died in pidfileCreate() or left it with an exception
  stale,    \* history: some process has taken the pid file for stale
  unwritten \* history: a pid could not be written to a pid file taken over

vars == <<pc, dir, content, oldPid, starts, crashed, stale, unwritten>>

Name == {"pidfile"} \cup Pid

\* st_nlink of an inode.
Nlink(i) == Cardinality({n \in Name : dir[n] = i})

\* kill(p, 0) >= 0; also for a process that is about to end.
Alive(p) == pc[p] # "none"

\* The steps of pidfileCreate().
Creating == {"open", "write", "link", "stat", "unlinkCreated", "read", "kill",
             "unlinkRefused", "unlinkStale", "relink", "restat", "truncate", "rewrite", "unlinkTaken"}

Init ==
  /\ pc = [p \in Pid |-> "none"]
  /\ dir = [n \in Name |-> Null]
  /\ content = [i \in Inode |-> Null]
  /\ oldPid = [p \in Pid |-> Null]
  /\ starts = 0 /\ crashed = {} /\ stale = FALSE /\ unwritten = FALSE

Go(p, to) == pc' = [pc EXCEPT ![p] = to]
KeepsFiles == UNCHANGED <<dir, content>>
KeepsHistory == UNCHANGED <<starts, crashed, stale, unwritten>>

\* unlink(); the inode is given back with its last name.
Unlink(n) ==
  /\ dir' = [dir EXCEPT ![n] = Null]
  /\ content' = [i \in Inode |-> IF \E m \in Name \ {n} : dir[m] = i
                                 THEN content[i] ELSE Null]

-----------------------------------------------------------------------------
(***************************************************************************)
(* pidfileCreate().                                                        *)
(***************************************************************************)

\* start() reaches pidfileCreate(); the pid may be that of an earlier process.
Start(p) ==
  /\ pc[p] = "none" /\ starts < MaxStarts
  /\ Go(p, "open")
  /\ starts' = starts + 1
  /\ crashed' = crashed \ {p}
  /\ UNCHANGED <<dir, content, oldPid, stale, unwritten>>

\* An inode no name refers to.
FreshInode == CHOOSE i \in Inode : Nlink(i) = 0

\* The output stream opens the temporary file, which creates or truncates it.
Open(p) ==
  /\ pc[p] = "open"
  /\ Go(p, "write")
  /\ LET i == IF dir[p] = Null THEN FreshInode ELSE dir[p]
     IN  /\ dir' = [dir EXCEPT ![p] = i]
         /\ content' = [content EXCEPT ![i] = Null]
  /\ UNCHANGED oldPid /\ KeepsHistory

Write(p) ==
  /\ pc[p] = "write"
  /\ Go(p, "link")
  /\ content' = [content EXCEPT ![dir[p]] = p]
  /\ UNCHANGED <<dir, oldPid>> /\ KeepsHistory

\* Mutant: the pid file is replaced as rename() would.
LinkReplaces(p) ==
  /\ pc[p] = "link"
  /\ Go(p, "stat")
  /\ dir' = [dir EXCEPT !["pidfile"] = dir[p]]
  /\ UNCHANGED <<content, oldPid>> /\ KeepsHistory

\* link(tempname, pidfile_), which fails with EEXIST if the pid file exists.
Link(p) ==
  /\ pc[p] = "link"
  /\ IF dir["pidfile"] = Null
     THEN Go(p, "stat") /\ dir' = [dir EXCEPT !["pidfile"] = dir[p]]
     ELSE Go(p, "read") /\ UNCHANGED dir
  /\ UNCHANGED <<content, oldPid>> /\ KeepsHistory

\* stat(tempname) after the link; the link count decides what will be returned.
Stat(p) ==
  /\ pc[p] = "stat"
  /\ Go(p, IF Nlink(dir[p]) = 2 THEN "unlinkCreated" ELSE "unlinkRefused")
  /\ UNCHANGED oldPid /\ KeepsFiles /\ KeepsHistory

\* Mutant: pidfileCreate() returns and leaves the temporary file.
ReturnNoUnlink(p) ==
  /\ pc[p] \in {"unlinkCreated", "unlinkTaken", "unlinkRefused"}
  /\ Go(p, IF pc[p] = "unlinkRefused" THEN "ending" ELSE "running")
  /\ UNCHANGED oldPid /\ KeepsFiles /\ KeepsHistory

\* unlink(tempname) and return: start() goes on, or gives up.
Return(p) ==
  /\ pc[p] \in {"unlinkCreated", "unlinkTaken", "unlinkRefused"}
  /\ Unlink(p)
  /\ Go(p, IF pc[p] = "unlinkRefused" THEN "ending" ELSE "running")
  /\ UNCHANGED oldPid /\ KeepsHistory

\* The pid file is read: a file that is empty or gone by now ends the attempt.
Read(p) ==
  /\ pc[p] = "read"
  /\ LET i == dir["pidfile"]
         pid == IF i = Null THEN Null ELSE content[i]
     IN  /\ Go(p, IF pid = Null THEN "unlinkRefused" ELSE "kill")
         /\ oldPid' = [oldPid EXCEPT ![p] = pid]
  /\ KeepsFiles /\ KeepsHistory

\* Mutant: a process that does not exist counts as one that does.
KillRefuses(p) ==
  /\ pc[p] = "kill"
  /\ Go(p, "unlinkRefused")
  /\ oldPid' = [oldPid EXCEPT ![p] = Null]
  /\ KeepsFiles /\ KeepsHistory

\* kill(old_pid, 0)
Kill(p) ==
  /\ pc[p] = "kill"
  /\ Go(p, IF Alive(oldPid[p]) THEN "unlinkRefused" ELSE "unlinkStale")
  /\ stale' = (stale \/ ~Alive(oldPid[p]))
  /\ oldPid' = [oldPid EXCEPT ![p] = Null]
  /\ KeepsFiles /\ UNCHANGED <<starts, crashed, unwritten>>

\* The pid file is stale: the temporary file is removed ...
UnlinkStale(p) ==
  /\ pc[p] = "unlinkStale"
  /\ Go(p, "relink")
  /\ Unlink(p)
  /\ UNCHANGED oldPid /\ KeepsHistory

\* Mutant: only the link is tried again.
RelinkSpins(p) ==
  /\ pc[p] = "relink"
  /\ Go(p, IF dir["pidfile"] = Null THEN "relink" ELSE "restat")
  /\ dir' = [dir EXCEPT ![p] = dir["pidfile"]]
  /\ UNCHANGED <<content, oldPid>> /\ KeepsHistory

\* ... and made again as a link to the pid file, or all is tried again if the pid
\* file is gone.
Relink(p) ==
  /\ pc[p] = "relink"
  /\ Go(p, IF dir["pidfile"] = Null THEN "open" ELSE "restat")
  /\ dir' = [dir EXCEPT ![p] = dir["pidfile"]]
  /\ UNCHANGED <<content, oldPid>> /\ KeepsHistory

\* Mutant: the link count is not looked at.
RestatBlind(p) ==
  /\ pc[p] = "restat"
  /\ Go(p, "truncate")
  /\ UNCHANGED oldPid /\ KeepsFiles /\ KeepsHistory

\* More than two links: somebody else is about to take the file.
Restat(p) ==
  /\ pc[p] = "restat"
  /\ Go(p, IF Nlink(dir[p]) = 2 THEN "truncate" ELSE "unlinkRefused")
  /\ UNCHANGED oldPid /\ KeepsFiles /\ KeepsHistory

\* The output stream opens the file, which truncates it; nobody looks whether it could.
Truncate(p) ==
  /\ pc[p] = "truncate"
  /\ \/ Go(p, "rewrite") /\ content' = [content EXCEPT ![dir[p]] = Null]
     \/ Go(p, "unlinkTaken") /\ UNCHANGED content
  /\ UNCHANGED <<dir, oldPid>> /\ KeepsHistory

\* The pid is written, or nothing is: the stream's state is not looked at.
Rewrite(p) ==
  /\ pc[p] = "rewrite"
  /\ Go(p, "unlinkTaken")
  /\ \/ content' = [content EXCEPT ![dir[p]] = p] /\ UNCHANGED unwritten
     \/ unwritten' = TRUE /\ UNCHANGED content
  /\ UNCHANGED <<dir, oldPid, starts, crashed, stale>>

-----------------------------------------------------------------------------
(***************************************************************************)
(* The end of a process.                                                   *)
(***************************************************************************)

\* ~Daemon(): the pid file is removed by its name, whosever it is.
Exit(p) ==
  /\ pc[p] = "running"
  /\ Unlink("pidfile")
  /\ Go(p, "ending")
  /\ UNCHANGED oldPid /\ KeepsHistory

\* The process ends, after ~Daemon() or after start() has returned 1.
Gone(p) ==
  /\ pc[p] = "ending"
  /\ Go(p, "none")
  /\ UNCHANGED oldPid /\ KeepsFiles /\ KeepsHistory

\* A system call whose result is looked at fails: pidfileCreate() throws and start()
\* returns 1.  Nothing removes the temporary file, if there is one.
Checked == Creating \ {"read", "kill", "truncate", "rewrite"}
Throw(p) ==
  /\ pc[p] \in Checked
  /\ Go(p, "ending")
  /\ crashed' = IF dir[p] = Null THEN crashed ELSE crashed \cup {p}
  /\ KeepsFiles /\ UNCHANGED <<oldPid, starts, stale, unwritten>>

\* The process is killed.
Crash(p) ==
  /\ pc[p] \in Creating \cup {"running"}
  /\ Go(p, "none")
  /\ crashed' = IF pc[p] \in Creating THEN crashed \cup {p} ELSE crashed
  /\ oldPid' = [oldPid EXCEPT ![p] = Null]
  /\ KeepsFiles /\ UNCHANGED <<starts, stale, unwritten>>

-----------------------------------------------------------------------------
Step(p) ==
  \/ Open(p) \/ Write(p) \/ Link(p) \/ Stat(p) \/ Return(p) \/ Read(p) \/ Kill(p)
  \/ UnlinkStale(p) \/ Relink(p) \/ Restat(p) \/ Truncate(p) \/ Rewrite(p)

Next == \E p \in Pid : Start(p) \/ Step(p) \/ Exit(p) \/ Gone(p) \/ Throw(p) \/ Crash(p)

Spec == Init /\ [][Next]_vars

\* A process that is not killed goes on; a call that fails ends pidfileCreate() as well.
FairSpec == Spec /\ \A p \in Pid : WF_vars(Step(p))

-----------------------------------------------------------------------------
(***************************************************************************)
(* Properties.                                                             *)
(***************************************************************************)

\* Type invariant.
TypeOK ==
  /\ pc \in [Pid -> Creating \cup {"none", "running", "ending"}]
  /\ dir \in [Name -> Inode \cup {Null}]
  /\ content \in [Inode -> Pid \cup {Null}]
  /\ oldPid \in [Pid -> Pid \cup {Null}]
  /\ starts \in 0..MaxStarts /\ crashed \subseteq Pid
  /\ stale \in BOOLEAN /\ unwritten \in BOOLEAN

\* When pidfileCreate() returns, TRUE or FALSE, it leaves no temporary file: one that
\* stays may be a further link to the pid file, and block every later takeover.  (A
\* process that is killed in it, or leaves it with an exception, may leave one.)
NoLitter ==
  \A p \in Pid : pc[p] \notin Creating /\ p \notin crashed => dir[p] = Null

\* What the code comment hopes for: one daemon at a time.
AtMostOne == \A p, q \in Pid : pc[p] = "running" /\ pc[q] = "running" => p = q

\* As long as nobody has taken a pid file for stale, link() is enough to keep
\* daemons apart, however starts, exits and crashes interleave.
ExclusiveWithoutTakeover == ~stale => AtMostOne

\* Two takeovers of the pid file that overlap do not both succeed: the link count
\* lets at most one process overwrite it at a time.
Overwriting(p) == pc[p] \in {"truncate", "rewrite", "unlinkTaken"}
Taking(p) == Overwriting(p) /\ dir[p] = dir["pidfile"]
TakeoverExclusive == \A p, q \in Pid : Taking(p) /\ Taking(q) => p = q

\* A start is refused only if there is another process, a process died in the
\* middle of pidfileCreate() or left it with an exception, the pid file was removed or
\* replaced after the process had linked it, it names the process itself, which has got
\* the pid of the daemon that left it, or its pid could not be written.
RefusedForAReason ==
  [][\A p \in Pid : pc[p] # "unlinkRefused" /\ pc'[p] = "unlinkRefused" =>
       \/ \E q \in Pid \ {p} : Alive(q) \/ q \in crashed
       \/ dir["pidfile"] = Null
       \/ pc[p] \in {"stat", "restat"} /\ dir[p] # dir["pidfile"]
       \/ oldPid[p] = p \/ unwritten]_vars

\* Where a process has its temporary file, and what it knows.
TempFiles ==
  /\ \A p \in crashed : pc[p] \in {"none", "ending"}
  /\ \A p \in Pid : /\ pc[p] \in Creating \ {"open", "relink"} => dir[p] # Null
                    /\ pc[p] = "relink" => dir[p] = Null
                    /\ pc[p] = "kill" => oldPid[p] # Null

\* A file without a pid is about to be written, or its writer died or failed.
EmptyFiles ==
  unwritten \/ \A n \in Name : dir[n] # Null /\ content[dir[n]] = Null =>
    \E q \in Pid : dir[q] = dir[n] /\ (pc[q] \in {"open", "write", "rewrite"} \/ q \in crashed)

\* Two processes overwrite the same file only if it has lost its name as the pid
\* file, and nobody else can link it again.
OverwriteExclusive ==
  \A p, q \in Pid : Overwriting(p) /\ Overwriting(q) /\ p # q /\ dir[p] = dir[q] =>
    \A n \in Name : dir[n] = dir[p] => n \in {p, q}

\* Without a takeover the pid file is there while a process owns it.
Owner(p) == pc[p] \in {"stat", "unlinkCreated", "running"}
OwnerExclusive ==
  ~stale =>
    /\ \A p \in Pid : pc[p] \notin {"unlinkStale", "relink", "restat"} /\ ~Overwriting(p)
    /\ \A p, q \in Pid : Owner(p) /\ Owner(q) => p = q
    /\ \A p \in Pid : Owner(p) => dir["pidfile"] # Null

\* The inductive invariant.
IndInv ==
  TypeOK /\ NoLitter /\ TempFiles /\ EmptyFiles /\ OverwriteExclusive /\ OwnerExclusive

\* Every start succeeds or is refused in the end.
StartDecides == \A p \in Pid : pc[p] \in Creating ~> pc[p] \notin Creating

=============================================================================
