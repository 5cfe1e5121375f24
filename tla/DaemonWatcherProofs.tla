------------------------ MODULE DaemonWatcherProofs -------------------------
(***************************************************************************)
(* The start of a daemon, for every choice of the log files and every      *)
(* amount of output: the logs are complete and in order, SIGUSR1 reaches   *)
(* only a child that waits for it, and an early death is never reported as *)
(* a success.                                                              *)
(***************************************************************************)
EXTENDS DaemonWatcher, TLAPS

USE WatcherAssumption

-----------------------------------------------------------------------------
(***************************************************************************)
(* Parts of sequences, and the smallest offset.                            *)
(***************************************************************************)

\* What is left after the first n elements.
LEMMA Suffix ==
  ASSUME NEW S, NEW q \in Seq(S), NEW n \in Nat, n <= Len(q)
  PROVE  /\ SubSeq(q, n + 1, Len(q)) \in Seq(S)
         /\ Len(SubSeq(q, n + 1, Len(q))) = Len(q) - n
         /\ \A i \in 1..(Len(q) - n) : SubSeq(q, n + 1, Len(q))[i] = q[n + i]
OBVIOUS

\* The part of w elements after the first m.
LEMMA Part ==
  ASSUME NEW S, NEW q \in Seq(S), NEW m \in Nat, NEW w \in Nat, m + w <= Len(q)
  PROVE  /\ SubSeq(q, m + 1, m + w) \in Seq(S)
         /\ Len(SubSeq(q, m + 1, m + w)) = w
         /\ \A i \in 1..w : SubSeq(q, m + 1, m + w)[i] = q[m + i]
OBVIOUS

\* Two sequences after each other.
LEMMA Concat ==
  ASSUME NEW S, NEW p \in Seq(S), NEW q \in Seq(S)
  PROVE  /\ p \o q \in Seq(S) /\ Len(p \o q) = Len(p) + Len(q)
         /\ \A i \in 1..Len(p) : (p \o q)[i] = p[i]
         /\ \A i \in 1..Len(q) : (p \o q)[Len(p) + i] = q[i]
OBVIOUS

\* A sequence and one more element.
LEMMA Appended ==
  ASSUME NEW S, NEW q \in Seq(S), NEW e \in S
  PROVE  /\ Append(q, e) \in Seq(S) /\ Len(Append(q, e)) = Len(q) + 1
         /\ \A i \in 1..Len(q) : Append(q, e)[i] = q[i]
         /\ Append(q, e)[Len(q) + 1] = e
OBVIOUS

\* The smallest of at most two offsets (writeData() takes it over all targets).
LEMMA SmallestOffset ==
  ASSUME NEW D \in SUBSET {"console", "log"}, D # {}, NEW o, \A u \in D : o[u] \in Nat
  PROVE  /\ Min({o[u] : u \in D}) \in Nat
         /\ \A u \in D : Min({o[v] : v \in D}) <= o[u]
         /\ \E u \in D : Min({o[v] : v \in D}) = o[u]
<1> DEFINE M == {o[u] : u \in D}
<1>1. \E m \in M : \A y \in M : m <= y
  <2>1. PICK u \in D : TRUE
    OBVIOUS
  <2>2. CASE \A v \in D : o[u] <= o[v]
    <3>1. o[u] \in M /\ \A y \in M : o[u] <= y
      BY <2>2
    <3> QED
      BY <3>1
  <2>3. CASE \E v \in D : ~(o[u] <= o[v])
    <3>1. PICK v \in D : ~(o[u] <= o[v])
      BY <2>3
    <3>2. o[v] <= o[u] /\ v # u
      BY <3>1
    <3>3. D = {u, v}
      BY <3>2
    <3>4. o[v] \in M /\ \A y \in M : o[v] <= y
      BY <3>2, <3>3
    <3> QED
      BY <3>4
  <2> QED
    BY <2>2, <2>3
<1>2. Min(M) \in M /\ \A y \in M : Min(M) <= y
  BY <1>1 DEF Min
<1> QED
  BY <1>2

-----------------------------------------------------------------------------
(***************************************************************************)
(* The end of a pipe.                                                      *)
(***************************************************************************)

\* The log files and the targets.
LEMMA LogFiles ==
  ASSUME NEW s \in Stream
  PROVE  /\ LogFile(s) \in Files \cup {None} /\ LogFile(s) # "pipe" /\ "pipe" \notin Files
         /\ Target(s) \subseteq {"console", "log"} /\ None \notin Files
         /\ "log" \in Target(s) => LogFile(s) # None
BY DEF LogFile, Files, Target, Stream

\* What pipeClosed() does to the watcher and to the child.
LEMMA CallBackStep ==
  ASSUME TypeOK, ReportInv, HandlerInv, NEW s \in Stream, NEW called \in BOOLEAN,
         CallBack(s, called), Watching, ~closed[s],
         \A r \in Stream : (r = s /\ called) \/ closed[r] => ~HasPipe(r),
         UNCHANGED <<fd, released, sigChld, chld, broken>>
  PROVE  /\ ReportInv' /\ HandlerInv'
         /\ child' \in {child, "zombie"} /\ (child \in Ended => child' = child)
         /\ status' \in {None, "0", "1", "signal"} /\ (status' = None <=> child' \notin Ended)
         /\ watcher' \in {"run", "terminate", "0", "1", "127", "signal", "killed", "failed"}
         /\ usr1' \in BOOLEAN /\ timer' \in BOOLEAN
         /\ closed' = [closed EXCEPT ![s] = @ \/ called]
         /\ (~HupEarly => child' = child)
<1> DEFINE Result ==
         /\ ReportInv' /\ HandlerInv'
         /\ child' \in {child, "zombie"} /\ (child \in Ended => child' = child)
         /\ status' \in {None, "0", "1", "signal"} /\ (status' = None <=> child' \notin Ended)
         /\ watcher' \in {"run", "terminate", "0", "1", "127", "signal", "killed", "failed"}
         /\ usr1' \in BOOLEAN /\ timer' \in BOOLEAN
         /\ closed' = [closed EXCEPT ![s] = @ \/ called]
         /\ (~HupEarly => child' = child)
<1> SUFFICES Result
  OBVIOUS
<1>1. closed \in [Stream -> BOOLEAN] /\ ~AllClosed /\ sentTo = None
      /\ ~usr1 /\ ~released /\ ~timer /\ child # "daemon"
      /\ watcher = "run" /\ released' = released /\ broken' = broken /\ fd' = fd
      /\ sigChld' = sigChld /\ chld' = chld
  BY DEF AllClosed, ReportInv, TypeOK, Watching
<1>2. CASE ~called
  <2>1. UNCHANGED <<closed, watcher, timer, sentTo, usr1, child, status>>
    BY <1>2 DEF CallBack
  <2>2. closed' = [closed EXCEPT ![s] = @ \/ called]
    BY <1>1, <1>2, <2>1
  <2>3. ReportInv' /\ HandlerInv'
    BY <1>1, <2>1 DEF ReportInv, HandlerInv, AllClosed, Watching, ExitReported, NoStrayUsr1
  <2> QED
    BY <2>1, <2>2, <2>3 DEF TypeOK
<1>3. CASE called
  <2>1. closed' = [closed EXCEPT ![s] = TRUE] /\ closed' = [closed EXCEPT ![s] = @ \/ called]
    BY <1>3 DEF CallBack, PipeClosed
  <2>2. CASE ~(\A r \in Stream \ {s} : closed[r])
    <3>1. UNCHANGED <<watcher, timer, sentTo, usr1, child, status>>
      BY <1>3, <2>2 DEF CallBack, PipeClosed
    <3>2. ~AllClosed'
      BY <1>1, <2>1, <2>2 DEF AllClosed
    <3>3. ReportInv' /\ HandlerInv'
      BY <1>1, <3>1, <3>2 DEF ReportInv, HandlerInv, Watching, ExitReported, NoStrayUsr1
    <3> QED
      BY <2>1, <3>1, <3>3 DEF TypeOK
  <2>3. CASE \A r \in Stream \ {s} : closed[r]
    <3>1. AllClosed' /\ \A r \in Stream : ~HasPipe(r)
      BY <1>1, <1>3, <2>1, <2>3 DEF AllClosed
    <3>2. CASE sigChld
      <4>1. ChildDied /\ UNCHANGED <<timer, sentTo, usr1, child, status>>
        BY <1>3, <2>3, <3>2 DEF CallBack, PipeClosed
      <4>2. watcher' \in {"1", "127", "signal"}
        BY <3>2, <4>1 DEF ChildDied, ReportInv, TypeOK, Ended
      <4>3. ReportInv' /\ HandlerInv'
        BY <1>1, <3>1, <4>1, <4>2 DEF ReportInv, HandlerInv, Watching, ExitReported, NoStrayUsr1
      <4> QED
        BY <2>1, <4>1, <4>2, <4>3 DEF TypeOK
    <3>3. CASE ~sigChld
      <4>1. SendUsr1 /\ timer' = TRUE /\ watcher' = watcher
        BY <1>3, <2>3, <3>3 DEF CallBack, PipeClosed
      <4>2. sentTo' = child /\ child # None /\ child \notin {"daemon"}
        BY <1>1, <4>1 DEF SendUsr1, TypeOK, Ended
      <4>3. ~HupEarly \/ stderrLog = None => child # "init"
        <5>1. "err" \in Stream
          BY DEF Stream
        <5>2. ~HasPipe("err")
          BY <3>1, <5>1
        <5> QED
          BY <5>2 DEF HandlerInv, HasPipe, Ended
      <4>4. CASE child \in Handled \cup Ended
        <5>1. UNCHANGED <<child, status>>
          BY <4>1, <4>4 DEF SendUsr1
        <5>2. ReportInv'
          BY <1>1, <3>1, <3>3, <4>1, <4>2, <5>1 DEF ReportInv, Watching, ExitReported
        <5>3. HandlerInv'
          BY <1>1, <4>2, <4>3, <5>1 DEF HandlerInv, NoStrayUsr1
        <5>4. usr1' \in BOOLEAN
          BY <4>1 DEF SendUsr1
        <5> QED
          BY <2>1, <4>1, <5>1, <5>2, <5>3, <5>4 DEF TypeOK
      <4>5. CASE child \notin Handled \cup Ended
        <5>1. child' = "zombie" /\ status' = "signal" /\ usr1' \in BOOLEAN
          BY <4>1, <4>5 DEF SendUsr1
        <5>2. child = "init"
          BY <4>2, <4>5 DEF TypeOK, Handled
        <5>3. ReportInv'
          <6>1. sigChld \/ chld => FALSE
            BY <5>2 DEF ReportInv
          <6> QED
            BY <1>1, <3>1, <3>3, <4>1, <4>2, <5>1, <6>1 DEF ReportInv, Watching, ExitReported
        <5>4. HandlerInv'
          BY <4>3, <5>2 DEF HandlerInv
        <5> QED
          BY <2>1, <4>1, <4>3, <5>1, <5>2, <5>3, <5>4 DEF TypeOK, Ended
      <4> QED
        BY <4>4, <4>5
    <3> QED
      BY <3>2, <3>3
  <2> QED
    BY <2>2, <2>3
<1> QED
  BY <1>2, <1>3

-----------------------------------------------------------------------------
(***************************************************************************)
(* A forwarder.                                                            *)
(***************************************************************************)

\* writeData(): w pieces are written, and n removed from the buffer.
LEMMA WriteFacts ==
  ASSUME TypeOK, ForwarderInv, NEW s \in Stream, NEW t \in writing[s], WriteData(s, t)
  PROVE  \E w, n \in Nat :
           /\ w > 0 /\ offset[s][t] + w <= Len(buffer[s]) /\ n <= Len(buffer[s])
           /\ Put(s, t, SubSeq(buffer[s], offset[s][t] + 1, offset[s][t] + w))
           /\ buffer' = [buffer EXCEPT ![s] = SubSeq(buffer[s], n + 1, Len(buffer[s]))]
           /\ DOMAIN offset' = Stream /\ DOMAIN offset'[s] = DOMAIN offset[s]
           /\ \A r \in Stream : r # s => offset'[r] = offset[r]
           /\ \A u \in DOMAIN offset[s] :
                /\ offset'[s][u] = (IF u = t THEN offset[s][u] + w ELSE offset[s][u]) - n
                /\ offset'[s][u] >= 0
           /\ \E u \in DOMAIN offset[s] : offset'[s][u] = 0
           /\ writing' = [writing EXCEPT ![s] = IF offset'[s][t] >= Len(buffer'[s])
                                                THEN writing[s] \ {t} ELSE writing[s]]
           /\ CallBack(s, ~src[s] /\ buffer'[s] = <<>>)
<1> DEFINE now(w) == [offset[s] EXCEPT ![t] = @ + w]
           least(w) == Min({now(w)[u] : u \in DOMAIN now(w)})
<1>1. /\ buffer[s] \in Seq(Piece) /\ Len(buffer[s]) \in Nat
      /\ DOMAIN offset[s] \subseteq {"console", "log"} /\ t \in DOMAIN offset[s]
      /\ \A u \in DOMAIN offset[s] : offset[s][u] \in Nat /\ offset[s][u] <= Len(buffer[s])
  BY LogFiles DEF TypeOK, ForwarderInv, ForwarderOK
<1>2. PICK w \in 1..(Len(buffer[s]) - offset[s][t]) :
        /\ Put(s, t, SubSeq(buffer[s], offset[s][t] + 1, offset[s][t] + w))
        /\ buffer' = [buffer EXCEPT ![s] = SubSeq(@, least(w) + 1, Len(@))]
        /\ offset' = [offset EXCEPT ![s] = [u \in DOMAIN now(w) |-> now(w)[u] - least(w)]]
        /\ writing' = [writing EXCEPT ![s] = IF now(w)[t] - least(w) >= Len(buffer'[s])
                                             THEN @ \ {t} ELSE @]
        /\ CallBack(s, ~src[s] /\ buffer'[s] = <<>>)
  BY DEF WriteData
<1>3. w \in Nat /\ w > 0 /\ offset[s][t] + w <= Len(buffer[s])
  BY <1>1, <1>2
<1> DEFINE o == now(w)
           n == least(w)
<1>4. /\ DOMAIN o = DOMAIN offset[s]
      /\ \A u \in DOMAIN o : /\ o[u] = IF u = t THEN offset[s][u] + w ELSE offset[s][u]
                             /\ o[u] \in Nat /\ o[u] <= Len(buffer[s])
  BY <1>1, <1>3
<1>5. n = Min({o[u] : u \in DOMAIN o})
  OBVIOUS
<1> HIDE DEF o, n
<1>6. /\ n \in Nat /\ \A u \in DOMAIN o : n <= o[u]
      /\ \E u \in DOMAIN o : n = o[u]
  <2> DEFINE D == DOMAIN o
  <2>1. D \in SUBSET {"console", "log"} /\ D # {} /\ \A u \in D : o[u] \in Nat
    BY <1>1, <1>4
  <2>2. n = Min({o[u] : u \in D})
    BY <1>5
  <2> HIDE DEF D
  <2>3. /\ Min({o[u] : u \in D}) \in Nat /\ \A u \in D : Min({o[v] : v \in D}) <= o[u]
        /\ \E u \in D : Min({o[v] : v \in D}) = o[u]
    BY <2>1, SmallestOffset
  <2> QED
    BY <2>2, <2>3 DEF D
<1>7. /\ Put(s, t, SubSeq(buffer[s], offset[s][t] + 1, offset[s][t] + w))
      /\ buffer' = [buffer EXCEPT ![s] = SubSeq(buffer[s], n + 1, Len(buffer[s]))]
      /\ offset' = [offset EXCEPT ![s] = [u \in DOMAIN o |-> o[u] - n]]
      /\ writing' = [writing EXCEPT ![s] = IF o[t] - n >= Len(buffer'[s])
                                           THEN writing[s] \ {t} ELSE writing[s]]
      /\ CallBack(s, ~src[s] /\ buffer'[s] = <<>>)
  BY <1>2 DEF o, n
<1> HIDE DEF least, now
<1>8. /\ DOMAIN offset' = Stream /\ DOMAIN offset'[s] = DOMAIN offset[s]
      /\ \A r \in Stream : r # s => offset'[r] = offset[r]
      /\ \A u \in DOMAIN offset[s] : offset'[s][u] = o[u] - n
  BY <1>4, <1>7 DEF TypeOK
<1>9. n <= Len(buffer[s])
  BY <1>1, <1>4, <1>6
<1>10. \A u \in DOMAIN offset[s] :
         /\ offset'[s][u] = (IF u = t THEN offset[s][u] + w ELSE offset[s][u]) - n
         /\ offset'[s][u] >= 0
  BY <1>4, <1>6, <1>8
<1>11. \E u \in DOMAIN offset[s] : offset'[s][u] = 0
  BY <1>4, <1>6, <1>8
<1>12. writing' = [writing EXCEPT ![s] = IF offset'[s][t] >= Len(buffer'[s])
                                         THEN writing[s] \ {t} ELSE writing[s]]
  BY <1>1, <1>7, <1>8
<1> QED
  BY <1>3, <1>6, <1>7, <1>8, <1>9, <1>10, <1>11, <1>12

\* A step of the forwarder of stream s; called: it reports the end of the pipe.
Forwards(s, called) ==
  /\ Watching /\ ~closed[s] /\ called \in BOOLEAN /\ CallBack(s, called)
  /\ UNCHANGED <<fd, written, released, sigChld, chld, broken>>
  /\ pipe' \in [Stream -> Seq(Piece)] /\ buffer' \in [Stream -> Seq(Piece)]
  /\ console' \in [Stream -> Seq(Piece)] /\ log' \in [Files -> Seq(Piece)]
  /\ DOMAIN offset' = Stream /\ src' \in [Stream -> BOOLEAN]
  /\ writing' \in [Stream -> SUBSET {"console", "log"}]
  /\ \A r \in Stream \ {s} : /\ pipe'[r] = pipe[r] /\ buffer'[r] = buffer[r]
                             /\ offset'[r] = offset[r] /\ writing'[r] = writing[r]
                             /\ src'[r] = src[r]
  /\ DOMAIN offset'[s] \subseteq DOMAIN offset[s]
  /\ \A t \in DOMAIN offset'[s] : offset'[s][t] \in 0..Len(buffer'[s])
  /\ writing'[s] = {t \in DOMAIN offset'[s] : offset'[s][t] < Len(buffer'[s])}
  /\ LogFile(s) # None => "log" \in DOMAIN offset'[s] /\ (called => buffer'[s] = <<>>)
  /\ called => ~src'[s] /\ writing'[s] = {}
  /\ ~src'[s] => pipe'[s] = <<>> /\ ~HasPipe(s)
  /\ broken = {} => /\ \E t \in DOMAIN offset'[s] : offset'[s][t] = 0
                    /\ ~src'[s] /\ writing'[s] = {} => called

\* Such a step keeps all but the contents of the log files.
LEMMA ForwardsKeeps ==
  ASSUME TypeOK, ForwarderInv, ReportInv, HandlerInv,
         NEW s \in Stream, NEW called, Forwards(s, called)
  PROVE  /\ TypeOK' /\ ForwarderInv' /\ ReportInv' /\ HandlerInv'
         /\ (~HupEarly => child' = child)
         /\ \A r \in Stream \ {s} : closed'[r] = closed[r]
<1>1. \A r \in Stream : (r = s /\ called) \/ closed[r] => ~HasPipe(r)
  BY DEF Forwards, ForwarderInv, ForwarderOK
<1>2. /\ Watching /\ ~closed[s] /\ called \in BOOLEAN /\ CallBack(s, called)
      /\ UNCHANGED <<fd, written, released, sigChld, chld, broken>>
  BY DEF Forwards
<1>3. /\ ReportInv' /\ HandlerInv'
      /\ child' \in {child, "zombie"} /\ (child \in Ended => child' = child)
      /\ status' \in {None, "0", "1", "signal"} /\ (status' = None <=> child' \notin Ended)
      /\ watcher' \in {"run", "terminate", "0", "1", "127", "signal", "killed", "failed"}
      /\ usr1' \in BOOLEAN /\ timer' \in BOOLEAN
      /\ closed' = [closed EXCEPT ![s] = @ \/ called]
      /\ (~HupEarly => child' = child)
  BY <1>1, <1>2, CallBackStep
<1>4. /\ closed' \in [Stream -> BOOLEAN] /\ closed'[s] = called
      /\ \A r \in Stream \ {s} : closed'[r] = closed[r]
  BY <1>2, <1>3 DEF TypeOK
<1>5. \A r \in Stream : HasPipe(r)' => HasPipe(r)
  BY <1>2, <1>3 DEF HasPipe, Ended
<1>6. TypeOK'
  <2>1. /\ child' \in {"init", "blocked", "suspended", "daemon"} \cup Ended
        /\ fd' \in [Stream -> Files \cup {"pipe", None}] /\ released' \in BOOLEAN
        /\ written' \in [Stream -> Nat] /\ \A r \in Stream : written'[r] <= MaxOut[r]
        /\ broken' \subseteq Stream /\ sigChld' \in BOOLEAN /\ chld' \in BOOLEAN
    BY <1>2, <1>3 DEF TypeOK, Ended
  <2>2. ASSUME NEW r \in Stream
        PROVE  /\ DOMAIN offset'[r] \subseteq Target(r)
               /\ \A t \in DOMAIN offset'[r] : offset'[r][t] \in 0..Len(buffer'[r])
    <3>1. CASE r = s
      BY <3>1 DEF Forwards, TypeOK
    <3>2. CASE r # s
      BY <3>2 DEF Forwards, TypeOK
    <3> QED
      BY <3>1, <3>2
  <2>3. /\ pipe' \in [Stream -> Seq(Piece)] /\ buffer' \in [Stream -> Seq(Piece)]
        /\ console' \in [Stream -> Seq(Piece)] /\ log' \in [Files -> Seq(Piece)]
        /\ DOMAIN offset' = Stream /\ src' \in [Stream -> BOOLEAN]
        /\ writing' \in [Stream -> SUBSET {"console", "log"}]
    BY DEF Forwards
  <2> QED
    BY <1>3, <1>4, <2>1, <2>2, <2>3 DEF TypeOK
<1>7. ForwarderOK(s)'
  BY <1>2, <1>4, <1>5 DEF Forwards, ForwarderOK
<1>8. ASSUME NEW r \in Stream, r # s
      PROVE  ForwarderOK(r)'
  <2>1. ForwarderOK(r)
    BY DEF ForwarderInv
  <2>2. /\ pipe'[r] = pipe[r] /\ buffer'[r] = buffer[r] /\ offset'[r] = offset[r]
        /\ writing'[r] = writing[r] /\ src'[r] = src[r]
    BY <1>8 DEF Forwards
  <2> QED
    BY <1>2, <1>4, <1>5, <1>8, <2>1, <2>2 DEF ForwarderOK
<1> QED
  BY <1>3, <1>4, <1>6, <1>7, <1>8 DEF ForwarderInv

\* readData() of data.
LEMMA ReadForwards ==
  ASSUME TypeOK, ForwarderInv, NEW s \in Stream, ReadData(s), pipe[s] # <<>>
  PROVE  /\ Forwards(s, FALSE) /\ UNCHANGED <<offset, outputVars>>
         /\ \E n \in Nat :
              /\ n > 0 /\ n <= Len(pipe[s])
              /\ Len(pipe'[s]) = Len(pipe[s]) - n
              /\ \A i \in 1..Len(pipe'[s]) : pipe'[s][i] = pipe[s][n + i]
              /\ DOMAIN offset[s] # {} =>
                   /\ Len(buffer'[s]) = Len(buffer[s]) + n
                   /\ \A i \in 1..Len(buffer[s]) : buffer'[s][i] = buffer[s][i]
                   /\ \A i \in 1..n : buffer'[s][Len(buffer[s]) + i] = pipe[s][i]
<1> DEFINE targets == DOMAIN offset[s]
<1>1. PICK n \in 1..Len(pipe[s]) :
        /\ pipe' = [pipe EXCEPT ![s] = SubSeq(@, n + 1, Len(@))]
        /\ buffer' = [buffer EXCEPT ![s] =
                        IF targets = {} THEN @ ELSE @ \o SubSeq(pipe[s], 1, n)]
        /\ writing' = [writing EXCEPT ![s] =
                         @ \cup {t \in targets : offset[s][t] >= Len(buffer[s])}]
        /\ CallBack(s, FALSE) /\ UNCHANGED src
  BY DEF ReadData
<1>2. /\ Watching /\ src[s] = TRUE
      /\ UNCHANGED <<offset, outputVars, broken, fd, written, released, sigChld, chld>>
  BY DEF ReadData, TypeOK
<1>3. /\ pipe[s] \in Seq(Piece) /\ buffer[s] \in Seq(Piece) /\ Len(buffer[s]) \in Nat
      /\ n \in Nat /\ n > 0 /\ n <= Len(pipe[s]) /\ 0 + n = n /\ 0 + 1 = 1
      /\ \A t \in targets : offset[s][t] \in 0..Len(buffer[s])
      /\ targets \subseteq {"console", "log"}
  BY LogFiles DEF TypeOK
<1> DEFINE rest == SubSeq(pipe[s], n + 1, Len(pipe[s]))
           data == SubSeq(pipe[s], 1, n)
           all == buffer[s] \o data
<1>4. /\ rest \in Seq(Piece) /\ Len(rest) = Len(pipe[s]) - n
      /\ \A i \in 1..(Len(pipe[s]) - n) : rest[i] = pipe[s][n + i]
  <2>1. pipe[s] \in Seq(Piece) /\ n \in Nat /\ n <= Len(pipe[s])
    BY <1>3
  <2> QED
    BY ONLY <2>1
<1>5. /\ data \in Seq(Piece) /\ Len(data) = n /\ \A i \in 1..n : data[i] = pipe[s][i]
  <2>1. pipe[s] \in Seq(Piece) /\ n \in Nat /\ n <= Len(pipe[s])
    BY <1>3
  <2> QED
    BY ONLY <2>1
<1> HIDE DEF rest, data
<1>6. /\ all \in Seq(Piece) /\ Len(all) = Len(buffer[s]) + n
      /\ \A i \in 1..Len(buffer[s]) : all[i] = buffer[s][i]
      /\ \A i \in 1..n : all[Len(buffer[s]) + i] = pipe[s][i]
  <2>1. /\ all \in Seq(Piece) /\ Len(all) = Len(buffer[s]) + Len(data)
        /\ \A i \in 1..Len(buffer[s]) : all[i] = buffer[s][i]
        /\ \A i \in 1..Len(data) : all[Len(buffer[s]) + i] = data[i]
    <3>1. buffer[s] \in Seq(Piece) /\ data \in Seq(Piece)
      BY <1>3, <1>5
    <3> QED
      BY ONLY <3>1, Concat
  <2> QED
    BY <1>5, <2>1
<1> HIDE DEF all
<1>7. /\ pipe' = [pipe EXCEPT ![s] = rest]
      /\ buffer' = [buffer EXCEPT ![s] = IF targets = {} THEN buffer[s] ELSE all]
  BY <1>1 DEF rest, data, all
<1>8. /\ pipe' \in [Stream -> Seq(Piece)] /\ pipe'[s] = rest
      /\ \A r \in Stream \ {s} : pipe'[r] = pipe[r]
  BY <1>4, <1>7 DEF TypeOK
<1>9. /\ buffer' \in [Stream -> Seq(Piece)] /\ buffer'[s] = IF targets = {} THEN buffer[s] ELSE all
      /\ \A r \in Stream \ {s} : buffer'[r] = buffer[r]
  BY <1>3, <1>6, <1>7 DEF TypeOK
<1>10. Len(buffer'[s]) = IF targets = {} THEN Len(buffer[s]) ELSE Len(buffer[s]) + n
  BY <1>6, <1>9
<1>11. \A t \in targets : offset[s][t] \in 0..Len(buffer'[s]) /\ offset[s][t] < Len(buffer'[s])
  BY <1>3, <1>10
<1>12. /\ writing' \in [Stream -> SUBSET {"console", "log"}] /\ writing'[s] = targets
       /\ \A r \in Stream \ {s} : writing'[r] = writing[r]
  <2>1. writing[s] = {t \in targets : offset[s][t] < Len(buffer[s])}
    BY DEF ForwarderInv, ForwarderOK
  <2>2. writing[s] \cup {t \in targets : offset[s][t] >= Len(buffer[s])} = targets
    BY <1>3, <2>1
  <2> QED
    BY <1>1, <1>3, <2>2 DEF TypeOK
<1>13. Forwards(s, FALSE)
  <2>1. ~closed[s] /\ ForwarderOK(s) /\ src' = src
    BY <1>1, <1>2 DEF ForwarderInv, ForwarderOK
  <2>2. writing'[s] = {t \in DOMAIN offset'[s] : offset'[s][t] < Len(buffer'[s])}
    BY <1>2, <1>11, <1>12
  <2>3. console' \in [Stream -> Seq(Piece)] /\ log' \in [Files -> Seq(Piece)]
        /\ DOMAIN offset' = Stream /\ src' \in [Stream -> BOOLEAN]
    BY <1>2, <2>1 DEF TypeOK, outputVars
  <2> QED
    BY <1>1, <1>2, <1>8, <1>9, <1>11, <1>12, <2>1, <2>2, <2>3 DEF Forwards, ForwarderOK
<1>14. DOMAIN offset[s] # {} =>
         /\ Len(buffer'[s]) = Len(buffer[s]) + n
         /\ \A i \in 1..Len(buffer[s]) : buffer'[s][i] = buffer[s][i]
         /\ \A i \in 1..n : buffer'[s][Len(buffer[s]) + i] = pipe[s][i]
  BY <1>6, <1>9
<1>15. /\ n > 0 /\ n <= Len(pipe[s]) /\ Len(pipe'[s]) = Len(pipe[s]) - n
       /\ \A i \in 1..Len(pipe'[s]) : pipe'[s][i] = pipe[s][n + i]
  BY <1>3, <1>4, <1>8
<1> QED
  BY <1>2, <1>3, <1>13, <1>14, <1>15

\* readData() at the end of the pipe.
LEMMA EndForwards ==
  ASSUME TypeOK, ForwarderInv, NEW s \in Stream, ReadData(s), pipe[s] = <<>>
  PROVE  /\ Forwards(s, buffer[s] = <<>>)
         /\ UNCHANGED <<pipe, buffer, offset, outputVars>>
<1>1. /\ ~HasPipe(s) /\ CallBack(s, buffer[s] = <<>>)
      /\ src' = [src EXCEPT ![s] = FALSE]
      /\ UNCHANGED <<pipe, buffer, writing>>
  <2>1. ~\E n \in 1..Len(pipe[s]) : TRUE
    OBVIOUS
  <2> QED
    BY <2>1 DEF ReadData
<1>2. /\ Watching /\ src[s] = TRUE
      /\ UNCHANGED <<offset, outputVars, broken, fd, written, released, sigChld, chld>>
  BY DEF ReadData, TypeOK
<1>3. ForwarderOK(s) /\ ~closed[s]
  BY <1>2 DEF ForwarderInv, ForwarderOK
<1>4. src' \in [Stream -> BOOLEAN] /\ ~src'[s] /\ \A r \in Stream \ {s} : src'[r] = src[r]
  BY <1>1 DEF TypeOK
<1>5. buffer[s] = <<>> => writing[s] = {}
  BY <1>3 DEF ForwarderOK, TypeOK
<1>6. (\E t \in DOMAIN offset[s] : offset[s][t] = 0) /\ writing[s] = {} => buffer[s] = <<>>
  <2> SUFFICES ASSUME NEW t \in DOMAIN offset[s], offset[s][t] = 0, writing[s] = {}
               PROVE  buffer[s] = <<>>
    OBVIOUS
  <2>1. buffer[s] \in Seq(Piece) /\ ~(0 < Len(buffer[s]))
    BY <1>3 DEF ForwarderOK, TypeOK
  <2> QED
    BY <2>1
<1>7. /\ console' \in [Stream -> Seq(Piece)] /\ log' \in [Files -> Seq(Piece)]
      /\ pipe' \in [Stream -> Seq(Piece)] /\ buffer' \in [Stream -> Seq(Piece)]
      /\ DOMAIN offset' = Stream /\ writing' \in [Stream -> SUBSET {"console", "log"}]
  BY <1>1, <1>2 DEF TypeOK, outputVars
<1>8. \A t \in DOMAIN offset[s] : offset[s][t] \in 0..Len(buffer[s])
  BY DEF TypeOK
<1> QED
  BY <1>1, <1>2, <1>3, <1>4, <1>5, <1>6, <1>7, <1>8 DEF Forwards, ForwarderOK

\* writeData() for a target that is broken.
LEMMA DropForwards ==
  ASSUME TypeOK, ForwarderInv, NEW s \in Stream, Drop(s)
  PROVE  /\ Forwards(s, DOMAIN offset[s] \ {"console"} = {} /\ ~src[s])
         /\ UNCHANGED <<pipe, buffer, outputVars>>
         /\ \A t \in DOMAIN offset'[s] : offset'[s][t] = offset[s][t]
<1> DEFINE left == DOMAIN offset[s] \ {"console"}
<1>1. /\ Watching /\ "console" \in writing[s] /\ s \in broken
      /\ offset' = [offset EXCEPT ![s] = [t \in left |-> offset[s][t]]]
      /\ CallBack(s, left = {} /\ ~src[s])
      /\ writing' = [writing EXCEPT ![s] = @ \ {"console"}]
      /\ UNCHANGED <<pipe, buffer, src, outputVars, broken, fd, written, released, sigChld, chld>>
  BY DEF Drop
<1>2. ForwarderOK(s) /\ ~closed[s]
  BY <1>1 DEF ForwarderInv, ForwarderOK
<1>3. /\ DOMAIN offset' = Stream /\ DOMAIN offset'[s] = left
      /\ \A t \in left : offset'[s][t] = offset[s][t]
      /\ \A r \in Stream \ {s} : offset'[r] = offset[r]
  BY <1>1 DEF TypeOK
<1>4. /\ writing' \in [Stream -> SUBSET {"console", "log"}]
      /\ writing'[s] = writing[s] \ {"console"}
      /\ \A r \in Stream \ {s} : writing'[r] = writing[r]
  BY <1>1 DEF TypeOK
<1>5. writing[s] = {t \in DOMAIN offset[s] : offset[s][t] < Len(buffer[s])}
  BY <1>2 DEF ForwarderOK
<1>6. writing'[s] = {t \in DOMAIN offset'[s] : offset'[s][t] < Len(buffer'[s])}
  BY <1>1, <1>3, <1>4, <1>5
<1>7. /\ console' \in [Stream -> Seq(Piece)] /\ log' \in [Files -> Seq(Piece)]
      /\ pipe' \in [Stream -> Seq(Piece)] /\ buffer' \in [Stream -> Seq(Piece)]
      /\ src' \in [Stream -> BOOLEAN]
  BY <1>1 DEF TypeOK, outputVars
<1>8. \A t \in DOMAIN offset'[s] : offset'[s][t] \in 0..Len(buffer'[s])
  BY <1>1, <1>3 DEF TypeOK
<1>9. /\ LogFile(s) # None => "log" \in left
      /\ left = {} => writing'[s] = {}
      /\ ~src'[s] => pipe'[s] = <<>> /\ ~HasPipe(s)
  BY <1>1, <1>2, <1>4, <1>5 DEF ForwarderOK
<1> HIDE DEF left
<1>10. Forwards(s, left = {} /\ ~src[s])
  BY <1>1, <1>2, <1>3, <1>4, <1>6, <1>7, <1>8, <1>9 DEF Forwards, left
<1> QED
  BY <1>1, <1>3, <1>10 DEF left

\* writeData(): called as in WriteFacts.
LEMMA WriteForwards ==
  ASSUME TypeOK, ForwarderInv, NEW s \in Stream, NEW t \in writing[s], WriteData(s, t)
  PROVE  Forwards(s, ~src[s] /\ buffer'[s] = <<>>) /\ UNCHANGED pipe
<1>1. PICK w, n \in Nat :
        /\ w > 0 /\ offset[s][t] + w <= Len(buffer[s]) /\ n <= Len(buffer[s])
        /\ Put(s, t, SubSeq(buffer[s], offset[s][t] + 1, offset[s][t] + w))
        /\ buffer' = [buffer EXCEPT ![s] = SubSeq(buffer[s], n + 1, Len(buffer[s]))]
        /\ DOMAIN offset' = Stream /\ DOMAIN offset'[s] = DOMAIN offset[s]
        /\ \A r \in Stream : r # s => offset'[r] = offset[r]
        /\ \A u \in DOMAIN offset[s] :
             /\ offset'[s][u] = (IF u = t THEN offset[s][u] + w ELSE offset[s][u]) - n
             /\ offset'[s][u] >= 0
        /\ \E u \in DOMAIN offset[s] : offset'[s][u] = 0
        /\ writing' = [writing EXCEPT ![s] = IF offset'[s][t] >= Len(buffer'[s])
                                             THEN writing[s] \ {t} ELSE writing[s]]
        /\ CallBack(s, ~src[s] /\ buffer'[s] = <<>>)
  BY WriteFacts
<1>2. /\ Watching /\ UNCHANGED <<pipe, src, broken, fd, written, released, sigChld, chld>>
  BY DEF WriteData
<1>3. ForwarderOK(s) /\ ~closed[s]
  BY DEF ForwarderInv, ForwarderOK
<1>4. writing[s] = {u \in DOMAIN offset[s] : offset[s][u] < Len(buffer[s])}
  BY <1>3 DEF ForwarderOK
<1>5. /\ buffer[s] \in Seq(Piece) /\ Len(buffer[s]) \in Nat /\ t \in DOMAIN offset[s]
      /\ \A u \in DOMAIN offset[s] : offset[s][u] \in Nat /\ offset[s][u] <= Len(buffer[s])
      /\ offset[s][t] \in Nat
  BY <1>4 DEF TypeOK
<1> DEFINE rest == SubSeq(buffer[s], n + 1, Len(buffer[s]))
           data == SubSeq(buffer[s], offset[s][t] + 1, offset[s][t] + w)
<1>6. rest \in Seq(Piece) /\ Len(rest) = Len(buffer[s]) - n
  BY <1>1, <1>5, Suffix
<1>7. data \in Seq(Piece)
  BY <1>1, <1>5, Part
<1>8. buffer' = [buffer EXCEPT ![s] = rest] /\ Put(s, t, data)
  BY <1>1
<1> HIDE DEF rest, data
<1>9. /\ buffer' \in [Stream -> Seq(Piece)] /\ buffer'[s] \in Seq(Piece)
      /\ Len(buffer'[s]) = Len(buffer[s]) - n
      /\ \A r \in Stream \ {s} : buffer'[r] = buffer[r]
  BY <1>6, <1>8 DEF TypeOK
<1>10. console' \in [Stream -> Seq(Piece)] /\ log' \in [Files -> Seq(Piece)]
  <2>1. CASE t = "console"
    <3>1. console' = [console EXCEPT ![s] = console[s] \o data] /\ log' = log
      BY <1>8, <2>1 DEF Put
    <3>2. console[s] \in Seq(Piece)
      BY DEF TypeOK
    <3>3. console[s] \o data \in Seq(Piece)
      BY ONLY <1>7, <3>2, Concat
    <3> QED
      BY <3>1, <3>3 DEF TypeOK
  <2>2. CASE t # "console"
    <3>1. log' = [log EXCEPT ![LogFile(s)] = log[LogFile(s)] \o data] /\ console' = console
      BY <1>8, <2>2 DEF Put
    <3>2. LogFile(s) \in Files
      BY <1>5, <2>2, LogFiles DEF TypeOK
    <3>3. log[LogFile(s)] \in Seq(Piece)
      BY <3>2 DEF TypeOK
    <3>4. log[LogFile(s)] \o data \in Seq(Piece)
      BY ONLY <1>7, <3>3, Concat
    <3> QED
      BY <3>1, <3>4 DEF TypeOK
  <2> QED
    BY <2>1, <2>2
<1>11. \A u \in DOMAIN offset[s] : offset'[s][u] \in 0..Len(buffer'[s])
  <2> SUFFICES ASSUME NEW u \in DOMAIN offset[s] PROVE offset'[s][u] \in 0..Len(buffer'[s])
    OBVIOUS
  <2>1. offset[s][u] \in Nat /\ offset[s][u] <= Len(buffer[s])
    BY <1>5
  <2>2. /\ offset'[s][u] = (IF u = t THEN offset[s][u] + w ELSE offset[s][u]) - n
        /\ offset'[s][u] >= 0
    BY <1>1
  <2>3. u = t => offset[s][u] + w <= Len(buffer[s])
    BY <1>1
  <2>4. Len(buffer'[s]) = Len(buffer[s]) - n /\ Len(buffer[s]) \in Nat
    BY <1>5, <1>9
  <2> QED
    BY <2>1, <2>2, <2>3, <2>4
<1>12. /\ writing' \in [Stream -> SUBSET {"console", "log"}]
       /\ writing'[s] = IF offset'[s][t] >= Len(buffer'[s]) THEN writing[s] \ {t} ELSE writing[s]
       /\ \A r \in Stream \ {s} : writing'[r] = writing[r]
  BY <1>1 DEF TypeOK
<1>13. ASSUME NEW u \in DOMAIN offset[s]
       PROVE  u \in writing'[s] <=> offset'[s][u] < Len(buffer'[s])
  <2>1. CASE u = t
    BY <1>5, <1>9, <1>11, <1>12, <2>1
  <2>2. CASE u # t
    <3>1. u \in writing'[s] <=> u \in writing[s]
      BY <1>12, <2>2
    <3>2. offset'[s][u] = offset[s][u] - n
      BY <1>1, <2>2
    <3> QED
      BY <1>4, <1>5, <1>9, <3>1, <3>2
  <2> QED
    BY <2>1, <2>2
<1>14. writing'[s] = {u \in DOMAIN offset'[s] : offset'[s][u] < Len(buffer'[s])}
  <2>1. writing'[s] \subseteq DOMAIN offset[s]
    BY <1>4, <1>12
  <2> QED
    BY <1>1, <1>13, <2>1
<1>15. buffer'[s] = <<>> => writing'[s] = {}
  <2>1. buffer'[s] = <<>> => Len(buffer'[s]) = 0
    OBVIOUS
  <2>2. Len(buffer'[s]) = 0 => \A u \in DOMAIN offset[s] : u \notin writing'[s]
    BY <1>11, <1>13
  <2> QED
    BY <1>1, <1>14, <2>1, <2>2
<1>16. writing'[s] = {} => buffer'[s] = <<>>
  <2> SUFFICES ASSUME writing'[s] = {} PROVE buffer'[s] = <<>>
    OBVIOUS
  <2>1. PICK u \in DOMAIN offset[s] : offset'[s][u] = 0
    BY <1>1
  <2>2. ~(0 < Len(buffer'[s]))
    BY <1>13, <2>1
  <2> QED
    BY <1>9, <2>2
<1>17. /\ pipe' \in [Stream -> Seq(Piece)] /\ src' \in [Stream -> BOOLEAN]
       /\ LogFile(s) # None => "log" \in DOMAIN offset[s]
       /\ ~src'[s] => pipe'[s] = <<>> /\ ~HasPipe(s)
  BY <1>2, <1>3 DEF TypeOK, ForwarderOK
<1> DEFINE called == ~src[s] /\ buffer'[s] = <<>>
<1>18. /\ called => ~src'[s] /\ writing'[s] = {} /\ buffer'[s] = <<>>
       /\ ~src'[s] /\ writing'[s] = {} => called
       /\ called \in BOOLEAN /\ CallBack(s, called)
  BY <1>1, <1>2, <1>15, <1>16
<1>19. /\ \E u \in DOMAIN offset'[s] : offset'[s][u] = 0
       /\ DOMAIN offset' = Stream /\ DOMAIN offset'[s] = DOMAIN offset[s]
       /\ \A r \in Stream \ {s} : offset'[r] = offset[r]
       /\ \A u \in DOMAIN offset'[s] : offset'[s][u] \in 0..Len(buffer'[s])
  BY <1>1, <1>11
<1> HIDE DEF called
<1>20. Forwards(s, called)
  BY <1>2, <1>3, <1>9, <1>10, <1>12, <1>14, <1>17, <1>18, <1>19 DEF Forwards
<1> QED
  BY <1>2, <1>20 DEF called

-----------------------------------------------------------------------------
(***************************************************************************)
(* The steps, without the contents of the log files.                       *)
(***************************************************************************)

ControlInv == TypeOK /\ ForwarderInv /\ ReportInv /\ HandlerInv

LEMMA ControlInit == Init => ControlInv
<1> SUFFICES ASSUME Init PROVE ControlInv
  OBVIOUS
<1>1. <<>> \in Seq(Piece) /\ Len(<<>>) = 0
  OBVIOUS
<1>2. /\ pipe \in [Stream -> Seq(Piece)] /\ buffer \in [Stream -> Seq(Piece)]
      /\ console \in [Stream -> Seq(Piece)] /\ log \in [Files -> Seq(Piece)]
      /\ DOMAIN offset = Stream
  BY <1>1 DEF Init
<1>3. ASSUME NEW s \in Stream
      PROVE  /\ DOMAIN offset[s] = Target(s) /\ pipe[s] = <<>> /\ buffer[s] = <<>>
             /\ Len(buffer[s]) = 0 /\ \A t \in DOMAIN offset[s] : offset[s][t] = 0
             /\ writing[s] = {} /\ src[s] /\ ~closed[s]
  BY <1>1 DEF Init
<1>4. TypeOK
  <2>1. \A s \in Stream : /\ DOMAIN offset[s] \subseteq Target(s)
                          /\ \A t \in DOMAIN offset[s] : offset[s][t] \in 0..Len(buffer[s])
    BY <1>3
  <2>2. written \in [Stream -> Nat] /\ \A s \in Stream : written[s] <= MaxOut[s]
    BY DEF Init
  <2> QED
    BY <1>2, <2>1, <2>2 DEF Init, TypeOK, Ended
<1>5. ForwarderInv
  <2> SUFFICES ASSUME NEW s \in Stream PROVE ForwarderOK(s)
    BY DEF ForwarderInv
  <2>1. "console" \in Target(s) /\ (LogFile(s) # None => "log" \in Target(s))
    BY DEF Target
  <2>2. {t \in DOMAIN offset[s] : offset[s][t] < Len(buffer[s])} = {}
    BY <1>3
  <2> QED
    BY <1>3, <2>1, <2>2 DEF ForwarderOK
<1>6. "out" \in Stream /\ "err" \in Stream /\ ~AllClosed
  BY <1>3 DEF Stream, AllClosed
<1>7. ReportInv
  BY <1>6 DEF Init, ReportInv, ExitReported
<1>8. HandlerInv
  BY <1>6 DEF Init, HandlerInv, NoStrayUsr1
<1> QED
  BY <1>4, <1>5, <1>7, <1>8 DEF ControlInv

\* A step that leaves the forwarders alone.
LEMMA ForwarderFrame ==
  ASSUME ForwarderInv, UNCHANGED <<forwarderVars, closed>>, broken \subseteq broken',
         \A r \in Stream : HasPipe(r)' => HasPipe(r),
         \A r \in Stream : ~src[r] => pipe'[r] = pipe[r]
  PROVE  ForwarderInv'
<1> SUFFICES ASSUME NEW r \in Stream PROVE ForwarderOK(r)'
  BY DEF ForwarderInv
<1>1. /\ ForwarderOK(r) /\ (broken' = {} => broken = {})
      /\ UNCHANGED <<src, buffer, offset, writing, closed>>
  BY DEF ForwarderInv, forwarderVars
<1> QED
  BY <1>1 DEF ForwarderOK

\* The child writes.
LEMMA OutputControl ==
  ASSUME ControlInv, NEW s \in Stream, Output(s)
  PROVE  ControlInv'
<1> USE DEF ControlInv
<1> DEFINE piece == <<s, written[s] + 1>>
<1>1. piece \in Piece /\ written' \in [Stream -> Nat] /\ \A r \in Stream : written'[r] <= MaxOut[r]
  BY DEF Output, TypeOK, Piece
<1>2. log' \in [Files -> Seq(Piece)]
  <2>1. log' = [f \in Files |-> IF f = fd[s] THEN Append(log[f], piece) ELSE log[f]]
    BY DEF Output
  <2> HIDE DEF piece
  <2>2. \A f \in Files : log[f] \in Seq(Piece) /\ Append(log[f], piece) \in Seq(Piece)
    BY <1>1 DEF TypeOK
  <2> QED
    BY <2>1, <2>2
<1>3. /\ pipe' \in [Stream -> Seq(Piece)]
      /\ \A r \in Stream : ~src[r] => pipe'[r] = pipe[r]
  <2>1. CASE fd[s] = "pipe" /\ Watching
    <3>1. pipe' = [pipe EXCEPT ![s] = Append(pipe[s], piece)] /\ child \notin Ended
      BY <2>1 DEF Output, Ended
    <3>2. src[s]
      BY <2>1, <3>1 DEF ForwarderInv, ForwarderOK, HasPipe
    <3> HIDE DEF piece
    <3>3. Append(pipe[s], piece) \in Seq(Piece)
      BY <1>1 DEF TypeOK
    <3> QED
      BY <3>1, <3>2, <3>3 DEF TypeOK
  <2>2. CASE ~(fd[s] = "pipe" /\ Watching)
    BY <2>2 DEF Output, TypeOK
  <2> QED
    BY <2>1, <2>2
<1>4. UNCHANGED <<child, status, fd, usr1, released, console, broken, watcherVars, forwarderVars>>
  BY DEF Output
<1>5. TypeOK'
  BY <1>1, <1>2, <1>3, <1>4 DEF TypeOK, watcherVars, forwarderVars
<1>6. ForwarderInv'
  BY <1>3, <1>4, ForwarderFrame DEF watcherVars, HasPipe
<1>7. ReportInv' /\ HandlerInv'
  BY <1>4 DEF ReportInv, HandlerInv, AllClosed, Watching, ExitReported, NoStrayUsr1, watcherVars
<1> QED
  BY <1>5, <1>6, <1>7

\* The steps of detach(), of the signal handlers and of the kernel.
LEMMA ChildControl ==
  ASSUME ControlInv, Detach \/ Resume \/ LogReopen \/ Die \/ Notify
  PROVE  ControlInv'
<1> USE DEF ControlInv
<1>1. /\ UNCHANGED <<pipe, outputVars, broken, forwarderVars, written>>
      /\ UNCHANGED <<watcher, closed, sigChld, timer, sentTo>>
  BY DEF Detach, Resume, LogReopen, Die, Notify, watcherVars
<1>2. /\ fd' \in [Stream -> Files \cup {"pipe", None}]
      /\ \A r \in Stream : fd'[r] = "pipe" => fd[r] = "pipe"
  <2>1. CASE Detach \/ Resume \/ Die \/ Notify
    <3>1. CASE UNCHANGED fd
      BY <3>1 DEF TypeOK
    <3>2. CASE \E s \in Stream : Redirect(s)
      <4>1. PICK s \in Stream : fd' = [fd EXCEPT ![s] = LogFile(s)]
        BY <3>2 DEF Redirect
      <4>2. LogFile(s) \in Files \cup {None} /\ LogFile(s) # "pipe"
        BY LogFiles
      <4> QED
        BY <4>1, <4>2 DEF TypeOK
    <3> QED
      BY <2>1, <3>1, <3>2 DEF Detach, Resume, Die, Notify
  <2>2. CASE LogReopen
    BY <2>2 DEF LogReopen, TypeOK, Files
  <2> QED
    BY <2>1, <2>2
<1>3. /\ child' \in {"init", "blocked", "suspended", "daemon"} \cup Ended
      /\ status' \in {None, "0", "1", "signal"} /\ (status' = None <=> child' \notin Ended)
      /\ usr1' \in BOOLEAN /\ released' \in BOOLEAN /\ chld' \in BOOLEAN
      /\ child \in Ended => child' \in Ended
  <2>1. CASE Detach
    BY <2>1 DEF Detach, Redirect, watcherVars, TypeOK, Ended
  <2>2. CASE Resume
    BY <2>2 DEF Resume, watcherVars, TypeOK, Ended
  <2>3. CASE LogReopen \/ Die \/ Notify
    BY <2>3 DEF LogReopen, Die, Notify, watcherVars, TypeOK, Ended
  <2> QED
    BY <2>1, <2>2, <2>3
<1>4. TypeOK'
  BY <1>1, <1>2, <1>3 DEF TypeOK, outputVars, forwarderVars
<1>5. ForwarderInv'
  <2>1. \A r \in Stream : HasPipe(r)' => HasPipe(r)
    BY <1>2, <1>3 DEF HasPipe
  <2> QED
    BY <1>1, <2>1, ForwarderFrame
<1>6. /\ (usr1' \/ released' => sentTo # None) /\ (child' = "daemon" => released')
      /\ sigChld \/ chld' => child' = "dead"
  <2>1. CASE Detach
    BY <2>1 DEF Detach, Redirect, watcherVars, ReportInv
  <2>2. CASE Resume
    BY <2>2 DEF Resume, watcherVars, ReportInv
  <2>3. CASE LogReopen \/ Die \/ Notify
    BY <2>3 DEF LogReopen, Die, Notify, watcherVars, ReportInv, Ended
  <2> QED
    BY <2>1, <2>2, <2>3
<1>7. ReportInv'
  BY <1>1, <1>6 DEF ReportInv, AllClosed, Watching, ExitReported
<1>8. HandlerInv'
  <2>1. NoStrayUsr1 => NoStrayUsr1'
    BY <1>1 DEF NoStrayUsr1
  <2>2. ASSUME ~HupEarly \/ stderrLog = None, child' = "init"
        PROVE  fd'["err"] = "pipe"
    <3>1. child = "init" /\ fd["err"] = "pipe" /\ "err" \in Stream
      <4>1. child = "init"
        BY <2>2 DEF Detach, Redirect, Resume, LogReopen, Die, Notify
      <4> QED
        BY <2>2, <4>1 DEF HandlerInv, Stream
    <3>2. CASE LogReopen
      BY <2>2, <3>1, <3>2 DEF LogReopen
    <3>3. CASE Detach
      BY <2>2, <3>1, <3>3 DEF Detach, Redirect
    <3> QED
      BY <3>1, <3>2, <3>3 DEF Resume, Die, Notify
  <2> QED
    BY <2>1, <2>2 DEF HandlerInv
<1> QED
  BY <1>4, <1>5, <1>7, <1>8

\* The steps of the watcher that are not those of a forwarder.
LEMMA WatcherControl ==
  ASSUME ControlInv,
         (\E s \in Stream : Break(s) \/ Pipe(s) \/ WriteFails(s)) \/ SigChld \/ ChildOk \/ Leave
  PROVE  ControlInv'
<1> USE DEF ControlInv
<1>1. UNCHANGED <<childVars, pipe, outputVars, closed, sentTo, forwarderVars>>
      /\ broken \subseteq broken' /\ broken' \subseteq Stream
  <2>1. CASE \E s \in Stream : Break(s)
    BY <2>1 DEF Break, watcherVars, TypeOK
  <2>2. CASE (\E s \in Stream : Pipe(s) \/ WriteFails(s)) \/ SigChld \/ ChildOk \/ Leave
    BY <2>2 DEF Pipe, WriteFails, SigChld, ChildOk, Leave, TypeOK
  <2> QED
    BY <2>1, <2>2
<1>2. HandlerInv'
  BY <1>1 DEF HandlerInv, NoStrayUsr1, childVars
<1>3. ForwarderInv'
  BY <1>1, ForwarderFrame DEF HasPipe, childVars
<1>4. /\ watcher' \in {"run", "terminate", "0", "1", "127", "signal", "killed", "failed"}
      /\ sigChld' \in BOOLEAN /\ chld' \in BOOLEAN /\ timer' \in BOOLEAN
      /\ ReportInv'
  <2>1. CASE \E s \in Stream : Break(s)
    <3>1. UNCHANGED watcherVars /\ broken' # {}
      BY <2>1 DEF Break
    <3> QED
      BY <1>1, <3>1 DEF watcherVars, childVars, TypeOK, ReportInv, AllClosed, Watching, ExitReported
  <2>2. CASE \E s \in Stream : Pipe(s) \/ WriteFails(s)
    <3>1. Watching /\ watcher' \in {"killed", "failed"} /\ UNCHANGED <<broken, sigChld, chld, timer>>
      BY <2>2 DEF Pipe, WriteFails
    <3>2. UNCHANGED <<child, usr1, released, closed, sentTo>> /\ AllClosed' = AllClosed
      BY <1>1 DEF childVars, AllClosed
    <3>3. ReportInv'
      BY <3>1, <3>2 DEF ReportInv, Watching, ExitReported
    <3> QED
      BY <3>1, <3>3 DEF TypeOK
  <2>3. CASE SigChld
    <3>1. /\ Watching /\ chld /\ chld' = FALSE /\ sigChld' = TRUE /\ timer' = timer
          /\ IF AllClosed THEN ChildDied ELSE watcher' = watcher
          /\ broken' = broken
      BY <2>3 DEF SigChld, AllClosed
    <3>2. child = "dead" /\ ChildDied => watcher' \in {"1", "127", "signal"}
      BY DEF ChildDied, TypeOK, Ended
    <3>3. child = "dead" /\ child' = child /\ AllClosed' = AllClosed
      BY <1>1, <3>1 DEF ReportInv, childVars, AllClosed
    <3>4. CASE AllClosed
      BY <1>1, <3>1, <3>2, <3>3, <3>4 DEF childVars, TypeOK, ReportInv, Watching, ExitReported
    <3>5. CASE ~AllClosed
      BY <1>1, <3>1, <3>3, <3>5 DEF childVars, TypeOK, ReportInv, Watching, ExitReported
    <3> QED
      BY <3>4, <3>5
  <2>4. CASE ChildOk
    <3>1. /\ watcher = "run" /\ timer /\ (sentTo \in Ended => sigChld)
          /\ timer' = FALSE /\ watcher' = "terminate" /\ UNCHANGED <<broken, sigChld, chld>>
      BY <2>4 DEF ChildOk
    <3>2. sentTo \notin Ended \cup {None}
      BY <3>1 DEF ReportInv, Watching
    <3> QED
      BY <1>1, <3>1, <3>2 DEF childVars, TypeOK, ReportInv, AllClosed, Watching, ExitReported
  <2>5. CASE Leave
    <3>1. /\ watcher' = "0" /\ UNCHANGED <<broken, sigChld, chld, timer>>
          /\ watcher = "terminate"
             \/ (watcher = "run" /\ ~timer /\ \A s \in Stream : ~src[s] /\ writing[s] = {})
      BY <2>5 DEF Leave
    <3>2. broken # {} \/ sentTo \notin Ended \cup {None}
      <4>1. CASE watcher = "terminate"
        BY <4>1 DEF ReportInv
      <4>2. CASE watcher = "run" /\ ~timer /\ \A s \in Stream : ~src[s] /\ writing[s] = {}
        <5>1. broken = {} => AllClosed
          BY <4>2 DEF ForwarderInv, ForwarderOK, AllClosed
        <5> QED
          BY <4>2, <5>1 DEF ReportInv, Watching
      <4> QED
        BY <3>1, <4>1, <4>2
    <3> QED
      BY <1>1, <3>1, <3>2 DEF childVars, TypeOK, ReportInv, AllClosed, Watching, ExitReported
  <2> QED
    BY <2>1, <2>2, <2>3, <2>4, <2>5
<1>5. TypeOK'
  BY <1>1, <1>4 DEF TypeOK, childVars, outputVars, forwarderVars
<1> QED
  BY <1>2, <1>3, <1>4, <1>5

\* Every step keeps the invariant of the control.
LEMMA ControlStep == ControlInv /\ [Next]_vars => ControlInv'
<1> SUFFICES ASSUME ControlInv, [Next]_vars PROVE ControlInv'
  OBVIOUS
<1>1. ASSUME NEW s \in Stream, Output(s)
      PROVE  ControlInv'
  BY <1>1, OutputControl
<1>2. CASE Detach \/ Resume \/ LogReopen \/ Die \/ Notify
  BY <1>2, ChildControl
<1>3. CASE (\E s \in Stream : Break(s) \/ Pipe(s) \/ WriteFails(s)) \/ SigChld \/ ChildOk \/ Leave
  BY <1>3, WatcherControl
<1>4. ASSUME NEW s \in Stream, NEW called, Forwards(s, called)
      PROVE  ControlInv'
  BY <1>4, ForwardsKeeps DEF ControlInv
<1>5. ASSUME NEW s \in Stream, ReadData(s)
      PROVE  ControlInv'
  <2>1. CASE pipe[s] # <<>>
    BY <1>4, <1>5, <2>1, ReadForwards DEF ControlInv
  <2>2. CASE pipe[s] = <<>>
    BY <1>4, <1>5, <2>2, EndForwards DEF ControlInv
  <2> QED
    BY <2>1, <2>2
<1>6. ASSUME NEW s \in Stream, Drop(s)
      PROVE  ControlInv'
  BY <1>4, <1>6, DropForwards DEF ControlInv
<1>7. ASSUME NEW s \in Stream, NEW t \in writing[s], WriteData(s, t)
      PROVE  ControlInv'
  BY <1>4, <1>7, WriteForwards DEF ControlInv
<1>8. CASE UNCHANGED vars
  <2>1. /\ UNCHANGED <<child, status, fd, usr1, written, released, pipe, log, console, broken>>
        /\ UNCHANGED <<watcher, closed, sigChld, chld, timer, sentTo, src, buffer, offset, writing>>
    BY <1>8 DEF vars, childVars, outputVars, watcherVars, forwarderVars
  <2>2. TypeOK'
    BY <2>1 DEF TypeOK, ControlInv
  <2>3. ForwarderInv'
    BY <2>1, ForwarderFrame DEF ControlInv, forwarderVars, HasPipe
  <2>4. ReportInv' /\ HandlerInv'
    BY <2>1 DEF ControlInv, ReportInv, HandlerInv, AllClosed, Watching, ExitReported, NoStrayUsr1
  <2> QED
    BY <2>2, <2>3, <2>4 DEF ControlInv
<1> QED
  BY <1>1, <1>2, <1>3, <1>5, <1>6, <1>7, <1>8 DEF Next, Forward

-----------------------------------------------------------------------------
(***************************************************************************)
(* The contents of the log files.                                          *)
(***************************************************************************)

\* m pieces of stream s, from number k + 1 on, are written to the end of a log file q.
LEMMA Lengthened ==
  ASSUME NEW q \in Seq(Piece), NEW z \in Seq(Piece), NEW s \in Stream, NEW k \in Int, NEW m \in Nat,
         Len(z) = Len(q) + m,
         \A i \in 1..Len(q) : z[i] = q[i],
         \A i \in 1..m : z[Len(q) + i] = <<s, k + i>>,
         InOrder(q),
         \A i \in 1..Len(q) : q[i][1] = s => q[i][2] <= k
  PROVE  /\ InOrder(z)
         /\ \A i \in 1..Len(z) : z[i][1] = s => z[i][2] <= k + m
         /\ \A i \in 1..Len(z) : z[i][1] # s => \E j \in 1..Len(q) : q[j] = z[i]
         /\ \A e : Contains(q, e) => Contains(z, e)
         /\ \A n \in 1..m : Contains(z, <<s, k + n>>)
<1>1. /\ Len(q) \in Nat /\ \A i \in 1..Len(q) : q[i][2] \in Nat
      /\ \A i \in 1..Len(q) : i \in 1..Len(z)
      /\ \A i \in 1..m : Len(q) + i \in 1..Len(z)
  <2>1. Len(q) \in Nat /\ \A i \in 1..Len(q) : q[i] \in Piece
    OBVIOUS
  <2>2. \A p \in Piece : p[2] \in Nat
    BY DEF Piece
  <2>3. \A i \in 1..Len(q) : q[i][2] \in Nat
    BY <2>1, <2>2
  <2>4. \A i \in 1..Len(q) : i \in 1..Len(z)
    BY <2>1
  <2>5. \A i \in 1..m : Len(q) + i \in 1..Len(z)
    BY <2>1
  <2> QED
    BY <2>1, <2>3, <2>4, <2>5
<1>2. ASSUME NEW i \in 1..Len(z)
      PROVE  \/ i \in 1..Len(q) /\ z[i] = q[i]
             \/ \E d \in 1..m : i = Len(q) + d /\ z[i] = <<s, k + d>> /\ z[i][1] = s /\ z[i][2] = k + d
  <2>1. CASE i <= Len(q)
    <3>1. i \in 1..Len(q)
      BY <1>1, <2>1
    <3> QED
      BY <3>1
  <2>2. CASE i > Len(q)
    <3>1. i - Len(q) \in 1..m /\ i = Len(q) + (i - Len(q))
      BY <1>1, <2>2
    <3>2. z[i] = <<s, k + (i - Len(q))>>
      BY <3>1
    <3> QED
      BY <3>1, <3>2
  <2>3. i <= Len(q) \/ i > Len(q)
    BY <1>1
  <2> QED
    BY <2>1, <2>2, <2>3
<1>3. InOrder(z)
  <2> SUFFICES ASSUME NEW i \in 1..Len(z), NEW j \in 1..Len(z), i < j, z[i][1] = z[j][1]
               PROVE  z[i][2] < z[j][2]
    BY DEF InOrder
  <2>1. CASE j \in 1..Len(q)
    <3>1. i \in 1..Len(q) /\ z[i] = q[i] /\ z[j] = q[j]
      BY <1>1, <2>1
    <3> QED
      BY <2>1, <3>1 DEF InOrder
  <2>2. CASE j \notin 1..Len(q)
    <3>1. PICK d \in 1..m : j = Len(q) + d /\ z[j][1] = s /\ z[j][2] = k + d
      BY <1>2, <2>2
    <3>2. CASE i \in 1..Len(q)
      <4>1. z[i] = q[i] /\ q[i][1] = s /\ q[i][2] <= k /\ q[i][2] \in Nat
        BY <1>1, <3>1, <3>2
      <4> QED
        BY <3>1, <4>1
    <3>3. CASE i \notin 1..Len(q)
      <4>1. PICK c \in 1..m : i = Len(q) + c /\ z[i][2] = k + c
        BY <1>2, <3>3
      <4>2. c < d
        BY <1>1, <3>1, <4>1
      <4> QED
        BY <3>1, <4>1, <4>2
    <3> QED
      BY <3>2, <3>3
  <2> QED
    BY <2>1, <2>2
<1>4. ASSUME NEW i \in 1..Len(z), z[i][1] = s
      PROVE  z[i][2] <= k + m
  <2>1. CASE i \in 1..Len(q)
    <3>1. z[i] = q[i] /\ q[i][2] <= k /\ q[i][2] \in Nat
      BY <1>1, <1>4, <2>1
    <3> QED
      BY <3>1
  <2>2. CASE i \notin 1..Len(q)
    <3>1. PICK d \in 1..m : z[i][2] = k + d
      BY <1>2, <2>2
    <3> QED
      BY <3>1
  <2> QED
    BY <2>1, <2>2
<1>5. ASSUME NEW i \in 1..Len(z), z[i][1] # s
      PROVE  \E j \in 1..Len(q) : q[j] = z[i]
  BY <1>2, <1>5
<1>6. ASSUME NEW e, Contains(q, e)
      PROVE  Contains(z, e)
  BY <1>1, <1>6 DEF Contains
<1>7. ASSUME NEW n \in 1..m
      PROVE  Contains(z, <<s, k + n>>)
  BY <1>1 DEF Contains
<1> QED
  BY <1>3, <1>4, <1>5, <1>6, <1>7

\* What DataInv says without SIGHUP before detach().
LogsOK ==
  \A f \in Files : /\ InOrder(log[f])
                   /\ \A i \in 1..Len(log[f]) : log[f][i][2] <= written[log[f][i][1]]

\* A step of a forwarder keeps what the forwarders have in common, if it keeps the
\* order in the log files and leaves no gap.
LEMMA ForwardsData ==
  ASSUME ControlInv, ControlInv', DataInv, ~HupEarly, NEW s \in Stream, NEW called,
         Forwards(s, called), LogsOK',
         \A r \in Stream : LogFile(r) # None => NoGap(r)'
  PROVE  DataInv'
<1>1. child' = child /\ fd' = fd
  BY ForwardsKeeps DEF ControlInv, Forwards
<1>2. ASSUME NEW r \in Stream, LogFile(r) # None, AllClosed'
      PROVE  Complete(r)'
  <2>1. ForwarderOK(r)' /\ closed'[r]
    BY <1>2 DEF ControlInv, ForwarderInv, AllClosed
  <2>2. pipe'[r] = <<>> /\ buffer'[r] = <<>> /\ "log" \in DOMAIN offset'[r]
    BY <1>2, <2>1 DEF ForwarderOK
  <2>3. Len(pipe'[r]) = 0 /\ Len(buffer'[r]) = 0
    BY <2>2
  <2>4. offset'[r]["log"] \in 0..0 /\ written'[r] \in Nat
    BY <2>2, <2>3 DEF ControlInv, TypeOK
  <2>5. Forwarded(r)' = written'[r]
    BY <2>3, <2>4 DEF Forwarded
  <2>6. LogFile(r) \in Files
    BY <1>2, LogFiles
  <2>7. \A n \in 1..Forwarded(r)' : Contains(log'[LogFile(r)], <<r, n>>)
    BY <1>2 DEF NoGap
  <2> QED
    BY <2>5, <2>6, <2>7 DEF Complete
<1>3. /\ child = "init" => \A r \in Stream : fd[r] = "pipe"
      /\ child \in {"suspended", "daemon"} =>
           \A r \in Stream : fd[r] # "pipe" /\ (LogFile(r) # None => fd[r] \in Files)
  BY DEF DataInv
<1> QED
  BY <1>1, <1>2, <1>3 DEF DataInv, LogsOK

\* What DataInv gives before a step of a forwarder.
LEMMA BeforeForwards ==
  ASSUME ControlInv, DataInv, ~HupEarly, NEW s \in Stream, NEW called, Forwards(s, called)
  PROVE  LogsOK /\ \A r \in Stream : LogFile(r) # None => NoGap(r)
<1>1. Watching /\ ~AllClosed
  BY DEF Forwards, AllClosed
<1>2. ~released
  BY <1>1 DEF ControlInv, ReportInv
<1> QED
  BY <1>1, <1>2 DEF DataInv, LogsOK

\* The forwarder of the other stream.
LEMMA OtherForwarder ==
  ASSUME NEW s \in Stream, NEW called, Forwards(s, called), NEW r \in Stream, r # s, NoGap(r),
         log'[LogFile(r)] = log[LogFile(r)]
  PROVE  NoGap(r)'
<1>1. /\ pipe'[r] = pipe[r] /\ buffer'[r] = buffer[r] /\ offset'[r] = offset[r]
      /\ written' = written
  BY DEF Forwards
<1> QED
  BY <1>1 DEF NoGap, Forwarded

\* readData() moves data from the pipe to the buffer.
LEMMA ReadNoGap ==
  ASSUME ControlInv, NEW s \in Stream, LogFile(s) # None, NoGap(s), ReadData(s), pipe[s] # <<>>
  PROVE  NoGap(s)'
<1>1. ForwarderOK(s) /\ "log" \in DOMAIN offset[s]
  BY DEF ControlInv, ForwarderInv, ForwarderOK
<1>2. PICK n \in Nat :
        /\ n > 0 /\ n <= Len(pipe[s])
        /\ Len(pipe'[s]) = Len(pipe[s]) - n
        /\ \A i \in 1..Len(pipe'[s]) : pipe'[s][i] = pipe[s][n + i]
        /\ Len(buffer'[s]) = Len(buffer[s]) + n
        /\ \A i \in 1..Len(buffer[s]) : buffer'[s][i] = buffer[s][i]
        /\ \A i \in 1..n : buffer'[s][Len(buffer[s]) + i] = pipe[s][i]
  BY <1>1, ReadForwards DEF ControlInv
<1>3. written' = written /\ offset' = offset /\ log' = log
  BY DEF ReadData, outputVars
<1> DEFINE p == Len(pipe[s])
           b == Len(buffer[s])
           x == written[s]
           o == offset[s]["log"]
<1>4. p \in Nat /\ b \in Nat /\ x \in Nat /\ o \in Nat
  BY <1>1 DEF ControlInv, TypeOK
<1>5. /\ \A i \in 1..p : pipe[s][i] = <<s, x - p + i>>
      /\ \A i \in 1..b : buffer[s][i] = <<s, x - p - b + i>>
  BY DEF NoGap
<1>6. Len(pipe'[s]) = p - n /\ Len(buffer'[s]) = b + n /\ n > 0 /\ n <= p
  BY <1>2
<1> HIDE DEF p, b, x, o
<1>7. ASSUME NEW i \in 1..(p - n)
      PROVE  pipe'[s][i] = <<s, x - (p - n) + i>>
  <2>1. n + i \in 1..p /\ i \in 1..Len(pipe'[s]) /\ x - p + (n + i) = x - (p - n) + i
    BY <1>4, <1>6
  <2>2. pipe'[s][i] = pipe[s][n + i] /\ pipe[s][n + i] = <<s, x - p + (n + i)>>
    BY <1>2, <1>5, <2>1
  <2> QED
    BY <2>1, <2>2
<1>8. ASSUME NEW i \in 1..(b + n)
      PROVE  buffer'[s][i] = <<s, x - (p - n) - (b + n) + i>>
  <2>1. x - (p - n) - (b + n) + i = x - p - b + i
    BY <1>4
  <2>2. CASE i <= b
    <3>1. i \in 1..b
      BY <1>4, <2>2
    <3>2. buffer'[s][i] = buffer[s][i] /\ buffer[s][i] = <<s, x - p - b + i>>
      BY <1>2, <1>5, <3>1 DEF b
    <3> QED
      BY <2>1, <3>2
  <2>3. CASE i > b
    <3>1. i - b \in 1..n /\ i - b \in 1..p /\ b + (i - b) = i /\ x - p + (i - b) = x - p - b + i
      BY <1>4, <1>6, <2>3
    <3>2. buffer'[s][b + (i - b)] = pipe[s][i - b] /\ pipe[s][i - b] = <<s, x - p + (i - b)>>
      BY <1>2, <1>5, <3>1 DEF b
    <3> QED
      BY <2>1, <3>1, <3>2
  <2>4. i <= b \/ i > b
    BY <1>4
  <2> QED
    BY <2>2, <2>3, <2>4
<1>9. Forwarded(s)' = Forwarded(s)
  <2>1. Forwarded(s) = x - p - (b - o) /\ Forwarded(s)' = x - (p - n) - ((b + n) - o)
    BY <1>3, <1>6 DEF Forwarded, x, p, b, o
  <2> QED
    BY <1>4, <2>1
<1>10. /\ \A i \in 1..Len(pipe'[s]) : pipe'[s][i] = <<s, written'[s] - Len(pipe'[s]) + i>>
       /\ \A i \in 1..Len(buffer'[s]) :
            buffer'[s][i] = <<s, written'[s] - Len(pipe'[s]) - Len(buffer'[s]) + i>>
  BY <1>3, <1>6, <1>7, <1>8 DEF x
<1>11. /\ \A i \in 1..Len(log'[LogFile(s)]) :
            log'[LogFile(s)][i][1] = s => log'[LogFile(s)][i][2] <= Forwarded(s)'
       /\ \A n1 \in 1..Forwarded(s)' : Contains(log'[LogFile(s)], <<s, n1>>)
  BY <1>3, <1>9 DEF NoGap
<1> QED
  BY <1>10, <1>11 DEF NoGap

\* writeData() removes the start of the buffer, and lengthens a log file.
LEMMA WriteLogs ==
  ASSUME ControlInv, NEW s \in Stream, NEW t \in writing[s], WriteData(s, t), LogsOK,
         \A r \in Stream : LogFile(r) # None => NoGap(r)
  PROVE  LogsOK' /\ \A r \in Stream : LogFile(r) # None => NoGap(r)'
<1>1. PICK w, n \in Nat :
        /\ w > 0 /\ offset[s][t] + w <= Len(buffer[s]) /\ n <= Len(buffer[s])
        /\ Put(s, t, SubSeq(buffer[s], offset[s][t] + 1, offset[s][t] + w))
        /\ buffer' = [buffer EXCEPT ![s] = SubSeq(buffer[s], n + 1, Len(buffer[s]))]
        /\ DOMAIN offset' = Stream /\ DOMAIN offset'[s] = DOMAIN offset[s]
        /\ \A r \in Stream : r # s => offset'[r] = offset[r]
        /\ \A u \in DOMAIN offset[s] :
             /\ offset'[s][u] = (IF u = t THEN offset[s][u] + w ELSE offset[s][u]) - n
             /\ offset'[s][u] >= 0
        /\ \E u \in DOMAIN offset[s] : offset'[s][u] = 0
        /\ writing' = [writing EXCEPT ![s] = IF offset'[s][t] >= Len(buffer'[s])
                                             THEN writing[s] \ {t} ELSE writing[s]]
        /\ CallBack(s, ~src[s] /\ buffer'[s] = <<>>)
  BY WriteFacts DEF ControlInv
<1>2. written' = written /\ pipe' = pipe
  BY DEF WriteData
<1>3. PICK called : Forwards(s, called)
  BY WriteForwards DEF ControlInv
<1>4. /\ ForwarderOK(s) /\ t \in DOMAIN offset[s] /\ DOMAIN offset[s] \subseteq Target(s)
      /\ LogFile(s) # None => "log" \in DOMAIN offset[s]
  BY DEF ControlInv, ForwarderInv, ForwarderOK, TypeOK
<1> DEFINE p == Len(pipe[s])
           b == Len(buffer[s])
           x == written[s]
           o == offset[s]["log"]
<1>5. /\ p \in Nat /\ b \in Nat /\ x \in Nat /\ buffer[s] \in Seq(Piece)
      /\ offset[s][t] \in Nat
  BY <1>4 DEF ControlInv, TypeOK
<1>6. Len(buffer'[s]) = b - n /\ \A i \in 1..(b - n) : buffer'[s][i] = buffer[s][n + i]
  <2> DEFINE rest == SubSeq(buffer[s], n + 1, Len(buffer[s]))
  <2>1. Len(rest) = b - n /\ \A i \in 1..(b - n) : rest[i] = buffer[s][n + i]
    <3>1. n \in Nat /\ n <= Len(buffer[s])
      BY <1>1
    <3> QED
      BY ONLY <1>5, <3>1, Suffix
  <2>2. buffer' = [buffer EXCEPT ![s] = rest]
    BY <1>1
  <2> HIDE DEF rest
  <2>3. buffer'[s] = rest
    BY <2>2 DEF ControlInv, TypeOK
  <2> QED
    BY <2>1, <2>3
<1>7. ASSUME LogFile(s) # None
      PROVE  /\ o \in Nat /\ o <= b /\ Forwarded(s) = x - p - (b - o)
             /\ \A i \in 1..Len(pipe'[s]) : pipe'[s][i] = <<s, written'[s] - Len(pipe'[s]) + i>>
             /\ \A i \in 1..Len(buffer'[s]) :
                  buffer'[s][i] = <<s, written'[s] - Len(pipe'[s]) - Len(buffer'[s]) + i>>
             /\ Forwarded(s)' = IF t = "log" THEN Forwarded(s) + w ELSE Forwarded(s)
  <2>1. NoGap(s) /\ "log" \in DOMAIN offset[s]
    BY <1>4, <1>7
  <2>2. o \in Nat /\ o <= b
    BY <2>1 DEF ControlInv, TypeOK
  <2>3. Forwarded(s) = x - p - (b - o)
    BY DEF Forwarded
  <2>4. \A i \in 1..Len(pipe'[s]) : pipe'[s][i] = <<s, written'[s] - Len(pipe'[s]) + i>>
    BY <1>2, <2>1 DEF NoGap
  <2>5. \A i \in 1..b : buffer[s][i] = <<s, x - p - b + i>>
    BY <2>1 DEF NoGap
  <2>6. offset'[s]["log"] = (IF t = "log" THEN o + w ELSE o) - n
    BY <1>1, <2>1
  <2>7. Forwarded(s)' = x - p - (Len(buffer'[s]) - offset'[s]["log"])
    BY <1>2 DEF Forwarded
  <2> HIDE DEF p, b, x, o
  <2>8. ASSUME NEW i \in 1..(b - n)
        PROVE  buffer'[s][i] = <<s, x - p - (b - n) + i>>
    <3>0. n \in Nat /\ i \in Nat /\ 1 <= i /\ i <= b - n
      BY <1>1, <1>5
    <3>1. n + i \in 1..b /\ x - p - b + (n + i) = x - p - (b - n) + i
      BY ONLY <1>5, <3>0
    <3>2. buffer'[s][i] = buffer[s][n + i] /\ buffer[s][n + i] = <<s, x - p - b + (n + i)>>
      BY <1>6, <2>5, <3>1
    <3> QED
      BY <3>1, <3>2
  <2>9. \A i \in 1..Len(buffer'[s]) :
          buffer'[s][i] = <<s, written'[s] - Len(pipe'[s]) - Len(buffer'[s]) + i>>
    BY <1>2, <1>6, <2>8 DEF x, p
  <2>10. Forwarded(s)' = IF t = "log" THEN Forwarded(s) + w ELSE Forwarded(s)
    BY <1>5, <1>6, <2>2, <2>3, <2>6, <2>7
  <2> QED
    BY <2>2, <2>3, <2>4, <2>9, <2>10
<1>8. CASE t = "console"
  <2>1. log' = log
    BY <1>1, <1>8 DEF Put
  <2>2. LogsOK'
    BY <1>2, <2>1 DEF LogsOK
  <2>3. LogFile(s) # None => NoGap(s)'
    BY <1>7, <1>8, <2>1 DEF NoGap
  <2>4. \A r \in Stream : r # s /\ LogFile(r) # None => NoGap(r)'
    BY <1>3, <2>1, OtherForwarder
  <2> QED
    BY <2>2, <2>3, <2>4
<1>9. CASE t # "console"
  <2> DEFINE L == LogFile(s)
             data == SubSeq(buffer[s], offset[s][t] + 1, offset[s][t] + w)
             q == log[L]
             z == q \o data
             k == Forwarded(s)
  <2>1. t = "log" /\ L # None /\ L \in Files
    BY <1>4, <1>9, LogFiles
  <2>2. q \in Seq(Piece)
    BY <2>1 DEF ControlInv, TypeOK
  <2>3. data \in Seq(Piece) /\ Len(data) = w /\ \A i \in 1..w : data[i] = buffer[s][o + i]
    <3>1. /\ offset[s][t] \in Nat /\ w \in Nat /\ offset[s][t] + w <= Len(buffer[s])
          /\ buffer[s] \in Seq(Piece)
      BY <1>1, <1>5
    <3> DEFINE a == buffer[s]
               m == offset[s][t]
               c == SubSeq(a, m + 1, m + w)
    <3>2. a \in Seq(Piece) /\ m \in Nat /\ m + w <= Len(a) /\ data = c
      BY <3>1
    <3> HIDE DEF a, m, data
    <3>3. c \in Seq(Piece) /\ Len(c) = w /\ \A i \in 1..w : c[i] = a[m + i]
      BY ONLY w \in Nat, <3>2
    <3> HIDE DEF c
    <3> QED
      BY <2>1, <3>2, <3>3 DEF a, m
  <2>4. log' = [log EXCEPT ![L] = z]
    BY <1>1, <1>9 DEF Put
  <2> HIDE DEF data, q
  <2>5. /\ z \in Seq(Piece) /\ Len(z) = Len(q) + Len(data)
        /\ \A i \in 1..Len(q) : z[i] = q[i]
        /\ \A i \in 1..Len(data) : z[Len(q) + i] = data[i]
    <3>1. q \in Seq(Piece) /\ data \in Seq(Piece)
      BY <2>2, <2>3
    <3> QED
      BY ONLY <3>1, Concat
  <2> HIDE DEF z
  <2>6. log'[L] = z /\ \A f \in Files : f # L => log'[f] = log[f]
    BY <2>1, <2>4 DEF ControlInv, TypeOK
  <2>7. o \in Nat /\ o <= b /\ k = x - p - (b - o) /\ o + w <= b
    BY <1>1, <1>7, <2>1
  <2> HIDE DEF k, p, b, x, o
  <2>8. ASSUME NEW i \in 1..w
        PROVE  z[Len(q) + i] = <<s, k + i>>
    <3>1. \A j \in 1..b : buffer[s][j] = <<s, x - p - b + j>>
      BY <2>1 DEF NoGap, p, b, x
    <3>2. o + i \in 1..b
      BY <1>5, <2>7
    <3>3. x - p - b + (o + i) = k + i
      BY <1>5, <2>7
    <3>4. buffer[s][o + i] = <<s, k + i>>
      BY <3>1, <3>2, <3>3
    <3>5. z[Len(q) + i] = data[i] /\ data[i] = buffer[s][o + i]
      BY <2>3, <2>5
    <3> QED
      BY <3>4, <3>5
  <2>9. k \in Int /\ k + w <= x
    BY <1>5, <2>7
  <2>10. /\ InOrder(q) /\ \A i \in 1..Len(q) : q[i][2] <= written[q[i][1]]
         /\ \A i \in 1..Len(q) : q[i][1] = s => q[i][2] <= k
         /\ \A m \in 1..k : Contains(q, <<s, m>>)
    BY <2>1 DEF LogsOK, NoGap, q, k
  <2>11. /\ InOrder(z)
         /\ \A i \in 1..Len(z) : z[i][1] = s => z[i][2] <= k + w
         /\ \A i \in 1..Len(z) : z[i][1] # s => \E j \in 1..Len(q) : q[j] = z[i]
         /\ \A e : Contains(q, e) => Contains(z, e)
         /\ \A m \in 1..w : Contains(z, <<s, k + m>>)
    <3>1. Len(z) = Len(q) + w /\ z \in Seq(Piece) /\ \A i \in 1..Len(q) : z[i] = q[i]
      BY <2>3, <2>5
    <3> QED
      BY <2>2, <2>8, <2>9, <2>10, <3>1, Lengthened
  <2>12. \A i \in 1..Len(z) : z[i][2] <= written[z[i][1]]
    <3> SUFFICES ASSUME NEW i \in 1..Len(z) PROVE z[i][2] <= written[z[i][1]]
      OBVIOUS
    <3>1. CASE z[i][1] = s
      <4>1. z[i] \in Piece
        BY <2>5
      <4>2. z[i][2] \in Nat /\ z[i][2] <= k + w
        BY <2>11, <3>1, <4>1 DEF Piece
      <4> QED
        BY <1>5, <2>9, <3>1, <4>2 DEF x
    <3>2. CASE z[i][1] # s
      <4>1. PICK j \in 1..Len(q) : q[j] = z[i]
        BY <2>11, <3>2
      <4> QED
        BY <2>10, <4>1
    <3> QED
      BY <3>1, <3>2
  <2>13. LogsOK'
    <3> SUFFICES ASSUME NEW f \in Files
                 PROVE  /\ InOrder(log'[f])
                        /\ \A i \in 1..Len(log'[f]) : log'[f][i][2] <= written[log'[f][i][1]]
      BY <1>2 DEF LogsOK
    <3>1. CASE f = L
      BY <2>6, <2>11, <2>12, <3>1
    <3>2. CASE f # L
      BY <2>6, <3>2 DEF LogsOK
    <3> QED
      BY <3>1, <3>2
  <2>14. NoGap(s)'
    <3>1. Forwarded(s)' = k + w
      BY <1>7, <2>1 DEF k
    <3>2. \A i \in 1..Len(z) : z[i][1] = s => z[i][2] <= Forwarded(s)'
      BY <2>11, <3>1
    <3>3. ASSUME NEW m \in 1..Forwarded(s)'
          PROVE  Contains(z, <<s, m>>)
      <4>1. CASE m <= k
        <5>1. m \in 1..k
          BY <2>9, <4>1
        <5> QED
          BY <2>10, <2>11, <5>1
      <4>2. CASE m > k
        <5>1. m - k \in 1..w /\ k + (m - k) = m
          BY <2>9, <3>1, <4>2
        <5>2. Contains(z, <<s, k + (m - k)>>)
          BY <2>11, <5>1
        <5> QED
          BY <5>1, <5>2
      <4>3. m <= k \/ m > k
        BY <2>9, <3>1
      <4> QED
        BY <4>1, <4>2, <4>3
    <3>4. log'[LogFile(s)] = z
      BY <2>6
    <3> QED
      BY <1>7, <2>1, <3>2, <3>3, <3>4 DEF NoGap
  <2>15. ASSUME NEW r \in Stream, r # s, LogFile(r) # None
         PROVE  NoGap(r)'
    <3>1. NoGap(r)
      BY <2>15
    <3>2. CASE LogFile(r) # L
      <4>1. log'[LogFile(r)] = log[LogFile(r)]
        BY <2>6, <2>15, <3>2, LogFiles
      <4> QED
        BY <1>3, <2>15, <3>1, <4>1, OtherForwarder
    <3>3. CASE LogFile(r) = L
      <4>1. Forwarded(r)' = Forwarded(r) /\ pipe'[r] = pipe[r] /\ buffer'[r] = buffer[r]
        BY <1>2, <1>3, <2>15 DEF Forwards, Forwarded
      <4>2. log[LogFile(r)] = q /\ log'[LogFile(r)] = z
        BY <2>6, <3>3 DEF q
      <4>3. ASSUME NEW i \in 1..Len(z), z[i][1] = r
            PROVE  z[i][2] <= Forwarded(r)
        <5>1. PICK j \in 1..Len(q) : q[j] = z[i]
          BY <2>11, <2>15, <4>3
        <5> QED
          BY <3>1, <4>2, <4>3, <5>1 DEF NoGap
      <4>4. \A m \in 1..Forwarded(r) : Contains(z, <<r, m>>)
        BY <2>11, <3>1, <4>2 DEF NoGap
      <4> QED
        BY <1>2, <3>1, <4>1, <4>2, <4>3, <4>4 DEF NoGap
    <3> QED
      BY <3>2, <3>3
  <2> QED
    BY <2>13, <2>14, <2>15
<1> QED
  BY <1>8, <1>9

\* The child writes to a pipe in init(), and to the log files as a daemon.
LEMMA OutputData ==
  ASSUME ControlInv, DataInv, ~HupEarly, NEW s \in Stream, Output(s)
  PROVE  DataInv'
<1> DEFINE x == written[s]
           piece == <<s, x + 1>>
<1>1. /\ UNCHANGED <<child, fd, released, watcher, closed, buffer, offset>>
      /\ x \in Nat /\ written'[s] = x + 1 /\ \A r \in Stream : r # s => written'[r] = written[r]
      /\ log' = [f \in Files |-> IF f = fd[s] THEN Append(log[f], piece) ELSE log[f]]
      /\ pipe' = IF fd[s] = "pipe" /\ Watching
                 THEN [pipe EXCEPT ![s] = Append(@, piece)] ELSE pipe
      /\ child \in {"init", "daemon"}
  BY DEF Output, ControlInv, TypeOK, watcherVars, forwarderVars
<1>2. /\ child = "init" => \A r \in Stream : fd[r] = "pipe"
      /\ child \in {"suspended", "daemon"} =>
           \A r \in Stream : fd[r] # "pipe" /\ (LogFile(r) # None => fd[r] \in Files)
      /\ LogsOK
      /\ \A r \in Stream : LogFile(r) # None => /\ Watching /\ ~released => NoGap(r)
                                                /\ AllClosed => Complete(r)
  BY DEF DataInv, LogsOK
<1>3. Watching' = Watching /\ AllClosed' = AllClosed
  BY <1>1 DEF Watching, AllClosed
<1>4. ASSUME NEW r \in Stream
      PROVE  written[r] \in Nat /\ written'[r] \in Nat /\ written[r] <= written'[r]
  <2>1. written[r] \in Nat
    BY DEF ControlInv, TypeOK
  <2>2. CASE r = s
    BY <1>1, <2>1, <2>2
  <2>3. CASE r # s
    BY <1>1, <2>1, <2>3
  <2> QED
    BY <2>2, <2>3
<1> HIDE DEF x, piece
<1>5. SUFFICES /\ LogsOK'
               /\ \A r \in Stream : LogFile(r) # None => /\ Watching /\ ~released => NoGap(r)'
                                                         /\ AllClosed => Complete(r)'
  BY <1>1, <1>2, <1>3 DEF DataInv, LogsOK
<1>6. CASE child = "init"
  <2>1. fd[s] = "pipe" /\ "pipe" \notin Files /\ child \notin Ended
    BY <1>2, <1>6, LogFiles DEF Ended
  <2>2. log' = log
    BY <1>1, <2>1 DEF ControlInv, TypeOK
  <2>3. ~AllClosed
    <3>1. src[s] /\ HasPipe(s)
      BY <2>1 DEF HasPipe, ControlInv, ForwarderInv, ForwarderOK
    <3> QED
      BY <3>1 DEF AllClosed, ControlInv, ForwarderInv, ForwarderOK
  <2>4. LogsOK'
    <3> SUFFICES ASSUME NEW f \in Files, NEW i \in 1..Len(log[f])
                 PROVE  log[f][i][2] <= written'[log[f][i][1]]
      BY <1>2, <2>2 DEF LogsOK
    <3>1. log[f][i] \in Piece
      BY DEF ControlInv, TypeOK
    <3>2. log[f][i][1] \in Stream /\ log[f][i][2] \in Nat
      BY <3>1 DEF Piece
    <3>3. log[f][i][2] <= written[log[f][i][1]]
      BY <1>2 DEF LogsOK
    <3> QED
      BY <1>4, <3>2, <3>3
  <2>5. ASSUME Watching, ~released, LogFile(s) # None
        PROVE  NoGap(s)'
    <3> DEFINE q == pipe[s]
               z == Append(q, piece)
               p == Len(q)
               b == Len(buffer[s])
    <3>1. pipe' = [pipe EXCEPT ![s] = z] /\ q \in Seq(Piece) /\ p \in Nat /\ b \in Nat
      BY <1>1, <2>1, <2>5 DEF ControlInv, TypeOK
    <3>2. piece \in Piece
      BY <1>1 DEF piece, Piece
    <3>3. NoGap(s)
      BY <1>2, <2>5
    <3>4. /\ \A i \in 1..p : q[i] = <<s, x - p + i>>
          /\ \A i \in 1..b : buffer[s][i] = <<s, x - p - b + i>>
      BY <3>3 DEF NoGap, x
    <3> HIDE DEF q, b
    <3>5. Len(z) = p + 1 /\ (\A i \in 1..p : z[i] = q[i]) /\ z[p + 1] = piece
      BY ONLY <3>1, <3>2, Appended
    <3> HIDE DEF z
    <3>6. pipe'[s] = z
      BY <3>1 DEF ControlInv, TypeOK
    <3> HIDE DEF p
    <3>7. ASSUME NEW i \in 1..(p + 1)
          PROVE  z[i] = <<s, (x + 1) - (p + 1) + i>>
      <4>1. (x + 1) - (p + 1) + i = x - p + i
        BY <1>1, <3>1
      <4>2. CASE i \in 1..p
        BY <3>4, <3>5, <4>1, <4>2
      <4>3. CASE i = p + 1
        <5>1. (x + 1) - (p + 1) + i = x + 1
          BY <1>1, <3>1, <4>3
        <5> QED
          BY <3>5, <4>3, <5>1 DEF piece
      <4>4. i \in 1..p \/ i = p + 1
        BY <3>1
      <4> QED
        BY <4>2, <4>3, <4>4
    <3>8. (x + 1) - (p + 1) = x - p
      BY <1>1, <3>1
    <3>9. /\ Len(pipe'[s]) = p + 1 /\ Len(pipe[s]) = p /\ written'[s] = x + 1 /\ written[s] = x
          /\ buffer' = buffer /\ offset' = offset
      BY <1>1, <3>5, <3>6 DEF p, q, x
    <3>10. Forwarded(s)' = Forwarded(s)
      BY <3>8, <3>9 DEF Forwarded
    <3>11. /\ \A i \in 1..Len(pipe'[s]) : pipe'[s][i] = <<s, written'[s] - Len(pipe'[s]) + i>>
           /\ \A i \in 1..Len(buffer'[s]) :
                buffer'[s][i] = <<s, written'[s] - Len(pipe'[s]) - Len(buffer'[s]) + i>>
      BY <3>4, <3>6, <3>7, <3>8, <3>9 DEF b
    <3> QED
      BY <2>2, <3>3, <3>10, <3>11 DEF NoGap
  <2>6. ASSUME Watching, ~released, NEW r \in Stream, r # s, LogFile(r) # None
        PROVE  NoGap(r)'
    <3>1. NoGap(r)
      BY <1>2, <2>6
    <3>2. pipe'[r] = pipe[r] /\ written'[r] = written[r]
      BY <1>1, <2>6 DEF ControlInv, TypeOK
    <3> QED
      BY <1>1, <2>2, <3>1, <3>2 DEF NoGap, Forwarded
  <2> QED
    BY <2>3, <2>4, <2>5, <2>6
<1>7. CASE child = "daemon"
  <2>1. released
    BY <1>7 DEF ControlInv, ReportInv
  <2>2. LogFile(s) # None => fd[s] \in Files
    BY <1>2, <1>7
  <2>3. piece \in Piece
    BY <1>1 DEF piece, Piece
  <2>4. ASSUME NEW f \in Files
        PROVE  /\ InOrder(log'[f])
               /\ \A i \in 1..Len(log'[f]) : log'[f][i][2] <= written'[log'[f][i][1]]
               /\ \A e : Contains(log[f], e) => Contains(log'[f], e)
               /\ f = fd[s] => Contains(log'[f], piece)
    <3> DEFINE q == log[f]
    <3>1. q \in Seq(Piece) /\ InOrder(q) /\ \A i \in 1..Len(q) : q[i][2] <= written[q[i][1]]
      BY <1>2 DEF LogsOK, ControlInv, TypeOK
    <3>2. ASSUME NEW i \in 1..Len(q)
          PROVE  q[i][2] <= written'[q[i][1]]
      <4>1. q[i] \in Piece
        BY <3>1
      <4>2. q[i][1] \in Stream /\ q[i][2] \in Nat
        BY <4>1 DEF Piece
      <4> QED
        BY <1>4, <3>1, <4>2
    <3>3. CASE f # fd[s]
      <4>1. log'[f] = q
        BY <1>1, <3>3
      <4> QED
        BY <3>1, <3>2, <3>3, <4>1
    <3>4. CASE f = fd[s]
      <4> DEFINE z == Append(q, piece)
      <4>1. log'[f] = z
        BY <1>1, <3>4
      <4> HIDE DEF q
      <4>2. /\ z \in Seq(Piece) /\ Len(z) = Len(q) + 1
            /\ \A i \in 1..Len(q) : z[i] = q[i]
            /\ z[Len(q) + 1] = piece
        BY ONLY <2>3, <3>1, Appended
      <4> HIDE DEF z
      <4>3. \A i \in 1..1 : z[Len(q) + i] = <<s, x + i>>
        BY <4>2 DEF piece
      <4>4. x \in Int /\ 1 \in Nat /\ \A i \in 1..Len(q) : q[i][1] = s => q[i][2] <= x
        BY <1>1, <3>1 DEF x
      <4>5. /\ InOrder(z)
            /\ \A i \in 1..Len(z) : z[i][1] = s => z[i][2] <= x + 1
            /\ \A i \in 1..Len(z) : z[i][1] # s => \E j \in 1..Len(q) : q[j] = z[i]
            /\ \A e : Contains(q, e) => Contains(z, e)
            /\ \A n \in 1..1 : Contains(z, <<s, x + n>>)
        BY <3>1, <4>2, <4>3, <4>4, Lengthened
      <4>6. ASSUME NEW i \in 1..Len(z)
            PROVE  z[i][2] <= written'[z[i][1]]
        <5>1. CASE z[i][1] = s
          BY <1>1, <4>5, <5>1
        <5>2. CASE z[i][1] # s
          <6>1. PICK j \in 1..Len(q) : q[j] = z[i]
            BY <4>5, <5>2
          <6> QED
            BY <3>2, <6>1
        <5> QED
          BY <5>1, <5>2
      <4>7. Contains(z, piece)
        BY <4>5 DEF piece
      <4> QED
        BY <4>1, <4>5, <4>6, <4>7 DEF q
    <3> QED
      BY <3>3, <3>4
  <2>5. LogsOK'
    BY <2>4 DEF LogsOK
  <2>6. ASSUME NEW r \in Stream, LogFile(r) # None, AllClosed
        PROVE  Complete(r)'
    <3>1. Complete(r)
      BY <1>2, <2>6
    <3> SUFFICES ASSUME NEW n \in 1..written'[r]
                 PROVE  \E f \in Files : Contains(log'[f], <<r, n>>)
      BY DEF Complete
    <3>2. CASE n \in 1..written[r]
      BY <2>4, <3>1, <3>2 DEF Complete
    <3>3. CASE n \notin 1..written[r]
      <4>1. r = s /\ n = x + 1
        BY <1>1, <3>3 DEF x
      <4> QED
        BY <2>2, <2>4, <2>6, <4>1 DEF piece
    <3> QED
      BY <3>2, <3>3
  <2> QED
    BY <2>1, <2>5, <2>6
<1> QED
  BY <1>1, <1>6, <1>7

\* A step that moves no data.
LEMMA DataFrame ==
  ASSUME DataInv, ~HupEarly, UNCHANGED <<pipe, log, buffer, offset, written, closed>>,
         Watching' => Watching, released => released',
         child' = "init" => \A s \in Stream : fd'[s] = "pipe",
         child' \in {"suspended", "daemon"} =>
           \A s \in Stream : fd'[s] # "pipe" /\ (LogFile(s) # None => fd'[s] \in Files)
  PROVE  DataInv'
<1>1. AllClosed' = AllClosed
  BY DEF AllClosed
<1>2. \A s \in Stream : NoGap(s)' = NoGap(s) /\ Complete(s)' = Complete(s)
  BY DEF NoGap, Forwarded, Complete
<1>3. /\ \A f \in Files : /\ InOrder(log[f])
                          /\ \A i \in 1..Len(log[f]) : log[f][i][2] <= written[log[f][i][1]]
      /\ \A s \in Stream : LogFile(s) # None => /\ Watching /\ ~released => NoGap(s)
                                                /\ AllClosed => Complete(s)
  BY DEF DataInv
<1> QED
  BY <1>1, <1>2, <1>3 DEF DataInv

LEMMA ChildData ==
  ASSUME ControlInv, DataInv, ~HupEarly, Detach \/ Resume \/ LogReopen \/ Die \/ Notify
  PROVE  DataInv'
<1>1. /\ UNCHANGED <<pipe, log, buffer, offset, written, closed, watcher>>
      /\ released => released'
  BY DEF Detach, Resume, LogReopen, Die, Notify, outputVars, watcherVars, forwarderVars
<1>2. /\ child = "init" => \A s \in Stream : fd[s] = "pipe"
      /\ child \in {"suspended", "daemon"} =>
           \A s \in Stream : fd[s] # "pipe" /\ (LogFile(s) # None => fd[s] \in Files)
  BY DEF DataInv
<1>3. /\ child' = "init" => \A s \in Stream : fd'[s] = "pipe"
      /\ child' \in {"suspended", "daemon"} =>
           \A s \in Stream : fd'[s] # "pipe" /\ (LogFile(s) # None => fd'[s] \in Files)
  <2>1. CASE Detach
    <3>1. CASE child = "blocked" /\ (\A s \in Stream : fd[s] = LogFile(s))
               /\ child' = "suspended" /\ UNCHANGED fd
      <4>1. \A s \in Stream : LogFile(s) # "pipe" /\ (LogFile(s) # None => LogFile(s) \in Files)
        BY LogFiles
      <4> QED
        BY <3>1, <4>1
    <3>2. CASE child' = "blocked"
      BY <3>2
    <3> QED
      BY <2>1, <3>1, <3>2 DEF Detach, Redirect
  <2>2. CASE Resume \/ Die \/ Notify
    BY <1>2, <2>2 DEF Resume, Die, Notify
  <2>3. CASE LogReopen
    <3>1. /\ child' = child /\ child \in {"suspended", "daemon"}
          /\ fd' = [s \in Stream |-> LET f == IF s = "out" THEN stdoutLog ELSE stderrLog
                                     IN  IF f = None THEN fd[s] ELSE f]
      BY <2>3 DEF LogReopen
    <3>2. ASSUME NEW s \in Stream
          PROVE  fd'[s] # "pipe" /\ (LogFile(s) # None => fd'[s] \in Files)
      <4>1. fd[s] # "pipe" /\ (LogFile(s) # None => fd[s] \in Files)
        BY <1>2, <3>1
      <4> QED
        BY <3>1, <4>1 DEF Files
    <3> QED
      BY <3>1, <3>2
  <2> QED
    BY <2>1, <2>2, <2>3
<1>4. Watching' => Watching
  BY <1>1 DEF Watching
<1> QED
  BY <1>1, <1>3, <1>4, DataFrame

LEMMA WatcherData ==
  ASSUME ControlInv, DataInv, ~HupEarly,
         \/ \E s \in Stream : Break(s) \/ Pipe(s) \/ WriteFails(s)
         \/ SigChld \/ ChildOk \/ Leave \/ UNCHANGED vars
  PROVE  DataInv'
<1>1. /\ UNCHANGED <<pipe, log, buffer, offset, written, closed, child, fd, released>>
      /\ Watching' => Watching
  <2>1. CASE \E s \in Stream : Break(s) \/ Pipe(s) \/ WriteFails(s)
    BY <2>1 DEF Break, Pipe, WriteFails, childVars, outputVars, watcherVars, forwarderVars, Watching
  <2>2. CASE SigChld \/ ChildOk \/ Leave
    BY <2>2 DEF SigChld, ChildOk, Leave, childVars, outputVars, forwarderVars, Watching
  <2>3. CASE UNCHANGED vars
    BY <2>3 DEF vars, childVars, outputVars, watcherVars, forwarderVars, Watching
  <2> QED
    BY <2>1, <2>2, <2>3
<1>2. /\ child = "init" => \A s \in Stream : fd[s] = "pipe"
      /\ child \in {"suspended", "daemon"} =>
           \A s \in Stream : fd[s] # "pipe" /\ (LogFile(s) # None => fd[s] \in Files)
  BY DEF DataInv
<1> QED
  BY <1>1, <1>2, DataFrame

\* The steps of the forwarders.
LEMMA ForwardData ==
  ASSUME ControlInv, ControlInv', DataInv, ~HupEarly, NEW s \in Stream,
         ReadData(s) \/ Drop(s) \/ \E t \in writing[s] : WriteData(s, t)
  PROVE  DataInv'
<1>1. CASE ReadData(s) /\ pipe[s] # <<>>
  <2>1. Forwards(s, FALSE) /\ log' = log /\ written' = written
    BY <1>1, ReadForwards DEF ControlInv, outputVars, Forwards
  <2>2. LogsOK /\ \A r \in Stream : LogFile(r) # None => NoGap(r)
    BY <2>1, BeforeForwards
  <2>3. LogsOK'
    BY <2>1, <2>2 DEF LogsOK
  <2>4. LogFile(s) # None => NoGap(s)'
    BY <1>1, <2>2, ReadNoGap
  <2>5. \A r \in Stream : r # s /\ LogFile(r) # None => NoGap(r)'
    BY <2>1, <2>2, OtherForwarder
  <2> QED
    BY <2>1, <2>3, <2>4, <2>5, ForwardsData
<1>2. CASE ReadData(s) /\ pipe[s] = <<>>
  <2>1. /\ Forwards(s, buffer[s] = <<>>) /\ UNCHANGED <<pipe, buffer, offset, log, written>>
    BY <1>2, EndForwards DEF ControlInv, outputVars, Forwards
  <2>2. LogsOK /\ \A r \in Stream : LogFile(r) # None => NoGap(r)
    BY <2>1, BeforeForwards
  <2>3. LogsOK' /\ \A r \in Stream : LogFile(r) # None => NoGap(r)'
    BY <2>1, <2>2 DEF LogsOK, NoGap, Forwarded
  <2> QED
    BY <2>1, <2>3, ForwardsData
<1>3. CASE Drop(s)
  <2>1. /\ Forwards(s, DOMAIN offset[s] \ {"console"} = {} /\ ~src[s])
        /\ UNCHANGED <<pipe, buffer, log, written>>
        /\ \A t \in DOMAIN offset'[s] : offset'[s][t] = offset[s][t]
    BY <1>3, DropForwards DEF ControlInv, outputVars, Forwards
  <2>2. LogsOK /\ \A r \in Stream : LogFile(r) # None => NoGap(r)
    BY <2>1, BeforeForwards
  <2>3. LogsOK'
    BY <2>1, <2>2 DEF LogsOK
  <2>4. ASSUME LogFile(s) # None
        PROVE  NoGap(s)'
    <3>1. "log" \in DOMAIN offset'[s] /\ NoGap(s)
      BY <2>1, <2>2, <2>4 DEF Forwards
    <3>2. offset'[s]["log"] = offset[s]["log"]
      BY <2>1, <3>1
    <3> QED
      BY <2>1, <3>1, <3>2 DEF NoGap, Forwarded
  <2>5. \A r \in Stream : r # s /\ LogFile(r) # None => NoGap(r)'
    BY <2>1, <2>2, OtherForwarder
  <2> QED
    BY <2>1, <2>3, <2>4, <2>5, ForwardsData
<1>4. ASSUME NEW t \in writing[s], WriteData(s, t)
      PROVE  DataInv'
  <2>1. PICK called : Forwards(s, called)
    BY <1>4, WriteForwards DEF ControlInv
  <2>2. LogsOK /\ \A r \in Stream : LogFile(r) # None => NoGap(r)
    BY <2>1, BeforeForwards
  <2>3. LogsOK' /\ \A r \in Stream : LogFile(r) # None => NoGap(r)'
    BY <1>4, <2>2, WriteLogs
  <2> QED
    BY <2>1, <2>3, ForwardsData
<1> QED
  BY <1>1, <1>2, <1>3, <1>4

-----------------------------------------------------------------------------
(***************************************************************************)
(* The theorems.                                                           *)
(***************************************************************************)

LEMMA InitInv == Init => IndInv
<1> SUFFICES ASSUME Init PROVE IndInv
  OBVIOUS
<1>1. ControlInv
  BY ControlInit
<1>2. DataInv
  <2>1. Len(<<>>) = 0
    OBVIOUS
  <2>2. \A f \in Files : Len(log[f]) = 0
    BY <2>1 DEF Init
  <2>3. \A f \in Files : /\ InOrder(log[f])
                         /\ \A i \in 1..Len(log[f]) : log[f][i][2] <= written[log[f][i][1]]
    BY <2>2 DEF InOrder
  <2>4. ASSUME NEW s \in Stream, LogFile(s) # None
        PROVE  NoGap(s) /\ Complete(s)
    <3>1. Len(pipe[s]) = 0 /\ Len(buffer[s]) = 0 /\ written[s] = 0
      BY <2>1 DEF Init
    <3>2. "log" \in Target(s) /\ LogFile(s) \in Files
      BY <2>4, LogFiles DEF Target
    <3>3. offset[s]["log"] = 0
      BY <3>2 DEF Init
    <3>4. Forwarded(s) = 0
      BY <3>1, <3>3 DEF Forwarded
    <3> QED
      BY <2>2, <3>1, <3>2, <3>4 DEF NoGap, Complete
  <2>5. child = "init" /\ \A s \in Stream : fd[s] = "pipe"
    BY DEF Init
  <2> QED
    BY <2>3, <2>4, <2>5 DEF DataInv
<1> QED
  BY <1>1, <1>2 DEF ControlInv, IndInv

LEMMA NextInv == IndInv /\ [Next]_vars => IndInv'
<1> SUFFICES ASSUME IndInv, [Next]_vars PROVE IndInv'
  OBVIOUS
<1>1. ControlInv /\ DataInv
  BY DEF IndInv, ControlInv
<1>2. ControlInv'
  BY <1>1, ControlStep
<1>3. ~HupEarly => DataInv'
  <2> SUFFICES ASSUME ~HupEarly PROVE DataInv'
    OBVIOUS
  <2>1. ASSUME NEW s \in Stream, Output(s)
        PROVE  DataInv'
    BY <1>1, <2>1, OutputData
  <2>2. CASE Detach \/ Resume \/ LogReopen \/ Die \/ Notify
    BY <1>1, <2>2, ChildData
  <2>3. CASE (\E s \in Stream : Break(s) \/ Pipe(s) \/ WriteFails(s)) \/ SigChld \/ ChildOk \/ Leave
             \/ UNCHANGED vars
    BY <1>1, <2>3, WatcherData
  <2>4. CASE Forward
    BY <1>1, <1>2, <2>4, ForwardData DEF Forward
  <2> QED
    BY <2>1, <2>2, <2>3, <2>4 DEF Next
<1>4. DataInv'
  BY <1>3 DEF DataInv
<1> QED
  BY <1>2, <1>4 DEF ControlInv, IndInv

\* The inductive invariant of the start of a daemon holds in every reachable state.
THEOREM Invariance == Spec => []IndInv
<1>1. Init => IndInv
  BY InitInv
<1>2. IndInv /\ [Next]_vars => IndInv'
  BY NextInv
<1> QED
  BY <1>1, <1>2, PTL DEF Spec

\* Every variable keeps its type.
THEOREM TypeCorrect == Spec => []TypeOK
<1>1. IndInv => TypeOK
  BY DEF IndInv
<1> QED
  BY <1>1, Invariance, PTL

\* pipeClosed() sends SIGUSR1 only to a child that waits for it or is dead, if there is
\* one log file at most or no SIGHUP before detach() has replaced the pipes.
THEOREM Usr1Expected ==
  ASSUME ~HupEarly \/ stderrLog = None
  PROVE  Spec => []NoStrayUsr1
<1>1. IndInv => NoStrayUsr1
  BY DEF IndInv, HandlerInv
<1> QED
  BY <1>1, Invariance, PTL

\* A child that died before it could be released is never reported as started, unless a
\* console broke.
THEOREM DeathReported == Spec => []ExitReported
<1>1. IndInv => ExitReported
  BY DEF IndInv, ReportInv
<1> QED
  BY <1>1, Invariance, PTL

\* Watcher and daemon never mix up the log files: each stream is in order, and complete
\* when the daemon runs or its death was reported, if no SIGHUP comes before detach() has
\* replaced the pipes.
THEOREM LogsInOrder ==
  ASSUME ~HupEarly
  PROVE  Spec => []LogInOrder
<1>1. IndInv => LogInOrder
  <2> SUFFICES ASSUME IndInv PROVE LogInOrder
    OBVIOUS
  <2>1. released \/ watcher \in {"1", "127", "signal"} => AllClosed
    BY DEF IndInv, ReportInv
  <2>2. /\ \A f \in Files : InOrder(log[f])
        /\ \A s \in Stream : LogFile(s) # None => (AllClosed => Complete(s))
    BY DEF IndInv, DataInv
  <2> QED
    BY <2>1, <2>2 DEF LogInOrder
<1> QED
  BY <1>1, Invariance, PTL

=============================================================================
