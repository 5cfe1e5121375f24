--------------------------- MODULE FdEventsProofs ---------------------------
(***************************************************************************)
(* File descriptor events for every set of events, descriptors and masks:  *)
(* epoll and the registered events agree, no two events are registered for *)
(* the same, and a report of epoll is always answered, in every program    *)
(* that calls handle() for disabled events only.                           *)
(***************************************************************************)
EXTENDS FdEvents, FiniteSetTheorems, TLAPS

USE FdAssumption

-----------------------------------------------------------------------------
(***************************************************************************)
(* The ranges of the descriptors.                                          *)
(***************************************************************************)

\* fds_.insert(range.first, e): e becomes the first of its range.
LEMMA PushFirst ==
  ASSUME NEW s \in Seq(Event), NoRepeat(s), NEW e \in Event, e \notin Nodes(s)
  PROVE  /\ <<e>> \o s \in Seq(Event) /\ <<e>> \o s # << >>
         /\ Head(<<e>> \o s) = e
         /\ NoRepeat(<<e>> \o s)
         /\ Nodes(<<e>> \o s) = Nodes(s) \cup {e}
<1> DEFINE r == <<e>> \o s
<1>1. r \in Seq(Event) /\ Len(r) = Len(s) + 1 /\ r[1] = e
      /\ \A i \in 1..Len(s) : r[i + 1] = s[i]
  OBVIOUS
<1>2. \A i \in 2..Len(r) : i - 1 \in 1..Len(s) /\ r[i] = s[i - 1]
  BY <1>1
<1>3. r # << >> /\ Head(r) = e
  BY <1>1
<1> HIDE DEF r
<1>4. NoRepeat(r)
  <2> SUFFICES ASSUME NEW i \in 1..Len(r), NEW j \in 1..Len(r), r[i] = r[j]
               PROVE  i = j
    BY DEF NoRepeat
  <2>1. CASE i = 1 /\ j = 1
    BY <2>1
  <2>2. CASE i = 1 /\ j # 1
    BY <1>1, <1>2, <2>2 DEF Nodes
  <2>3. CASE i # 1 /\ j = 1
    BY <1>1, <1>2, <2>3 DEF Nodes
  <2>4. CASE i # 1 /\ j # 1
    BY <1>1, <1>2, <2>4 DEF NoRepeat
  <2> QED
    BY <2>1, <2>2, <2>3, <2>4
<1>5. Nodes(r) = Nodes(s) \cup {e}
  <2>1. ASSUME NEW x \in Nodes(r)
        PROVE  x \in Nodes(s) \cup {e}
    <3>1. PICK i \in 1..Len(r) : x = r[i]
      BY DEF Nodes
    <3>2. CASE i = 1
      BY <1>1, <3>1, <3>2
    <3>3. CASE i # 1
      <4>1. i - 1 \in 1..Len(s) /\ x = s[i - 1]
        BY <1>1, <1>2, <3>1, <3>3
      <4> QED
        BY <4>1 DEF Nodes
    <3> QED
      BY <3>2, <3>3
  <2>2. e \in Nodes(r)
    BY <1>1 DEF Nodes
  <2>3. ASSUME NEW i \in 1..Len(s)
        PROVE  s[i] \in Nodes(r)
    <3>1. i + 1 \in 1..Len(r)
      BY <1>1
    <3> QED
      BY <1>1, <3>1 DEF Nodes
  <2> QED
    BY <2>1, <2>2, <2>3 DEF Nodes
<1> QED
  BY <1>1, <1>3, <1>4, <1>5 DEF r

\* A range is empty iff it has no events; otherwise its first one is its head.
LEMMA FirstNode ==
  ASSUME NEW s \in Seq(Event)
  PROVE  /\ s = << >> <=> Nodes(s) = {}
         /\ s # << >> => Head(s) \in Nodes(s) /\ s[1] = Head(s) /\ 1 \in 1..Len(s)
<1>1. s # << >> => Head(s) \in Nodes(s) /\ s[1] = Head(s) /\ 1 \in 1..Len(s)
  BY DEF Nodes
<1>2. Nodes(<< >>) = {}
  BY DEF Nodes
<1> QED
  BY <1>1, <1>2

\* Erase drops the node at its position and shifts what follows.
LEMMA EraseShift ==
  ASSUME NEW s \in Seq(Event), NEW x \in Nodes(s)
  PROVE  /\ Erase(s, x) \in Seq(Event) /\ Len(Erase(s, x)) = Len(s) - 1
         /\ Pos(s, x) \in 1..Len(s) /\ s[Pos(s, x)] = x
         /\ \A j \in 1..(Len(s) - 1) :
              Erase(s, x)[j] = IF j < Pos(s, x) THEN s[j] ELSE s[j + 1]
<1> DEFINE p == Pos(s, x)
           front == SubSeq(s, 1, p - 1)
           back == SubSeq(s, p + 1, Len(s))
<1>1. p \in 1..Len(s) /\ s[p] = x
  BY DEF Nodes, Pos
<1>2. Erase(s, x) = front \o back
  BY DEF Erase, RemoveAt
<1> HIDE DEF p
<1>3. front \in Seq(Event) /\ Len(front) = p - 1 /\ \A j \in 1..(p - 1) : front[j] = s[j]
  BY <1>1
<1>4. /\ back \in Seq(Event) /\ Len(back) = Len(s) - p
      /\ \A j \in 1..(Len(s) - p) : back[j] = s[p + j]
  BY <1>1
<1> HIDE DEF front, back
<1>5. front \o back \in Seq(Event) /\ Len(front \o back) = Len(s) - 1
  <2>1. front \in Seq(Event) /\ back \in Seq(Event)
    BY <1>3, <1>4
  <2>2. front \o back \in Seq(Event) /\ Len(front \o back) = Len(front) + Len(back)
    BY ONLY <2>1
  <2> QED
    BY ONLY <1>1, <1>3, <1>4, <2>2
<1>6. ASSUME NEW j \in 1..(Len(s) - 1)
      PROVE  (front \o back)[j] = IF j < p THEN s[j] ELSE s[j + 1]
  <2>1. /\ front \in Seq(Event) /\ back \in Seq(Event) /\ p \in Int /\ Len(s) \in Int
        /\ Len(front) = p - 1 /\ Len(back) = Len(s) - p /\ j \in Int /\ 1 <= j /\ j < Len(s)
    BY <1>1, <1>3, <1>4
  <2>2. CASE j < p
    <3>1. j \in 1..Len(front) /\ j \in 1..(p - 1)
      BY ONLY <2>1, <2>2
    <3>2. (front \o back)[j] = front[j]
      BY ONLY <2>1, <3>1
    <3>3. front[j] = s[j]
      BY <1>3, <3>1
    <3> QED
      BY ONLY <2>2, <3>2, <3>3
  <2>3. CASE ~(j < p)
    <3> DEFINE k == j - Len(front)
    <3>1. /\ j \in Len(front) + 1 .. Len(front) + Len(back)
          /\ k \in 1..(Len(s) - p) /\ p + k = j + 1
      BY ONLY <2>1, <2>3
    <3>2. (front \o back)[j] = back[k]
      BY ONLY <2>1, <3>1
    <3> HIDE DEF k
    <3>3. back[k] = s[p + k]
      BY <1>4, <3>1
    <3> QED
      BY ONLY <2>3, <3>1, <3>2, <3>3
  <2> QED
    BY ONLY <2>2, <2>3
<1>7. /\ Erase(s, x) \in Seq(Event) /\ Len(Erase(s, x)) = Len(s) - 1
      /\ \A j \in 1..(Len(s) - 1) : Erase(s, x)[j] = IF j < p THEN s[j] ELSE s[j + 1]
  BY ONLY <1>2, <1>5, <1>6
<1> QED
  BY <1>1, <1>7 DEF p

\* erase(x) unlinks x and no other event.
LEMMA EraseNodes ==
  ASSUME NEW s \in Seq(Event), NoRepeat(s), NEW x \in Nodes(s)
  PROVE  /\ Erase(s, x) \in Seq(Event)
         /\ NoRepeat(Erase(s, x))
         /\ Nodes(Erase(s, x)) = Nodes(s) \ {x}
<1> DEFINE r == Erase(s, x)
           p == Pos(s, x)
           Source(j) == IF j < p THEN j ELSE j + 1
           Target(j) == IF j < p THEN j ELSE j - 1
<1>1. /\ r \in Seq(Event) /\ Len(r) = Len(s) - 1 /\ p \in 1..Len(s) /\ s[p] = x
      /\ \A j \in 1..(Len(s) - 1) : r[j] = IF j < p THEN s[j] ELSE s[j + 1]
  BY EraseShift
<1> HIDE DEF r, p
<1>2. \A j \in 1..Len(r) : Source(j) \in 1..Len(s) /\ r[j] = s[Source(j)] /\ Source(j) # p
  BY <1>1
<1>3. \A j \in 1..Len(s) : j # p => Target(j) \in 1..Len(r) /\ r[Target(j)] = s[j]
  BY <1>1
<1>4. \A j, k \in 1..Len(r) : Source(j) = Source(k) => j = k
  BY <1>1
<1> HIDE DEF Source, Target
<1>5. NoRepeat(r)
  BY <1>2, <1>4 DEF NoRepeat
<1>6. ASSUME NEW y \in Nodes(r)
      PROVE  y \in Nodes(s) \ {x}
  <2>1. PICK j \in 1..Len(r) : y = r[j]
    BY DEF Nodes
  <2>2. Source(j) \in 1..Len(s) /\ y = s[Source(j)] /\ Source(j) # p
    BY <1>2, <2>1
  <2>3. y # x
    BY <1>1, <2>2 DEF NoRepeat
  <2> QED
    BY <2>2, <2>3 DEF Nodes
<1>7. ASSUME NEW y \in Nodes(s), y # x
      PROVE  y \in Nodes(r)
  <2>1. PICK j \in 1..Len(s) : y = s[j]
    BY DEF Nodes
  <2>2. Target(j) \in 1..Len(r) /\ r[Target(j)] = y
    BY <1>1, <1>3, <1>7, <2>1
  <2> QED
    BY <2>2 DEF Nodes
<1> QED
  BY <1>1, <1>5, <1>6, <1>7 DEF r

\* erase() takes the event out of the range it is in.
LEMMA EraseFromRange ==
  ASSUME NEW ranges \in [Fd -> Seq(Event)], \A f \in Fd : NoRepeat(ranges[f]), NEW e
  PROVE  /\ EraseEvent(ranges, e) \in [Fd -> Seq(Event)]
         /\ \A f \in Fd : /\ NoRepeat(EraseEvent(ranges, e)[f])
                          /\ Nodes(EraseEvent(ranges, e)[f]) = Nodes(ranges[f]) \ {e}
                          /\ e \notin Nodes(ranges[f]) =>
                               EraseEvent(ranges, e)[f] = ranges[f]
<1>1. ASSUME NEW f \in Fd
      PROVE  /\ EraseEvent(ranges, e)[f] \in Seq(Event)
             /\ NoRepeat(EraseEvent(ranges, e)[f])
             /\ Nodes(EraseEvent(ranges, e)[f]) = Nodes(ranges[f]) \ {e}
             /\ e \notin Nodes(ranges[f]) => EraseEvent(ranges, e)[f] = ranges[f]
  <2>1. CASE e \in Nodes(ranges[f])
    <3>1. EraseEvent(ranges, e)[f] = Erase(ranges[f], e)
      BY <2>1 DEF EraseEvent
    <3> QED
      BY <2>1, <3>1, EraseNodes
  <2>2. CASE e \notin Nodes(ranges[f])
    BY <2>2 DEF EraseEvent
  <2> QED
    BY <2>1, <2>2
<1>2. EraseEvent(ranges, e) = [f \in Fd |-> EraseEvent(ranges, e)[f]]
  BY DEF EraseEvent
<1> QED
  BY <1>1, <1>2

-----------------------------------------------------------------------------
(***************************************************************************)
(* add() and remove() of the dispatchers.                                  *)
(***************************************************************************)

\* The registration rf, rs, re is that of the events L with masks ev.
Registers(rf, rs, re, L, ev) ==
  /\ rf \in [Fd -> Seq(Event)]
  /\ \A f \in Fd : /\ NoRepeat(rf[f])
                   /\ Nodes(rf[f]) = {e \in L : fd[e] = f /\ f \in Pollable}
  /\ rs = {e \in L : fd[e] \notin Pollable}
  /\ re \in [Fd -> [mask : SUBSET Bit, data : Event \cup {Null}]]
  /\ \A f \in Fd : re[f] = IF rf[f] = << >> THEN NoEntry
                           ELSE [mask |-> UnionMask(rf[f], ev), data |-> Head(rf[f])]

\* The entry of a range is a proper epoll entry.
LEMMA EntryType ==
  ASSUME NEW s \in Seq(Event), NEW ev \in [Event -> Mask]
  PROVE  /\ UnionMask(s, ev) \in SUBSET Bit
         /\ NoEntry \in [mask : SUBSET Bit, data : Event \cup {Null}]
         /\ s # << >> => [mask |-> UnionMask(s, ev), data |-> Head(s)]
                           \in [mask : SUBSET Bit, data : Event \cup {Null}]
<1>1. \A x \in Nodes(s) : x \in Event
  BY DEF Nodes
<1>2. UnionMask(s, ev) \in SUBSET Bit
  BY <1>1 DEF UnionMask
<1>3. s # << >> => Head(s) \in Event
  BY <1>1, FirstNode
<1> QED
  BY <1>2, <1>3 DEF NoEntry

\* The maps and the epoll set q register the events of L with the masks ev.
Whole(q, L, ev) ==
  /\ q = [fds |-> q.fds, files |-> q.files, epoll |-> q.epoll]
  /\ Registers(q.fds, q.files, q.epoll, L, ev)

\* remove() leaves the registration of the other events, also if the mask of the event
\* has changed before.
LEMMA RemoveRegisters ==
  ASSUME fd \in [Event -> Fd], NEW q, NEW L \in SUBSET Event,
         NEW ev \in [Event -> Mask], NEW nv \in [Event -> Mask],
         NEW e \in L, \A x \in Event \ {e} : nv[x] = ev[x],
         pollable[e] <=> fd[e] \in Pollable, Whole(q, L, ev)
  PROVE  Whole(RemoveFrom(q, e, nv), L \ {e}, nv)
<1> DEFINE rf == q.fds
           rs == q.files
           re == q.epoll
           r == RemoveFrom([fds |-> rf, files |-> rs, epoll |-> re], e, nv)
<1> /\ Registers(rf, rs, re, L, ev) /\ RemoveFrom(q, e, nv) = r
  BY DEF Whole
<1> HIDE DEF rf, rs, re
<1>1. ASSUME NEW f \in Fd, e \notin Nodes(rf[f])
      PROVE  UnionMask(rf[f], nv) = UnionMask(rf[f], ev)
  <2>1. \A x \in Nodes(rf[f]) : nv[x] = ev[x]
    BY <1>1 DEF Registers
  <2> QED
    BY <2>1 DEF UnionMask
<1>2. CASE pollable[e]
  <2> DEFINE ranges == EraseEvent(rf, e)
             entry == IF ranges[fd[e]] = << >> THEN NoEntry
                      ELSE [mask |-> UnionMask(ranges[fd[e]], nv), data |-> Head(ranges[fd[e]])]
             nre == [re EXCEPT ![fd[e]] = entry]
  <2>1. r = [fds |-> ranges, files |-> rs, epoll |-> nre]
    BY <1>2 DEF RemoveFrom
  <2>2. /\ ranges \in [Fd -> Seq(Event)]
        /\ \A f \in Fd : /\ NoRepeat(ranges[f]) /\ Nodes(ranges[f]) = Nodes(rf[f]) \ {e}
                         /\ e \notin Nodes(rf[f]) => ranges[f] = rf[f]
    <3>1. rf \in [Fd -> Seq(Event)] /\ \A f \in Fd : NoRepeat(rf[f])
      BY DEF Registers
    <3>2. /\ EraseEvent(rf, e) \in [Fd -> Seq(Event)]
          /\ \A f \in Fd : /\ NoRepeat(EraseEvent(rf, e)[f])
                           /\ Nodes(EraseEvent(rf, e)[f]) = Nodes(rf[f]) \ {e}
                           /\ e \notin Nodes(rf[f]) => EraseEvent(rf, e)[f] = rf[f]
      BY <3>1, EraseFromRange
    <3> QED
      BY <3>2
  <2> HIDE DEF ranges
  <2>3. \A f \in Fd : Nodes(ranges[f]) = {x \in L \ {e} : fd[x] = f /\ f \in Pollable}
    BY <2>2 DEF Registers
  <2>4. rs = {x \in L \ {e} : fd[x] \notin Pollable}
    BY <1>2 DEF Registers
  <2>5. fd[e] \in Fd /\ entry \in [mask : SUBSET Bit, data : Event \cup {Null}]
    BY <2>2, EntryType
  <2> HIDE DEF entry
  <2>6. nre \in [Fd -> [mask : SUBSET Bit, data : Event \cup {Null}]]
    BY <2>5 DEF Registers
  <2>7. ASSUME NEW f \in Fd
        PROVE  nre[f] = IF ranges[f] = << >> THEN NoEntry
                        ELSE [mask |-> UnionMask(ranges[f], nv), data |-> Head(ranges[f])]
    <3>1. CASE f = fd[e]
      BY <3>1 DEF entry, Registers
    <3>2. CASE f # fd[e]
      <4>1. e \notin Nodes(rf[f])
        BY <3>2 DEF Registers
      <4>2. nre[f] = re[f] /\ ranges[f] = rf[f]
        BY <2>2, <3>2, <4>1 DEF Registers
      <4> QED
        BY <1>1, <4>1, <4>2 DEF Registers
    <3> QED
      BY <3>1, <3>2
  <2> HIDE DEF nre
  <2>8. Registers(ranges, rs, nre, L \ {e}, nv)
    BY <2>2, <2>3, <2>4, <2>6, <2>7 DEF Registers
  <2> HIDE DEF r
  <2>9. r.fds = ranges /\ r.files = rs /\ r.epoll = nre
    BY <2>1
  <2>10. r = [fds |-> r.fds, files |-> r.files, epoll |-> r.epoll]
    BY <2>1, <2>9
  <2> QED
    BY <2>8, <2>9, <2>10 DEF Whole
<1>3. CASE ~pollable[e]
  <2>1. r = [fds |-> rf, files |-> rs \ {e}, epoll |-> re]
    BY <1>3 DEF RemoveFrom
  <2>2. ASSUME NEW f \in Fd
        PROVE  e \notin Nodes(rf[f])
    BY <1>3 DEF Registers
  <2>3. \A f \in Fd : Nodes(rf[f]) = {x \in L \ {e} : fd[x] = f /\ f \in Pollable}
    BY <2>2 DEF Registers
  <2>4. rs \ {e} = {x \in L \ {e} : fd[x] \notin Pollable}
    BY DEF Registers
  <2>5. Registers(rf, rs \ {e}, re, L \ {e}, nv)
    BY <1>1, <2>2, <2>3, <2>4 DEF Registers
  <2> HIDE DEF r
  <2>6. r.fds = rf /\ r.files = rs \ {e} /\ r.epoll = re
    BY <2>1
  <2>7. r = [fds |-> r.fds, files |-> r.files, epoll |-> r.epoll]
    BY <2>1, <2>6
  <2> QED
    BY <2>5, <2>6, <2>7 DEF Whole
<1> QED
  BY <1>2, <1>3

\* add() puts the event into the registration.
LEMMA AddRegisters ==
  ASSUME fd \in [Event -> Fd], NEW q, NEW L \in SUBSET Event,
         NEW ev \in [Event -> Mask], NEW e \in Event, e \notin L, Whole(q, L, ev)
  PROVE  Whole(AddTo(q, e, ev), L \cup {e}, ev)
<1> DEFINE rf == q.fds
           rs == q.files
           re == q.epoll
           r == AddTo([fds |-> rf, files |-> rs, epoll |-> re], e, ev)
<1> /\ Registers(rf, rs, re, L, ev) /\ AddTo(q, e, ev) = r
  BY DEF Whole
<1> HIDE DEF rf, rs, re
<1>1. CASE fd[e] \in Pollable
  <2> DEFINE range == <<e>> \o rf[fd[e]]
             ranges == [rf EXCEPT ![fd[e]] = range]
             entry == [mask |-> UnionMask(rf[fd[e]], ev) \cup ev[e], data |-> e]
             nre == [re EXCEPT ![fd[e]] = entry]
  <2>1. r = [fds |-> ranges, files |-> rs, epoll |-> nre]
    BY <1>1 DEF AddTo
  <2>2. fd[e] \in Fd /\ rf[fd[e]] \in Seq(Event) /\ NoRepeat(rf[fd[e]]) /\ e \notin Nodes(rf[fd[e]])
    BY DEF Registers
  <2>3. /\ range \in Seq(Event) /\ range # << >> /\ Head(range) = e
        /\ NoRepeat(range) /\ Nodes(range) = Nodes(rf[fd[e]]) \cup {e}
    BY <2>2, PushFirst
  <2> HIDE DEF range
  <2>4. /\ ranges \in [Fd -> Seq(Event)] /\ ranges[fd[e]] = range
        /\ \A f \in Fd : f # fd[e] => ranges[f] = rf[f]
    BY <2>2, <2>3 DEF Registers
  <2>5. entry = [mask |-> UnionMask(range, ev), data |-> Head(range)]
    <3>1. UnionMask(range, ev) = UnionMask(rf[fd[e]], ev) \cup ev[e]
      BY <2>3 DEF UnionMask
    <3> QED
      BY <2>3, <3>1
  <2>6. entry \in [mask : SUBSET Bit, data : Event \cup {Null}]
    BY <2>3, <2>5, EntryType
  <2> HIDE DEF ranges, entry
  <2>7. /\ nre \in [Fd -> [mask : SUBSET Bit, data : Event \cup {Null}]] /\ nre[fd[e]] = entry
        /\ \A f \in Fd : f # fd[e] => nre[f] = re[f]
    BY <2>2, <2>6 DEF Registers
  <2> HIDE DEF nre
  <2>8. ASSUME NEW f \in Fd
        PROVE  /\ NoRepeat(ranges[f])
               /\ Nodes(ranges[f]) = {x \in L \cup {e} : fd[x] = f /\ f \in Pollable}
               /\ nre[f] = IF ranges[f] = << >> THEN NoEntry
                           ELSE [mask |-> UnionMask(ranges[f], ev), data |-> Head(ranges[f])]
    <3>1. CASE f = fd[e]
      <4>1. Nodes(rf[f]) = {x \in L : fd[x] = f /\ f \in Pollable}
        BY DEF Registers
      <4> QED
        BY <1>1, <2>3, <2>4, <2>5, <2>7, <3>1, <4>1
    <3>2. CASE f # fd[e]
      BY <2>4, <2>7, <3>2 DEF Registers
    <3> QED
      BY <3>1, <3>2
  <2>9. rs = {x \in L \cup {e} : fd[x] \notin Pollable}
    BY <1>1 DEF Registers
  <2>10. Registers(ranges, rs, nre, L \cup {e}, ev)
    BY <2>4, <2>7, <2>8, <2>9 DEF Registers
  <2> HIDE DEF r
  <2>11. r.fds = ranges /\ r.files = rs /\ r.epoll = nre
    BY <2>1
  <2>12. r = [fds |-> r.fds, files |-> r.files, epoll |-> r.epoll]
    BY <2>1, <2>11
  <2> QED
    BY <2>10, <2>11, <2>12 DEF Whole
<1>2. CASE fd[e] \notin Pollable
  <2>1. r = [fds |-> rf, files |-> rs \cup {e}, epoll |-> re]
    BY <1>2 DEF AddTo
  <2>2. \A f \in Fd : Nodes(rf[f]) = {x \in L \cup {e} : fd[x] = f /\ f \in Pollable}
    BY <1>2 DEF Registers
  <2>3. rs \cup {e} = {x \in L \cup {e} : fd[x] \notin Pollable}
    BY <1>2 DEF Registers
  <2>4. Registers(rf, rs \cup {e}, re, L \cup {e}, ev)
    BY <2>2, <2>3 DEF Registers
  <2> HIDE DEF r
  <2>5. r.fds = rf /\ r.files = rs \cup {e} /\ r.epoll = re
    BY <2>1
  <2>6. r = [fds |-> r.fds, files |-> r.files, epoll |-> r.epoll]
    BY <2>1, <2>5
  <2> QED
    BY <2>4, <2>5, <2>6 DEF Whole
<1> QED
  BY <1>1, <1>2

\* No two events of L on the same descriptor are registered for the same.
Disjoint(L, ev) == \A e, x \in L : e # x /\ fd[e] = fd[x] => ev[e] \cap ev[x] = {}

\* add() refuses an event whose mask meets that of another one.
LEMMA NotDuplicate ==
  ASSUME fd \in [Event -> Fd], NEW q, NEW L \in SUBSET Event,
         NEW ev \in [Event -> Mask], NEW e \in Event, e \notin L,
         Whole(q, L, ev), Disjoint(L, ev), ~Duplicate(q, e, ev)
  PROVE  Disjoint(L \cup {e}, ev)
<1> DEFINE rf == q.fds
           rs == q.files
           re == q.epoll
<1> Registers(rf, rs, re, L, ev) /\ ~Duplicate([fds |-> rf, files |-> rs, epoll |-> re], e, ev)
  BY DEF Whole
<1> HIDE DEF rf, rs, re
<1>1. ASSUME NEW x \in L, fd[x] = fd[e]
      PROVE  ev[e] \cap ev[x] = {}
  <2>1. CASE fd[e] \in Pollable
    <3>1. ev[e] \cap UnionMask(rf[fd[e]], ev) = {}
      BY <2>1 DEF Duplicate
    <3>2. x \in Nodes(rf[fd[e]])
      BY <1>1, <2>1 DEF Registers
    <3> QED
      BY <3>1, <3>2 DEF UnionMask
  <2>2. CASE fd[e] \notin Pollable
    <3>1. ev[e] \cap UNION {ev[y] : y \in {z \in rs : fd[z] = fd[e]}} = {}
      BY <2>2 DEF Duplicate
    <3>2. x \in rs
      BY <1>1, <2>2 DEF Registers
    <3> QED
      BY <1>1, <3>1, <3>2
  <2> QED
    BY <2>1, <2>2
<1> QED
  BY <1>1 DEF Disjoint

-----------------------------------------------------------------------------
(***************************************************************************)
(* The invariant in terms of the registration.                             *)
(***************************************************************************)

RegsOK ==
  /\ Registers(fds, files, epoll, linked, events)
  /\ Disjoint(linked, events)
  /\ \A e \in linked : pollable[e] = (fd[e] \in Pollable)

LEMMA InvRegs == TypeOK => (IndInv <=> RegsOK)
<1> SUFFICES ASSUME TypeOK PROVE IndInv <=> RegsOK
  OBVIOUS
<1>1. ASSUME IndInv
      PROVE  RegsOK
  <2>1. ASSUME NEW f \in Fd
        PROVE  /\ NoRepeat(fds[f])
               /\ Nodes(fds[f]) = {e \in linked : fd[e] = f /\ f \in Pollable}
               /\ epoll[f] = IF fds[f] = << >> THEN NoEntry
                             ELSE [mask |-> UnionMask(fds[f], events), data |-> Head(fds[f])]
    <3>1. NoRepeat(fds[f]) /\ Nodes(fds[f]) = {e \in linked : fd[e] = f /\ f \in Pollable}
      BY <1>1 DEF IndInv, Placed
    <3>2. epoll[f] = IF fds[f] = << >> THEN NoEntry
                     ELSE [mask |-> UNION {events[e] : e \in {x \in linked : fd[x] = f}},
                           data |-> Head(fds[f])]
      BY <1>1 DEF IndInv, EpollAgrees
    <3>3. fds[f] # << >> => Nodes(fds[f]) = {x \in linked : fd[x] = f}
      <4>1. fds[f] \in Seq(Event)
        BY DEF TypeOK
      <4> QED
        BY <3>1, <4>1, FirstNode
    <3>4. fds[f] # << >> =>
            UNION {events[e] : e \in {x \in linked : fd[x] = f}} = UnionMask(fds[f], events)
      BY <3>3 DEF UnionMask
    <3> QED
      BY <3>1, <3>2, <3>4
  <2>2. Registers(fds, files, epoll, linked, events)
    BY <1>1, <2>1 DEF Registers, IndInv, TypeOK, Placed
  <2> QED
    BY <1>1, <2>2 DEF RegsOK, IndInv, Placed, OneHandler, Disjoint
<1>2. ASSUME RegsOK
      PROVE  IndInv
  <2>1. Placed
    BY <1>2 DEF RegsOK, Registers, Placed
  <2>2. OneHandler
    <3>1. ASSUME NEW e \in linked
          PROVE  IF pollable[e] THEN e \in Nodes(fds[fd[e]]) ELSE e \in files
      <4>1. fd[e] \in Fd
        BY DEF TypeOK, Runner!TypeOK
      <4> QED
        BY <2>1, <4>1 DEF Placed
    <3> QED
      BY <1>2, <3>1 DEF RegsOK, Disjoint, OneHandler
  <2>3. ASSUME NEW f \in Fd
        PROVE  /\ Nodes(fds[f]) \subseteq {e \in linked : fd[e] = f}
               /\ {e \in linked : fd[e] = f} \subseteq Nodes(fds[f]) \cup files
               /\ epoll[f] = IF fds[f] = << >> THEN NoEntry
                             ELSE [mask |-> UNION {events[e] : e \in {x \in linked : fd[x] = f}},
                                   data |-> Head(fds[f])]
    <3>1. Nodes(fds[f]) = {e \in linked : fd[e] = f /\ f \in Pollable}
      BY <2>1 DEF Placed
    <3>2. fds[f] # << >> => Nodes(fds[f]) = {x \in linked : fd[x] = f}
      <4>1. fds[f] \in Seq(Event)
        BY DEF TypeOK
      <4> QED
        BY <3>1, <4>1, FirstNode
    <3>3. fds[f] # << >> =>
            UNION {events[e] : e \in {x \in linked : fd[x] = f}} = UnionMask(fds[f], events)
      BY <3>2 DEF UnionMask
    <3>4. epoll[f] = IF fds[f] = << >> THEN NoEntry
                     ELSE [mask |-> UnionMask(fds[f], events), data |-> Head(fds[f])]
      BY <1>2 DEF RegsOK, Registers
    <3> QED
      BY <2>1, <3>1, <3>3, <3>4 DEF Placed
  <2>4. EpollAgrees
    BY <2>3 DEF EpollAgrees
  <2> QED
    BY <2>1, <2>2, <2>4 DEF IndInv
<1> QED
  BY <1>1, <1>2

\* Nothing is registered at first.
LEMMA Start == Init => IndInv
<1> SUFFICES ASSUME Init PROVE IndInv
  OBVIOUS
<1>1. \A f \in Fd : fds[f] = << >> /\ epoll[f] = NoEntry
  BY DEF Init
<1>2. Nodes(<< >>) = {} /\ NoRepeat(<< >>)
  BY DEF Nodes, NoRepeat
<1>3. NoEntry \in [mask : SUBSET Bit, data : Event \cup {Null}]
  BY DEF NoEntry
<1>4. fds \in [Fd -> Seq(Event)] /\ epoll \in [Fd -> [mask : SUBSET Bit, data : Event \cup {Null}]]
  BY <1>3 DEF Init
<1>5. TypeOK
  BY <1>4 DEF Init, Runner!Init, TypeOK, Runner!TypeOK
<1>6. linked = {} /\ files = {}
  BY DEF Init, Runner!Init
<1>7. Registers(fds, files, epoll, linked, events)
  BY <1>1, <1>2, <1>4, <1>6 DEF Registers
<1>8. RegsOK
  BY <1>6, <1>7 DEF RegsOK, Disjoint
<1> QED
  BY <1>5, <1>8, InvRegs

-----------------------------------------------------------------------------
(***************************************************************************)
(* The steps.                                                              *)
(***************************************************************************)

\* The members of FdManager and the epoll set register the linked events.
LEMMA WholeRegs ==
  ASSUME RegsOK
  PROVE  Whole(Regs, linked, events)
<1>1. Regs.fds = fds /\ Regs.files = files /\ Regs.epoll = epoll
  BY DEF Regs
<1>2. Regs = [fds |-> Regs.fds, files |-> Regs.files, epoll |-> Regs.epoll]
  BY DEF Regs
<1> QED
  BY <1>1, <1>2 DEF RegsOK, Whole

LEMMA EnableStep ==
  ASSUME TypeOK, RegsOK, NEW e \in Event, Enable(e)
  PROVE  TypeOK' /\ RegsOK'
<1> DEFINE r == AddTo(Regs, e, events)
<1>1. fds' = r.fds /\ files' = r.files /\ epoll' = r.epoll /\ UNCHANGED <<at, fd, events, signaled, ready>>
      /\ linked' = linked \cup {e} /\ e \notin linked
  BY DEF Enable, SetRegs, Runner!Enable
<1>2. Registers(r.fds, r.files, r.epoll, linked \cup {e}, events)
  <2>1. linked \in SUBSET Event /\ fd \in [Event -> Fd] /\ events \in [Event -> Mask]
    BY DEF TypeOK, Runner!TypeOK
  <2>2. Whole(r, linked \cup {e}, events)
    BY <1>1, <2>1, WholeRegs, AddRegisters
  <2> QED
    BY <2>2 DEF Whole
<1>3. Disjoint(linked \cup {e}, events)
  <2>1. ~Duplicate(Regs, e, events)
    BY DEF Enable
  <2>2. linked \in SUBSET Event /\ fd \in [Event -> Fd] /\ events \in [Event -> Mask]
    BY DEF TypeOK, Runner!TypeOK
  <2>3. Disjoint(linked, events)
    BY DEF RegsOK
  <2> QED
    BY <1>1, <2>1, <2>2, <2>3, WholeRegs, NotDuplicate
<1> HIDE DEF r
<1>4. Registers(fds, files, epoll, linked, events)' /\ Disjoint(linked, events)'
  BY <1>1, <1>2, <1>3 DEF Registers, Disjoint
<1>5. pollable' = [pollable EXCEPT ![e] = fd[e] \in Pollable]
  BY DEF Enable
<1>6. RegsOK'
  BY <1>1, <1>4, <1>5 DEF RegsOK, TypeOK, Runner!TypeOK
<1>7. Runner!TypeOK'
  BY DEF Enable, Runner!Enable, TypeOK, Runner!TypeOK
<1>8. fds' \in [Fd -> Seq(Event)] /\ files' \subseteq Event
      /\ epoll' \in [Fd -> [mask : SUBSET Bit, data : Event \cup {Null}]]
  BY <1>4, <1>7 DEF Registers, Runner!TypeOK
<1>9. pollable' \in [Event -> BOOLEAN]
  BY <1>5 DEF TypeOK
<1>10. TypeOK'
  BY <1>1, <1>7, <1>8, <1>9 DEF TypeOK
<1> QED
  BY <1>6, <1>10

LEMMA DisableStep ==
  ASSUME TypeOK, RegsOK, NEW e \in Event, Disable(e)
  PROVE  TypeOK' /\ RegsOK'
<1> DEFINE r == RemoveFrom(Regs, e, events)
<1>1. fds' = r.fds /\ files' = r.files /\ epoll' = r.epoll /\ UNCHANGED <<at, eventVars, ready>>
      /\ UNCHANGED <<fd, events, pollable, signaled>> /\ linked' = linked \ {e} /\ e \in linked
  BY DEF Disable, SetRegs, Runner!Disable, eventVars
<1>2. Registers(r.fds, r.files, r.epoll, linked \ {e}, events)
  <2>1. linked \in SUBSET Event /\ fd \in [Event -> Fd] /\ events \in [Event -> Mask]
    BY DEF TypeOK, Runner!TypeOK
  <2>2. pollable[e] <=> fd[e] \in Pollable
    BY <1>1 DEF RegsOK
  <2>3. Whole(r, linked \ {e}, events)
    BY <1>1, <2>1, <2>2, WholeRegs, RemoveRegisters
  <2> QED
    BY <2>3 DEF Whole
<1> HIDE DEF r
<1>3. Registers(fds, files, epoll, linked, events)'
  BY <1>1, <1>2 DEF Registers
<1>4. RegsOK'
  BY <1>1, <1>3 DEF RegsOK, Disjoint
<1>5. Runner!TypeOK'
  BY DEF Disable, Runner!Disable, TypeOK, Runner!TypeOK
<1>6. fds' \in [Fd -> Seq(Event)] /\ files' \subseteq Event
      /\ epoll' \in [Fd -> [mask : SUBSET Bit, data : Event \cup {Null}]]
  BY <1>3, <1>5 DEF Registers, Runner!TypeOK
<1>7. TypeOK'
  BY <1>1, <1>5, <1>6 DEF TypeOK
<1> QED
  BY <1>4, <1>7

\* events(m): the event is removed under its new mask, and added again unless refused.
LEMMA SetEventsStep ==
  ASSUME TypeOK, RegsOK, NEW e \in Event, NEW m \in Mask, SetEvents(e, m)
  PROVE  TypeOK' /\ RegsOK'
<1> DEFINE ev == [events EXCEPT ![e] = m]
           r == RemoveFrom(Regs, e, ev)
           again == m # {} /\ ~Duplicate(r, e, ev)
           a == AddTo(r, e, ev)
<1>1. /\ events' = ev /\ ev \in [Event -> Mask] /\ \A x \in Event \ {e} : ev[x] = events[x]
      /\ UNCHANGED <<runnable, active, current, at, fd, pollable, signaled, ready>>
  BY DEF SetEvents, TypeOK
<1>2. CASE e \in linked
  <2>1. /\ linked' = IF again THEN linked ELSE linked \ {e}
        /\ due' = due \ {e}
        /\ SetRegs(IF again THEN a ELSE r)
    BY <1>2 DEF SetEvents
  <2>2. Whole(r, linked \ {e}, ev)
    <3> HIDE DEF ev
    <3>1. linked \in SUBSET Event /\ fd \in [Event -> Fd] /\ events \in [Event -> Mask]
      BY DEF TypeOK, Runner!TypeOK
    <3>2. pollable[e] <=> fd[e] \in Pollable
      BY <1>2 DEF RegsOK
    <3> QED
      BY <1>1, <1>2, <3>1, <3>2, WholeRegs, RemoveRegisters
  <2>3. Disjoint(linked \ {e}, ev)
    BY <1>1 DEF RegsOK, Disjoint, TypeOK, Runner!TypeOK
  <2> HIDE DEF ev, r
  <2>4. CASE again
    <3>1. linked \ {e} \in SUBSET Event /\ e \notin linked \ {e} /\ fd \in [Event -> Fd]
      BY DEF TypeOK, Runner!TypeOK
    <3>2. (linked \ {e}) \cup {e} = linked
      BY <1>2
    <3>3. Registers(a.fds, a.files, a.epoll, linked, ev)
      <4>1. Whole(a, (linked \ {e}) \cup {e}, ev)
        BY <1>1, <2>2, <3>1, AddRegisters
      <4> QED
        BY <3>2, <4>1 DEF Whole
    <3>4. Disjoint(linked, ev)
      BY <1>1, <2>2, <2>3, <2>4, <3>1, <3>2, NotDuplicate
    <3>5. linked' = linked /\ fds' = a.fds /\ files' = a.files /\ epoll' = a.epoll
      BY <2>1, <2>4 DEF SetRegs
    <3> HIDE DEF a
    <3>6. Registers(fds, files, epoll, linked, events)' /\ Disjoint(linked, events)'
      BY <1>1, <3>3, <3>4, <3>5 DEF Registers, Disjoint
    <3>7. RegsOK'
      BY <1>1, <3>5, <3>6 DEF RegsOK
    <3>8. fds' \in [Fd -> Seq(Event)] /\ files' \subseteq Event
          /\ epoll' \in [Fd -> [mask : SUBSET Bit, data : Event \cup {Null}]]
      BY <3>5, <3>6 DEF Registers, TypeOK, Runner!TypeOK
    <3>9. TypeOK'
      BY <1>1, <2>1, <3>5, <3>8 DEF TypeOK, Runner!TypeOK
    <3> QED
      BY <3>7, <3>9
  <2>5. CASE ~again
    <3>1. linked' = linked \ {e} /\ fds' = r.fds /\ files' = r.files /\ epoll' = r.epoll
      BY <2>1, <2>5 DEF SetRegs
    <3>2. Registers(fds, files, epoll, linked, events)' /\ Disjoint(linked, events)'
      BY <1>1, <2>2, <2>3, <3>1 DEF Whole, Registers, Disjoint
    <3>3. RegsOK'
      BY <1>1, <3>1, <3>2 DEF RegsOK
    <3>4. fds' \in [Fd -> Seq(Event)] /\ files' \subseteq Event
          /\ epoll' \in [Fd -> [mask : SUBSET Bit, data : Event \cup {Null}]]
      BY <3>1, <3>2 DEF Registers, TypeOK, Runner!TypeOK
    <3>5. TypeOK'
      BY <1>1, <2>1, <3>1, <3>4 DEF TypeOK, Runner!TypeOK
    <3> QED
      BY <3>3, <3>5
  <2> QED
    BY <2>4, <2>5
<1>3. CASE e \notin linked
  <2>1. UNCHANGED <<linked, due, fds, files, epoll>>
    BY <1>3 DEF SetEvents
  <2>2. TypeOK'
    BY <1>1, <2>1 DEF TypeOK, Runner!TypeOK
  <2>3. \A x \in linked : ev[x] = events[x]
    BY <1>1, <1>3 DEF TypeOK, Runner!TypeOK
  <2> HIDE DEF ev
  <2>4. ASSUME NEW f \in Fd
        PROVE  UnionMask(fds[f], ev) = UnionMask(fds[f], events)
    <3>1. Nodes(fds[f]) \subseteq linked
      BY DEF RegsOK, Registers
    <3> QED
      BY <2>3, <3>1 DEF UnionMask
  <2>5. Registers(fds, files, epoll, linked, ev)
    BY <2>4 DEF RegsOK, Registers
  <2>6. Registers(fds, files, epoll, linked, events)' /\ Disjoint(linked, events)'
    BY <1>1, <2>1, <2>3, <2>5 DEF RegsOK, Registers, Disjoint
  <2> QED
    BY <1>1, <2>1, <2>2, <2>6 DEF RegsOK
<1> QED
  BY <1>2, <1>3

\* handle() for a disabled event moves nothing that is registered.
LEMMA HandleStep ==
  ASSUME TypeOK, RegsOK, NEW e \in Event, e \notin linked, NEW f \in Fd, Handle(e, f)
  PROVE  TypeOK' /\ RegsOK'
<1>1. /\ fd' = [fd EXCEPT ![e] = f] /\ pollable' = [pollable EXCEPT ![e] = TRUE]
      /\ UNCHANGED <<linked, runnable, active, current, due>>
      /\ UNCHANGED <<at, events, signaled, fds, files, epoll, ready>>
  BY DEF Handle, runnerVars
<1>2. TypeOK'
  BY <1>1 DEF TypeOK, Runner!TypeOK
<1>3. \A x \in linked : x # e /\ fd'[x] = fd[x] /\ pollable'[x] = pollable[x]
  BY <1>1 DEF TypeOK, Runner!TypeOK
<1>4. Registers(fds, files, epoll, linked, events)'
  BY <1>1, <1>3 DEF RegsOK, Registers
<1>5. Disjoint(linked, events)'
  BY <1>1, <1>3 DEF RegsOK, Disjoint
<1> QED
  BY <1>1, <1>2, <1>3, <1>4, <1>5 DEF RegsOK

\* processOnce() with the entries of F.
LEMMA PollStep ==
  ASSUME TypeOK, RegsOK, NEW F \in SUBSET Signaling, Poll(F)
  PROVE  TypeOK' /\ RegsOK'
<1> DEFINE hit == UNION {Walk(f) : f \in F}
<1>1. /\ signaled' = [e \in Event |->
                        IF e \in files THEN events[e]
                        ELSE IF e \in hit THEN Reported(fd[e]) \cap (ErrBit \cup events[e])
                        ELSE signaled[e]]
      /\ at' = "run"
      /\ UNCHANGED <<fd, events, pollable, fds, files, epoll, ready>>
  BY DEF Poll
<1>2. UNCHANGED <<linked, active, current, due>> /\ runnable' \in [Event -> BOOLEAN]
  BY DEF Poll, Runner!Signal, TypeOK, Runner!TypeOK
<1> HIDE DEF hit
<1>3. signaled' \in [Event -> SUBSET (Bit \cup ErrBit)]
  <2> SUFFICES ASSUME NEW e \in Event
               PROVE  signaled'[e] \in SUBSET (Bit \cup ErrBit)
    BY <1>1
  <2>1. events[e] \subseteq Bit /\ signaled[e] \subseteq Bit \cup ErrBit
    BY DEF TypeOK
  <2> QED
    BY <1>1, <2>1
<1>4. TypeOK'
  BY <1>1, <1>2, <1>3 DEF TypeOK, Runner!TypeOK
<1> QED
  BY <1>1, <1>2, <1>4 DEF RegsOK, Registers, Disjoint

\* Every step keeps the invariant.
LEMMA Step ==
  ASSUME ~HandleEnabled
  PROVE  IndInv /\ [Next]_vars => IndInv'
<1> SUFFICES ASSUME IndInv, [Next]_vars PROVE TypeOK' /\ RegsOK'
  BY InvRegs, PTL
<1>1. TypeOK /\ RegsOK
  BY InvRegs DEF IndInv
<1>2. ASSUME NEW e \in Event, Enable(e) \/ Disable(e)
      PROVE  TypeOK' /\ RegsOK'
  BY <1>1, <1>2, EnableStep, DisableStep
<1>3. ASSUME NEW e \in Event, NEW m \in Mask, SetEvents(e, m)
      PROVE  TypeOK' /\ RegsOK'
  BY <1>1, <1>3, SetEventsStep
<1>4. ASSUME NEW e \in Event, NEW f \in Fd, Handle(e, f)
      PROVE  TypeOK' /\ RegsOK'
  <2>1. e \notin linked
    BY <1>4 DEF Handle
  <2> QED
    BY <1>1, <1>4, <2>1, HandleStep
<1>5. ASSUME NEW f \in Pollable, NEW m \in SUBSET (Bit \cup ErrBit), Ready(f, m)
      PROVE  TypeOK' /\ RegsOK'
  <2>1. TypeOK'
    BY <1>1, <1>5 DEF Ready, TypeOK, Runner!TypeOK, runnerVars, eventVars
  <2> QED
    BY <1>1, <1>5, <2>1 DEF Ready, RegsOK, Registers, Disjoint, runnerVars, eventVars
<1>6. CASE PollReady \/ PollNone
  <2>1. PICK F \in SUBSET Signaling : Poll(F)
    BY <1>6 DEF PollReady, PollNone
  <2> QED
    BY <1>1, <2>1, PollStep
<1>7. CASE Process \/ Run \/ (\E e \in Event : Call(e)) \/ Return \/ Throw \/ Finish \/ UNCHANGED vars
  <2>1. UNCHANGED <<linked, fd, events, pollable, signaled, fds, files, epoll, ready>>
    BY <1>7 DEF Process, Run, Call, Return, Throw, Finish, vars, runnerVars, eventVars,
                Runner!Run, Runner!Dispatch, Runner!Return, Runner!Throw, Runner!Finish
  <2>2. Runner!TypeOK'
    BY <1>1, <1>7 DEF Process, Run, Call, Return, Throw, Finish, vars, runnerVars,
                Runner!Run, Runner!Dispatch, Runner!Return, Runner!Throw, Runner!Finish,
                TypeOK, Runner!TypeOK
  <2>3. at' \in {"out", "poll", "run", "callback"}
    BY <1>1, <1>7 DEF Process, Run, Call, Return, Throw, Finish, vars, TypeOK
  <2>4. TypeOK'
    BY <1>1, <2>1, <2>2, <2>3 DEF TypeOK
  <2> QED
    BY <1>1, <2>1, <2>4 DEF RegsOK, Registers, Disjoint
<1> QED
  BY <1>2, <1>3, <1>4, <1>5, <1>6, <1>7 DEF Next

-----------------------------------------------------------------------------
(***************************************************************************)
(* The theorems.                                                           *)
(***************************************************************************)

\* The registration of the dispatchers, epoll and the events fit together as long as
\* handle() is called for disabled events only.
THEOREM Invariance ==
  ASSUME ~HandleEnabled
  PROVE  Spec => []IndInv
<1>1. IndInv /\ [Next]_vars => IndInv'
  BY Step
<1> QED
  BY <1>1, Start, PTL DEF Spec

\* epoll watches what the enabled events of a descriptor ask for and reports it to the
\* first of them (FdDispatcher::add(), FdDispatcher::remove()).
THEOREM EpollInStep ==
  ASSUME ~HandleEnabled
  PROVE  Spec => []EpollAgrees
<1>1. IndInv => EpollAgrees
  BY DEF IndInv
<1> QED
  BY Invariance, <1>1, PTL

\* DuplicateEventRegistrationException keeps every event bit of a descriptor with one
\* handler, also when masks change, and remove() finds the event where add() put it.
THEOREM SingleHandler ==
  ASSUME ~HandleEnabled
  PROVE  Spec => []OneHandler
<1>1. IndInv => OneHandler
  BY DEF IndInv
<1> QED
  BY Invariance, <1>1, PTL

\* All the entries are reported if they fit.
LEMMA AllReported ==
  ASSUME NEW F \in SUBSET Signaling, Cardinality(F) = Min({Cardinality(Signaling), NumEvents}),
         NumEvents >= Cardinality(Signaling)
  PROVE  F = Signaling
<1>1. IsFiniteSet(Signaling)
  BY FS_Subset DEF Signaling
<1>2. Cardinality(Signaling) \in Nat
  BY <1>1, FS_CardinalityType
<1> DEFINE n == Cardinality(Signaling)
<1>3. Min({n, NumEvents}) = n
  <2> HIDE DEF n
  <2>1. n \in Nat /\ n <= NumEvents
    BY <1>2 DEF n
  <2>2. \E x \in {n, NumEvents} : \A y \in {n, NumEvents} : x <= y
    BY <2>1
  <2>3. /\ Min({n, NumEvents}) \in {n, NumEvents}
        /\ \A y \in {n, NumEvents} : Min({n, NumEvents}) <= y
    BY <2>2 DEF Min
  <2> QED
    BY <2>1, <2>3
<1>4. Cardinality(F) = Cardinality(Signaling)
  BY <1>3
<1> QED
  BY <1>1, <1>4, FS_Subset

\* signal() walks over all events of the descriptor.
LEMMA WalkAll ==
  ASSUME TypeOK, RegsOK, NEW f \in Signaling
  PROVE  Walk(f) = Nodes(fds[f]) /\ fds[f] # << >> /\ f \in Fd
<1>1. f \in Fd /\ epoll[f] # NoEntry
  BY DEF Signaling
<1>2. fds[f] # << >> /\ epoll[f].data = Head(fds[f]) /\ fds[f] \in Seq(Event)
  BY <1>1 DEF RegsOK, Registers
<1>3. 1 \in 1..Len(fds[f]) /\ fds[f][1] = epoll[f].data
  BY <1>2, FirstNode
<1>4. \A j \in 1..Len(fds[f]) : \E k \in 1..j : fds[f][k] = epoll[f].data
  BY <1>2, <1>3
<1> QED
  BY <1>1, <1>2, <1>4 DEF Walk, Nodes

\* A report makes those events runnable that are registered for it, and one at least.
LEMMA Answered ==
  ASSUME TypeOK, RegsOK, PollReady, NumEvents >= Cardinality(Signaling), NEW f \in Signaling
  PROVE  /\ \E e \in linked : fd[e] = f /\ runnable'[e]
         /\ \A e \in linked : fd[e] = f /\ events[e] \cap Reported(f) # {} => runnable'[e]
<1>1. Poll(Signaling)
  BY AllReported DEF PollReady
<1> DEFINE hit == UNION {Walk(g) : g \in Signaling}
           R == files \cup {e \in hit : Signals(e, Reported(fd[e]))}
<1>2. \A e \in Event : e \in R => runnable'[e]
  BY <1>1 DEF Poll, Runner!Signal
<1>3. Walk(f) = Nodes(fds[f]) /\ fds[f] # << >> /\ f \in Fd /\ f \in Pollable
  BY WalkAll DEF Signaling
<1>4. Nodes(fds[f]) = {e \in linked : fd[e] = f}
  BY <1>3 DEF RegsOK, Registers
<1>5. ASSUME NEW e \in linked, fd[e] = f, Signals(e, Reported(f))
      PROVE  runnable'[e]
  <2>1. e \in hit
    BY <1>3, <1>4, <1>5
  <2>2. e \in Event
    BY DEF TypeOK, Runner!TypeOK
  <2> QED
    BY <1>2, <1>5, <2>1, <2>2
<1> HIDE DEF R, hit
<1>6. ASSUME NEW e \in linked, fd[e] = f, events[e] \cap Reported(f) # {}
      PROVE  runnable'[e]
  BY <1>5, <1>6 DEF Signals
<1>7. \E e \in linked : fd[e] = f /\ Signals(e, Reported(f))
  <2>1. Reported(f) # {} /\ Reported(f) \subseteq epoll[f].mask \cup ErrBit
    BY DEF Signaling, Reported
  <2>2. epoll[f].mask = UnionMask(fds[f], events)
    BY <1>3 DEF RegsOK, Registers
  <2>3. CASE Reported(f) \cap Bit # {}
    <3>1. PICK b \in Bit : b \in Reported(f)
      BY <2>3
    <3>2. b \in UnionMask(fds[f], events)
      BY <2>1, <2>2, <3>1
    <3>3. PICK e \in Nodes(fds[f]) : b \in events[e]
      BY <3>2 DEF UnionMask
    <3> QED
      BY <1>4, <3>1, <3>3 DEF Signals
  <2>4. CASE Reported(f) \cap Bit = {}
    <3>1. Reported(f) \cap ErrBit # {}
      <4>1. epoll[f].mask \subseteq Bit
        BY <1>3 DEF RegsOK, Registers
      <4> QED
        BY <2>1, <2>4, <4>1
    <3>2. Head(fds[f]) \in Nodes(fds[f])
      BY <1>3, FirstNode DEF TypeOK
    <3> QED
      BY <1>4, <2>4, <3>1, <3>2 DEF Signals
  <2> QED
    BY <2>3, <2>4
<1> QED
  BY <1>5, <1>6, <1>7

\* Level triggered polling never spins on a report nobody answers (FdEvent::signal()).
THEOREM NeverSpins ==
  ASSUME ~HandleEnabled
  PROVE  Spec => NoBusyLoop
<1>1. IndInv /\ [Next]_vars =>
        [\A f \in Signaling :
           at = "poll" /\ at' = "run" /\ PollReady /\ NumEvents >= Cardinality(Signaling) =>
             /\ \E e \in linked : fd[e] = f /\ runnable'[e]
             /\ \A e \in linked : fd[e] = f /\ events[e] \cap Reported(f) # {} =>
                                    runnable'[e]]_vars
  <2> SUFFICES ASSUME IndInv, NEW f \in Signaling, PollReady,
                      NumEvents >= Cardinality(Signaling)
               PROVE  /\ \E e \in linked : fd[e] = f /\ runnable'[e]
                      /\ \A e \in linked : fd[e] = f /\ events[e] \cap Reported(f) # {} =>
                                             runnable'[e]
    OBVIOUS
  <2>1. TypeOK /\ RegsOK
    BY InvRegs DEF IndInv
  <2> QED
    BY <2>1, Answered
<1> QED
  BY Invariance, <1>1, PTL DEF Spec, NoBusyLoop
=============================================================================
