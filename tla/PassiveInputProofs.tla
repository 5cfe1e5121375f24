------------------------- MODULE PassiveInputProofs -------------------------
(***************************************************************************)
(* Proofs about PassiveInput: for a discipline with Low = 0 and High <= 1  *)
(* or handlers that take a packet whenever there is one, handlers that     *)
(* read first, nothing below a handler that ends a throttling, and         *)
(* exceptions that are senf::Exceptions, no packet is lost, repeated or    *)
(* overtaken, the source is told every change of the input's state and an  *)
(* open input has no packets left in it.                                   *)
(***************************************************************************)
EXTENDS PassiveInput, TLAPS

(***************************************************************************)
(* The stack of calls.                                                     *)
(***************************************************************************)

\* The calls t are the call c, made by the innermost of the calls s, and s.
IsPush(t, c, s) ==
  /\ Len(s) \in Nat /\ Len(t) = Len(s) + 1
  /\ t[1] = c
  /\ \A i \in 1..Len(s) : t[i + 1] = s[i]

\* A call is made.
LEMMA Push ==
  ASSUME NEW S, NEW s \in Seq(S), NEW c \in S
  PROVE  /\ <<c>> \o s \in Seq(S)
         /\ IsPush(<<c>> \o s, c, s)
  BY DEF IsPush

\* A call returns.
LEMMA Pop ==
  ASSUME NEW S, NEW s \in Seq(S), s # << >>
  PROVE  /\ Len(s) \in Nat \ {0} /\ s[1] \in S /\ Head(s) = s[1]
         /\ Tail(s) \in Seq(S) /\ IsPush(s, s[1], Tail(s))
  BY DEF IsPush

\* Where a call was made from does not depend on the calls made later.
LEMMA Shift ==
  ASSUME NEW s, NEW c, NEW t, IsPush(t, c, s),
         NEW i \in 1..Len(s)
  PROVE  /\ Nested(t, i + 1) <=> Nested(s, i)
         /\ OnFastPath(t, i + 1) <=> OnFastPath(s, i)
         /\ CalledBy(t, i + 1) <=> CalledBy(s, i)
  <1>1. /\ Len(t) = Len(s) + 1 /\ Len(s) \in Nat
        /\ \A k \in 1..Len(s) : t[k + 1] = s[k]
    BY DEF IsPush
  <1>2. Nested(t, i + 1) <=> Nested(s, i)
    <2>1. ASSUME NEW j \in (i + 1)..Len(s), s[j].at \in Reads
          PROVE  Nested(t, i + 1)
      <3>1. j + 1 \in (i + 1 + 1)..Len(t) /\ t[j + 1].at \in Reads
        BY <1>1, <2>1
      <3>2. QED
        BY <3>1 DEF Nested
    <2>2. ASSUME NEW j \in (i + 1 + 1)..Len(t), t[j].at \in Reads
          PROVE  Nested(s, i)
      <3>1. j - 1 \in (i + 1)..Len(s) /\ t[(j - 1) + 1] = s[j - 1] /\ (j - 1) + 1 = j
        BY <1>1, <2>2
      <3>2. QED
        BY <2>2, <3>1 DEF Nested
    <2>3. QED
      BY <2>1, <2>2 DEF Nested
  <1>3. \A k \in 1..Len(s) : OnFastPath(t, k + 1) <=> OnFastPath(s, k)
    BY <1>1 DEF OnFastPath
  <1>4. i + 2 <= Len(s) => (OnFastPath(t, i + 1 + 2) <=> OnFastPath(s, i + 2))
    <2>1. i + 1 + 2 = i + 2 + 1
      OBVIOUS
    <2>2. QED
      BY <1>1, <1>3, <2>1
  <1>5. i + 2 > Len(s) => ~OnFastPath(t, i + 1 + 2) /\ ~OnFastPath(s, i + 2)
    BY <1>1 DEF OnFastPath
  <1>6. CalledBy(t, i + 1) <=> CalledBy(s, i)
    <2>1. t[i + 1] = s[i] /\ (i < Len(s) => t[i + 1 + 1] = s[i + 1])
      BY <1>1
    <2>2. (i + 1 = Len(t) <=> i = Len(s)) /\ (i + 1 < Len(t) <=> i < Len(s)) /\ i <= Len(s)
      BY <1>1
    <2>3. OnFastPath(t, i + 1 + 2) <=> OnFastPath(s, i + 2)
      BY <1>1, <1>4, <1>5
    <2>4. QED
      BY <2>1, <2>2, <2>3 DEF CalledBy
  <1>7. QED
    BY <1>2, <1>3, <1>6

\* What a call makes of the innermost calls.
LEMMA PushTop ==
  ASSUME NEW s, NEW c, NEW t, IsPush(t, c, s)
  PROVE  /\ Len(t) = Len(s) + 1 /\ Len(s) \in Nat /\ t[1] = c
         /\ Len(s) > 0 => t[2] = s[1]
         /\ \A i \in 2..Len(t) : t[i] = s[i - 1]
         /\ OnFastPath(t, 1) <=> Len(s) > 0 /\ c.at = "callback_" /\ s[1].at = "enqueue_fast"
         /\ \A i \in 2..Len(t) : OnFastPath(t, i) <=> OnFastPath(s, i - 1)
         /\ Nested(t, 1) <=> Len(s) > 0 /\ (s[1].at \in Reads \/ Nested(s, 1))
         /\ Len(s) > 0 => t[Len(t)] = s[Len(s)]
  <1>1. /\ Len(t) = Len(s) + 1 /\ Len(s) \in Nat /\ t[1] = c
        /\ \A i \in 1..Len(s) : t[i + 1] = s[i]
    BY DEF IsPush
  <1>2. Len(s) > 0 => t[2] = s[1]
    <2>1. Len(s) > 0 => 1 \in 1..Len(s) /\ 1 + 1 = 2
      BY <1>1
    <2>2. QED
      BY <1>1, <2>1
  <1>3. ASSUME NEW i \in 2..Len(t)
        PROVE  t[i] = s[i - 1] /\ (OnFastPath(t, i) <=> OnFastPath(s, i - 1))
    <2>1. i - 1 \in 1..Len(s) /\ i - 1 + 1 = i
      BY <1>1
    <2>2. OnFastPath(t, i - 1 + 1) <=> OnFastPath(s, i - 1)
      BY <2>1, Shift
    <2>3. QED
      BY <1>1, <2>1, <2>2
  <1>4. OnFastPath(t, 1) <=> Len(s) > 0 /\ c.at = "callback_" /\ s[1].at = "enqueue_fast"
    BY <1>1, <1>2 DEF OnFastPath
  <1>5. Len(s) = 0 => ~Nested(t, 1)
    BY <1>1 DEF Nested
  <1>6. ASSUME Len(s) > 0
        PROVE  Nested(t, 1) <=> (s[1].at \in Reads \/ Nested(s, 1))
    <2>1. 1 \in 1..Len(s)
      BY <1>1, <1>6
    <2>2. Nested(t, 1 + 1) <=> Nested(s, 1)
      BY <2>1, Shift
    <2>3. Nested(t, 1) <=> (t[2].at \in Reads \/ Nested(t, 1 + 1))
      <3>1. 1 + 1 = 2 /\ 1 + 1 + 1 = 3
        OBVIOUS
      <3>2. \A j : j \in 2..Len(t) <=> (j = 2 \/ j \in 3..Len(t))
        BY <1>1, <1>6
      <3>3. QED
        BY <3>1, <3>2 DEF Nested
    <2>4. QED
      BY <1>2, <1>6, <2>2, <2>3
  <1>7. QED
    BY <1>1, <1>2, <1>3, <1>4, <1>5, <1>6

\* A call that is made from where such calls are made keeps the calls well nested.
LEMMA PushNested ==
  ASSUME NEW s, NEW c, NEW t, IsPush(t, c, s),
         WellNested(s), CalledBy(t, 1),
         Nested(t, 1) => c.at # "read_slow" /\ (c.at = "callback_" => OnFastPath(t, 1))
  PROVE  WellNested(t)
  <1>1. /\ t[1] = c /\ Len(t) = Len(s) + 1 /\ Len(s) \in Nat
        /\ \A i \in 1..Len(s) : t[i + 1] = s[i]
    BY DEF IsPush
  <1>2. SUFFICES ASSUME NEW i \in 1..Len(t), i # 1
                 PROVE  /\ CalledBy(t, i)
                        /\ Nested(t, i) => /\ t[i].at # "read_slow"
                                           /\ t[i].at = "callback_" => OnFastPath(t, i)
    BY <1>1 DEF WellNested
  <1> DEFINE k == i - 1
  <1>3. k \in 1..Len(s) /\ k + 1 = i
    BY <1>1, <1>2
  <1> HIDE DEF k
  <1>4. /\ Nested(t, k + 1) <=> Nested(s, k)
        /\ OnFastPath(t, k + 1) <=> OnFastPath(s, k)
        /\ CalledBy(t, k + 1) <=> CalledBy(s, k)
    BY <1>3, Shift
  <1>5. t[i] = s[k]
    BY <1>1, <1>3
  <1>6. QED
    BY <1>3, <1>4, <1>5 DEF WellNested

\* A return keeps the calls well nested.
LEMMA PopNested ==
  ASSUME NEW s, NEW c, NEW t, IsPush(t, c, s), WellNested(t)
  PROVE  WellNested(s)
  <1>1. ASSUME NEW i \in 1..Len(s)
        PROVE  /\ CalledBy(s, i)
               /\ Nested(s, i) => /\ s[i].at # "read_slow"
                                  /\ s[i].at = "callback_" => OnFastPath(s, i)
    <2>1. /\ Nested(t, i + 1) <=> Nested(s, i)
          /\ OnFastPath(t, i + 1) <=> OnFastPath(s, i)
          /\ CalledBy(t, i + 1) <=> CalledBy(s, i)
      BY Shift
    <2>2. i + 1 \in 1..Len(t) /\ s[i] = t[i + 1]
      BY DEF IsPush
    <2>3. QED
      BY <2>1, <2>2 DEF WellNested
  <1>2. QED
    BY <1>1 DEF WellNested

\* A handler that was called for a packet on the fast path is the innermost call, or
\* the read it calls is.
LEMMA FastOnTop ==
  ASSUME NEW s, Len(s) \in Nat, \A k \in 1..Len(s) : s[k].at \in Ats,
         WellNested(s),
         NEW i \in 1..Len(s), OnFastPath(s, i)
  PROVE  i = 1 \/ (i = 2 /\ s[1].at \in Reads)
  <1>1. s[i].at = "callback_"
    BY DEF OnFastPath
  <1>2. ASSUME i # 1
        PROVE  s[i - 1].at \in Reads
    <2> DEFINE k == i - 1
    <2>1. k \in 1..Len(s) /\ k + 1 = i /\ k # Len(s)
      BY <1>2
    <2> HIDE DEF k
    <2>2. CalledBy(s, k) /\ s[k].at \in Ats
      BY <2>1 DEF WellNested
    <2>3. s[k].at \in Reads
      BY <1>1, <2>1, <2>2 DEF CalledBy, Ats, Enqueues, Reads
    <2>4. QED
      BY <2>3 DEF k
  <1>3. ASSUME i > 2
        PROVE  FALSE
    <2> DEFINE k == i - 2
    <2>1. k \in 1..Len(s) /\ k + 1 = i - 1 /\ k + 2 = i /\ k # Len(s)
      BY <1>3
    <2> HIDE DEF k
    <2>2. CalledBy(s, k) /\ s[k].at \in Ats
      BY <2>1 DEF WellNested
    <2>3. s[k + 1].at \in Reads
      BY <1>2, <1>3, <2>1
    <2>4. s[k].at = "v_unthrottleEvent"
      BY <2>1, <2>2, <2>3 DEF CalledBy, Ats, Enqueues, Reads
    <2>5. QED
      BY <2>1, <2>2, <2>4 DEF CalledBy
  <1>4. QED
    BY <1>2, <1>3

\* Below a notification of the source no handler is on the fast path, and a loop
\* that has called a handler is the caller of a read.
LEMMA BelowNotification ==
  ASSUME NEW s, Len(s) \in Nat, \A k \in 1..Len(s) : s[k].at \in Ats,
         WellNested(s), Len(s) > 0, s[1].at = "unthrottleCallback_",
         NEW i \in 1..Len(s)
  PROVE  /\ ~OnFastPath(s, i)
         /\ s[i].at = "v_unthrottleEvent" /\ s[i].n # 0 => Nested(s, 1)
  <1>1. ~OnFastPath(s, i)
    <2>1. ~OnFastPath(s, 1) /\ s[1].at \notin Reads
      BY DEF OnFastPath, Reads
    <2>2. QED
      BY <2>1, FastOnTop
  <1>2. 1 < Len(s) /\ s[2].at = "v_unthrottleEvent" /\ s[2].n = 0
    <2>1. 1 \in 1..Len(s) /\ 1 + 1 = 2
      OBVIOUS
    <2>2. CalledBy(s, 1)
      BY <2>1 DEF WellNested
    <2>3. QED
      BY <2>1, <2>2 DEF CalledBy
  <1>3. ASSUME s[i].at = "v_unthrottleEvent", s[i].n # 0
        PROVE  Nested(s, 1)
    <2>1. i > 2
      BY <1>2, <1>3
    <2>2. 2 \in 1..Len(s) /\ 2 # Len(s) /\ 2 + 1 = 3
      BY <2>1
    <2>3. CalledBy(s, 2)
      BY <2>2 DEF WellNested
    <2>4. s[3].at \in Reads
      BY <1>2, <2>2, <2>3 DEF CalledBy
    <2>5. 3 \in (1 + 1)..Len(s)
      BY <2>1
    <2>6. QED
      BY <2>4, <2>5 DEF Nested
  <1>4. QED
    BY <1>1, <1>3

\* A write, from the source.
LEMMA PushEnqueue ==
  ASSUME NEW s, NEW c, NEW t, IsPush(t, c, s),
         WellNested(s), c.at \in Enqueues,
         Len(s) = 0 \/ s[1].at = "unthrottleCallback_"
  PROVE  WellNested(t)
  <1>1. /\ Len(t) = Len(s) + 1 /\ Len(s) \in Nat /\ t[1] = c
        /\ Len(s) > 0 => t[2] = s[1]
    BY PushTop
  <1>2. CalledBy(t, 1)
    BY <1>1 DEF CalledBy, Enqueues, Reads
  <1>3. QED
    BY <1>2, PushNested DEF Enqueues

\* A call of the handler.
LEMMA PushCallback ==
  ASSUME NEW s, NEW c, NEW t, IsPush(t, c, s),
         WellNested(s), Len(s) > 0, c.at = "callback_", c.n \in {0, 1},
         s[1].at \in Enqueues \/ (s[1].at = "v_unthrottleEvent" /\ s[1].n # 0),
         Nested(s, 1) => s[1].at = "enqueue_fast"
  PROVE  WellNested(t)
  <1>1. /\ Len(t) = Len(s) + 1 /\ Len(s) \in Nat /\ t[1] = c
        /\ Len(s) > 0 => t[2] = s[1]
        /\ OnFastPath(t, 1) <=> Len(s) > 0 /\ c.at = "callback_" /\ s[1].at = "enqueue_fast"
        /\ Nested(t, 1) <=> Len(s) > 0 /\ (s[1].at \in Reads \/ Nested(s, 1))
    BY PushTop
  <1>2. CalledBy(t, 1)
    BY <1>1 DEF CalledBy, Enqueues, Reads
  <1>3. s[1].at \notin Reads
    BY DEF Enqueues, Reads
  <1>4. QED
    BY <1>1, <1>2, <1>3, PushNested

\* A read, from the module.
LEMMA PushRead ==
  ASSUME NEW s, NEW c, NEW t, IsPush(t, c, s),
         WellNested(s), c.at \in Reads,
         Len(s) = 0 \/ (s[1].at = "callback_" /\ s[1].n = 1),
         Nested(s, 1) => c.at # "read_slow"
  PROVE  WellNested(t)
  <1>1. /\ Len(t) = Len(s) + 1 /\ Len(s) \in Nat /\ t[1] = c
        /\ Len(s) > 0 => t[2] = s[1]
        /\ Nested(t, 1) <=> Len(s) > 0 /\ (s[1].at \in Reads \/ Nested(s, 1))
    BY PushTop
  <1>2. CalledBy(t, 1)
    BY <1>1 DEF CalledBy, Enqueues, Reads
  <1>3. Nested(t, 1) => c.at # "read_slow"
    BY <1>1 DEF Reads
  <1>4. QED
    BY <1>2, <1>3, PushNested DEF Reads

\* The loop of v_unthrottleEvent(), from a read or from the module.
LEMMA PushLoop ==
  ASSUME NEW s, NEW c, NEW t, IsPush(t, c, s),
         WellNested(s), c.at = "v_unthrottleEvent",
         Len(s) = 0 \/ (s[1].at \in Reads /\ ~OnFastPath(s, 2))
  PROVE  WellNested(t)
  <1>1. /\ Len(t) = Len(s) + 1 /\ Len(s) \in Nat /\ t[1] = c
        /\ Len(s) > 0 => t[2] = s[1]
        /\ \A i \in 2..Len(t) : OnFastPath(t, i) <=> OnFastPath(s, i - 1)
    BY PushTop
  <1>2. Len(s) > 0 => ~OnFastPath(t, 1 + 2)
    <2>1. 3 \in 2..Len(t) => (OnFastPath(t, 3) <=> OnFastPath(s, 2))
      BY <1>1
    <2>2. 3 \notin 2..Len(t) => ~OnFastPath(t, 3)
      BY <1>1 DEF OnFastPath
    <2>3. QED
      BY <2>1, <2>2
  <1>3. CalledBy(t, 1)
    BY <1>1, <1>2 DEF CalledBy, Enqueues, Reads
  <1>4. QED
    BY <1>3, PushNested

\* A notification of the source, before the loop.
LEMMA PushNotify ==
  ASSUME NEW s, NEW c, NEW t, IsPush(t, c, s),
         WellNested(s), c.at = "unthrottleCallback_",
         Len(s) > 0, s[1].at = "v_unthrottleEvent", s[1].n = 0
  PROVE  WellNested(t)
  <1>1. /\ Len(t) = Len(s) + 1 /\ Len(s) \in Nat /\ t[1] = c
        /\ Len(s) > 0 => t[2] = s[1]
    BY PushTop
  <1>2. CalledBy(t, 1)
    BY <1>1 DEF CalledBy, Enqueues, Reads
  <1>3. QED
    BY <1>2, PushNested

-----------------------------------------------------------------------------
(***************************************************************************)
(* The steps keep the calls well nested and the state in step with them.   *)
(***************************************************************************)

Frame == [at : Ats, p : Nat, n : Nat]

\* The calls in progress.
LEMMA Calls ==
  ASSUME TypeOK
  PROVE  /\ stack \in Seq(Frame) /\ Len(stack) \in Nat
         /\ (stack = << >>) <=> (Len(stack) = 0)
         /\ \A i \in 1..Len(stack) : stack[i] \in Frame /\ stack[i].at \in Ats
         /\ stack # << >> => Head(stack) = stack[1]
  <1>1. stack \in Seq(Frame)
    BY DEF TypeOK, Frame
  <1>2. \A c \in Frame : c.at \in Ats
    BY DEF Frame
  <1>3. /\ Len(stack) \in Nat /\ (stack = << >>) <=> (Len(stack) = 0)
        /\ \A i \in 1..Len(stack) : stack[i] \in Frame
        /\ stack # << >> => Head(stack) = stack[1]
    BY <1>1
  <1>4. QED
    BY <1>1, <1>2, <1>3

\* A frame is a call, with the fields it was given.
LEMMA CallFields ==
  ASSUME NEW at \in Ats, NEW p \in Nat, NEW n \in Nat
  PROVE  /\ Call(at, p, n) \in Frame
         /\ Call(at, p, n).at = at /\ Call(at, p, n).p = p /\ Call(at, p, n).n = n
  BY DEF Call, Frame

LEMMA WriteControl ==
  ASSUME PassiveInputAssumption, ControlInv, Write
  PROVE  ControlInv'
  <1>1. /\ stack \in Seq(Frame) /\ Len(stack) \in Nat
        /\ (stack = << >>) <=> (Len(stack) = 0)
        /\ \A i \in 1..Len(stack) : stack[i] \in Frame /\ stack[i].at \in Ats
        /\ stack # << >> => Head(stack) = stack[1]
    BY Calls DEF ControlInv
  <1>2. Len(stack) = 0 \/ stack[1].at = "unthrottleCallback_"
    BY <1>1 DEF Write, InSource, In
  <1>3. fastPacket = None
    BY <1>1, <1>2 DEF ControlInv, FastAlone, OnFastPath
  <1>4. ASSUME NEW i \in 1..Len(stack)
        PROVE  /\ ~OnFastPath(stack, i)
               /\ stack[i].at = "v_unthrottleEvent" /\ stack[i].n # 0 => Nested(stack, 1)
    <2>1. Len(stack) > 0 /\ stack[1].at = "unthrottleCallback_"
      BY <1>1, <1>2
    <2>2. QED
      BY <1>1, <2>1, BelowNotification DEF ControlInv
  <1> DEFINE at == IF queue = << >> THEN "enqueue_fast" ELSE "enqueue"
             e == Call(at, written', 0)
             c == Call("callback_", None, 0)
             s == <<e>> \o stack
             t == <<c>> \o s
  <1>5. /\ written' = written + 1 /\ written \in Nat /\ written' \in Nat
        /\ UNCHANGED <<slowPacket, native, remote, routes, peer, delivered, lost, left>>
        /\ queue \in Seq(Nat)
        /\ queue' = IF queue = << >> THEN queue ELSE Append(queue, written')
        /\ fastPacket' = IF queue = << >> THEN written' ELSE None
    BY <1>3 DEF Write, ControlInv, TypeOK, throttleVars
  <1>6. /\ e \in Frame /\ e.at = at /\ e.p = written' /\ e.n = 0
        /\ c \in Frame /\ c.at = "callback_" /\ c.n = 0
    <2>1. at \in Ats /\ "callback_" \in Ats /\ None \in Nat
      BY DEF Ats, Enqueues, None
    <2> HIDE DEF at
    <2>2. QED
      BY <1>5, <2>1, CallFields
  <1>7. s \in Seq(Frame) /\ IsPush(s, e, stack)
    BY <1>1, <1>6, Push
  <1> HIDE DEF e, s
  <1>8. t \in Seq(Frame) /\ IsPush(t, c, s)
    BY <1>6, <1>7, Push
  <1>9. stack' = IF throttled THEN s ELSE t
    BY DEF Write, Emit, s, e
  <1> HIDE DEF c, t
  <1>10. throttled' = throttled
    BY <1>5 DEF throttled
  <1>11. at \in Enqueues /\ (at = "enqueue_fast" <=> queue = << >>)
    BY DEF Enqueues
  <1> HIDE DEF at
  <1>12. /\ Len(s) = Len(stack) + 1 /\ s[1] = e
         /\ \A i \in 2..Len(s) : s[i] = stack[i - 1]
         /\ ~OnFastPath(s, 1)
         /\ \A i \in 2..Len(s) : OnFastPath(s, i) <=> OnFastPath(stack, i - 1)
         /\ Nested(s, 1) <=> Nested(stack, 1)
         /\ Len(stack) > 0 => s[Len(s)] = stack[Len(stack)]
    <2>1. Len(stack) > 0 => stack[1].at \notin Reads
      BY <1>2 DEF Reads
    <2>2. e.at # "callback_"
      BY <1>6, <1>11 DEF Enqueues
    <2>3. Nested(stack, 1) => Len(stack) > 0
      BY <1>1 DEF Nested
    <2>4. QED
      BY <1>7, <2>1, <2>2, <2>3, PushTop
  <1>13. /\ Len(t) = Len(s) + 1 /\ t[1] = c /\ t[2] = e
         /\ \A i \in 2..Len(t) : t[i] = s[i - 1]
         /\ OnFastPath(t, 1) <=> queue = << >>
         /\ \A i \in 2..Len(t) : OnFastPath(t, i) <=> OnFastPath(s, i - 1)
         /\ Nested(t, 1) <=> Nested(s, 1)
         /\ Len(s) > 0 => t[Len(t)] = s[Len(s)]
    <2>1. e.at \notin Reads
      BY <1>6, <1>11 DEF Enqueues, Reads
    <2>2. Len(s) > 0
      BY <1>1, <1>12
    <2>3. QED
      BY <1>6, <1>8, <1>11, <1>12, <2>1, <2>2, PushTop
  <1>14. \A i \in 1..Len(s) : ~OnFastPath(s, i)
    BY <1>1, <1>4, <1>12
  <1>15. \A i \in 2..Len(t) : ~OnFastPath(t, i)
    BY <1>1, <1>12, <1>13, <1>14
  <1>16. TypeOK'
    BY <1>5, <1>7, <1>8, <1>9 DEF ControlInv, TypeOK, Frame, None
  <1>17. WellNested(stack)'
    <2>1. WellNested(s)
      BY <1>2, <1>6, <1>7, <1>11, PushEnqueue DEF ControlInv
    <2>2. ~throttled => WellNested(t)
      <3>1. ~throttled /\ Nested(s, 1) => queue = << >>
        BY <1>12 DEF ControlInv, NestedThrottled
      <3>2. Len(s) > 0 /\ c.n \in {0, 1}
        BY <1>1, <1>6, <1>12
      <3>3. QED
        BY <1>6, <1>8, <1>11, <1>12, <2>1, <3>1, <3>2, PushCallback
    <2>3. QED
      BY <1>9, <2>1, <2>2
  <1>18. FastAlone'
    BY <1>1, <1>5, <1>6, <1>9, <1>10, <1>11, <1>12, <1>13, <1>7, <1>8 DEF FastAlone, None
  <1>19. FastCallback'
    BY <1>1, <1>5, <1>6, <1>9, <1>12, <1>13, <1>14, <1>15 DEF FastCallback, None
  <1>20. NestedThrottled'
    BY <1>5, <1>9, <1>10, <1>12, <1>13 DEF ControlInv, NestedThrottled
  <1>21. LoopProgress'
    <2>1. SUFFICES ASSUME NEW i \in 1..Len(stack'), stack'[i].at = "v_unthrottleEvent",
                          stack'[i].n # 0
                   PROVE  throttled' \/ queue' = << >>
      BY DEF LoopProgress
    <2>2. Nested(stack, 1)
      <3>1. e.at # "v_unthrottleEvent" /\ c.at # "v_unthrottleEvent"
        BY <1>6, <1>11 DEF Enqueues
      <3>2. ASSUME NEW k \in 1..Len(s), s[k].at = "v_unthrottleEvent", s[k].n # 0
            PROVE  Nested(stack, 1)
        <4>1. k # 1
          BY <1>12, <3>1, <3>2
        <4>2. k - 1 \in 1..Len(stack) /\ s[k] = stack[k - 1]
          BY <1>1, <1>12, <4>1
        <4>3. QED
          BY <1>4, <3>2, <4>2
      <3>3. CASE throttled
        BY <1>9, <2>1, <3>2, <3>3
      <3>4. CASE ~throttled
        <4>1. i \in 1..Len(t) /\ t[i].at = "v_unthrottleEvent" /\ t[i].n # 0
          BY <1>9, <2>1, <3>4
        <4>2. i # 1
          BY <1>13, <3>1, <4>1
        <4>3. i - 1 \in 1..Len(s) /\ t[i] = s[i - 1]
          BY <1>1, <1>12, <1>13, <4>1, <4>2
        <4>4. QED
          BY <3>2, <4>1, <4>3
      <3>5. QED
        BY <3>3, <3>4
    <2>3. QED
      BY <1>5, <1>10, <2>2 DEF ControlInv, NestedThrottled
  <1>22. Draining'
    BY <1>1, <1>5, <1>7, <1>8, <1>9, <1>10, <1>12, <1>13 DEF ControlInv, Draining
  <1>23. QED
    BY <1>5, <1>10, <1>16, <1>17, <1>18, <1>19, <1>20, <1>21, <1>22
    DEF ControlInv, PeerAgrees

\* A call that is neither the handler nor a read is not made on the fast path.
LEMMA OffFastPath ==
  ASSUME TypeOK, WellNested(stack), Len(stack) > 0,
         stack[1].at # "callback_", stack[1].at \notin Reads,
         NEW i \in 1..Len(stack)
  PROVE  ~OnFastPath(stack, i)
  <1>1. Len(stack) \in Nat /\ \A k \in 1..Len(stack) : stack[k].at \in Ats
    BY Calls
  <1>2. ~OnFastPath(stack, 1)
    BY DEF OnFastPath
  <1>3. QED
    BY <1>1, <1>2, FastOnTop

\* What the return of the innermost call leaves.
Returns ==
  /\ stack' \in Seq(Frame) /\ Len(stack') \in Nat /\ Len(stack) = Len(stack') + 1
  /\ stack[1] \in Frame /\ Head(stack) = stack[1] /\ CalledBy(stack, 1)
  /\ (stack' = << >>) <=> (Len(stack') = 0)
  /\ \A i \in 1..Len(stack') : /\ i + 1 \in 1..Len(stack) /\ stack'[i] = stack[i + 1]
                               /\ OnFastPath(stack', i) <=> OnFastPath(stack, i + 1)
  /\ WellNested(stack')
  /\ Nested(stack', 1) => Nested(stack, 1)
  /\ Len(stack') > 0 => /\ stack'[1] = stack[2]
                        /\ stack'[Len(stack')] = stack[Len(stack)]

\* The return of the innermost call.
LEMMA Return ==
  ASSUME TypeOK, WellNested(stack), stack # << >>, stack' = Tail(stack)
  PROVE  Returns
  <1>1. stack \in Seq(Frame)
    BY Calls
  <1> DEFINE r == Tail(stack)
  <1>2. /\ r \in Seq(Frame) /\ IsPush(stack, stack[1], r)
        /\ stack[1] \in Frame /\ Head(stack) = stack[1]
    BY <1>1, Pop
  <1>3. r = stack'
    OBVIOUS
  <1> HIDE DEF r
  <1>4. \A s \in Seq(Frame) : (s = << >>) <=> (Len(s) = 0)
    OBVIOUS
  <1>5. /\ Len(stack) = Len(r) + 1 /\ Len(r) \in Nat
        /\ Len(r) > 0 => stack[2] = r[1] /\ stack[Len(stack)] = r[Len(r)]
        /\ Nested(stack, 1) <=> Len(r) > 0 /\ (r[1].at \in Reads \/ Nested(r, 1))
    BY <1>2, PushTop
  <1>6. \A i \in 1..Len(r) : i + 1 \in 1..Len(stack) /\ r[i] = stack[i + 1]
    BY <1>2, <1>5 DEF IsPush
  <1>7. \A i \in 1..Len(r) : OnFastPath(r, i) <=> OnFastPath(stack, i + 1)
    BY <1>2, Shift
  <1>8. WellNested(r)
    BY <1>2, PopNested
  <1>9. Nested(r, 1) => Len(r) > 0
    BY <1>5 DEF Nested
  <1>10. CalledBy(stack, 1)
    <2>1. 1 \in 1..Len(stack)
      BY <1>5
    <2>2. QED
      BY <2>1 DEF WellNested
  <1>11. QED
    BY <1>2, <1>3, <1>4, <1>5, <1>6, <1>7, <1>8, <1>9, <1>10 DEF Returns

LEMMA EnqueuedControl ==
  ASSUME PassiveInputAssumption, ControlInv, Enqueued
  PROVE  ControlInv'
  <1>1. stack # << >> /\ stack' = Tail(stack)
    BY DEF Enqueued, In
  <1>2. TypeOK /\ WellNested(stack)
    BY DEF ControlInv
  <1>3. Returns
    BY <1>1, <1>2, Return
  <1>4. stack[1].at \in Enqueues
    BY <1>3 DEF Enqueued, In, Enqueues, Returns
  <1>5. Len(stack') > 0 => stack[2].at = "unthrottleCallback_"
    <2>1. 1 + 1 = 2
      OBVIOUS
    <2>2. QED
      BY <1>3, <1>4, <2>1 DEF CalledBy, Returns
  <1>6. \A i \in 1..Len(stack) : ~OnFastPath(stack, i)
    <2>1. stack[1].at # "callback_" /\ stack[1].at \notin Reads /\ Len(stack) > 0
      BY <1>3, <1>4 DEF Enqueues, Reads, Returns
    <2>2. QED
      BY <1>2, <2>1, OffFastPath
  <1>7. fastPacket # None =>
          /\ queue = << >> /\ (throttled \/ High <= 1)
          /\ stack[1].at = "enqueue_fast" /\ stack[1].p = fastPacket
    BY <1>3, <1>6 DEF ControlInv, FastAlone, Returns
  <1>8. /\ native' \in BOOLEAN /\ peer' \in BOOLEAN /\ peer' = throttled'
        /\ throttled => throttled'
        /\ UNCHANGED <<remote, routes, slowPacket, written, delivered, lost, left>>
    BY DEF Enqueued, SetThrottle, ControlInv, TypeOK, PeerAgrees, throttled, history
  <1>17. fastPacket # None => throttled'
    <2>1. CASE throttled
      BY <1>8, <2>1
    <2>2. ASSUME fastPacket # None, ~throttled
          PROVE  throttled'
      <3>1. queue = << >> /\ High <= 1
        BY <1>7, <2>2
      <3>2. QueueSize(queue, fastPacket) = 1
        <4>1. Len(queue) = 0
          BY <3>1
        <4>2. QED
          BY <2>2, <4>1 DEF QueueSize
      <3>3. QueueSize(queue, fastPacket) >= High
        BY <3>1, <3>2 DEF PassiveInputAssumption
      <3>4. native' = TRUE
        BY <3>3 DEF Enqueued, SetThrottle
      <3>5. QED
        BY <3>4 DEF throttled
    <2>3. QED
      BY <2>1, <2>2
  <1>9. /\ fastPacket' = None
        /\ fastPacket = None => queue' = queue
        /\ fastPacket # None => queue' = Append(queue, stack[1].p)
    BY <1>3, <1>7 DEF Enqueued, In, Returns
  <1>10. queue \in Seq(Nat) /\ queue' \in Seq(Nat)
    <2>1. stack[1].p \in Nat
      BY <1>3 DEF Frame, Returns
    <2>2. queue \in Seq(Nat)
      BY <1>2 DEF TypeOK
    <2>3. Append(queue, stack[1].p) \in Seq(Nat)
      BY <2>1, <2>2
    <2>4. QED
      BY <1>9, <2>2, <2>3
  <1>11. TypeOK'
    BY <1>2, <1>3, <1>8, <1>9, <1>10 DEF TypeOK, Frame, None, Returns
  <1>12. FastAlone' /\ FastCallback'
    BY <1>3, <1>6, <1>9 DEF FastAlone, FastCallback, Returns
  <1>13. NestedThrottled'
    BY <1>3, <1>8, <1>9, <1>17 DEF ControlInv, NestedThrottled, Returns
  <1>14. LoopProgress'
    <2>1. SUFFICES ASSUME NEW i \in 1..Len(stack'), stack'[i].at = "v_unthrottleEvent",
                          stack'[i].n # 0, ~throttled', ~left'
                   PROVE  queue' = << >> \/ QueueSize(queue', fastPacket') < stack'[i].n
      BY DEF LoopProgress
    <2>2. ~throttled /\ ~left /\ queue' = queue /\ fastPacket' = fastPacket
      BY <1>8, <1>9, <1>17, <2>1
    <2>3. i + 1 # 2
      BY <1>3, <1>5, <2>1 DEF Returns
    <2>4. queue = << >> \/ QueueSize(queue, fastPacket) < stack[i + 1].n
      BY <1>3, <2>1, <2>2, <2>3 DEF ControlInv, LoopProgress, Returns
    <2>5. QED
      BY <1>3, <2>1, <2>2, <2>4 DEF Returns
  <1>15. Draining'
    <2>1. Len(stack') = 0 => stack[Len(stack)].at # "v_unthrottleEvent"
      BY <1>3, <1>4 DEF Enqueues, Returns
    <2>2. QED
      BY <1>3, <1>8, <1>9, <1>17, <2>1 DEF ControlInv, Draining, Returns
  <1>16. QED
    BY <1>3, <1>8, <1>11, <1>12, <1>13, <1>14, <1>15 DEF ControlInv, PeerAgrees, Returns

LEMMA ReadReturnControl ==
  ASSUME PassiveInputAssumption, ControlInv, ReadReturn
  PROVE  ControlInv'
  <1>1. stack # << >> /\ stack' = Tail(stack)
    BY DEF ReadReturn, In
  <1>2. TypeOK /\ WellNested(stack)
    BY DEF ControlInv
  <1>3. Returns
    BY <1>1, <1>2, Return
  <1>4. stack[1].at \in Reads
    BY <1>3 DEF ReadReturn, In, Reads, Returns
  <1>5. Len(stack') > 0 => stack[2].at = "callback_"
    <2>1. 1 + 1 = 2
      OBVIOUS
    <2>2. QED
      BY <1>3, <1>4, <2>1 DEF CalledBy, Returns
  <1>6. fastPacket = None
    BY <1>3, <1>4 DEF ControlInv, FastAlone, OnFastPath, Reads, Returns
  <1>7. /\ UNCHANGED <<queue, fastPacket, slowPacket, native, remote, routes, peer, written>>
        /\ left' = (left /\ ~empty) /\ throttled' = throttled
    BY DEF ReadReturn, packetVars, throttleVars, throttled
  <1>8. delivered' \in Seq(Nat)
    <2>1. stack[1].p \in Nat /\ slowPacket \in Nat /\ delivered \in Seq(Nat)
      BY <1>2, <1>3 DEF Frame, TypeOK, Returns
    <2>2. QED
      BY <1>3, <2>1 DEF ReadReturn, Returned, Returns
  <1>9. TypeOK'
    BY <1>2, <1>3, <1>7, <1>8 DEF TypeOK, Frame, Returns
  <1>10. FastAlone' /\ FastCallback'
    BY <1>3, <1>6, <1>7 DEF ControlInv, FastAlone, FastCallback, Returns
  <1>11. NestedThrottled'
    BY <1>3, <1>7 DEF ControlInv, NestedThrottled, Returns
  <1>12. LoopProgress'
    <2>1. SUFFICES ASSUME NEW i \in 1..Len(stack'), stack'[i].at = "v_unthrottleEvent",
                          stack'[i].n # 0
                   PROVE  \/ throttled' \/ queue' = << >> \/ left'
                          \/ QueueSize(queue', fastPacket') < stack'[i].n
      BY DEF LoopProgress
    <2>2. i + 1 # 2
      BY <1>3, <1>5, <2>1 DEF Returns
    <2>3. throttled \/ queue = << >> \/ left \/ QueueSize(queue, fastPacket) < stack[i + 1].n
      BY <1>3, <2>1, <2>2 DEF ControlInv, LoopProgress, Returns
    <2>4. QED
      BY <1>3, <1>7, <2>1, <2>3 DEF Returns, empty
  <1>13. Draining'
    <2>1. Len(stack') = 0 => stack[Len(stack)].at # "v_unthrottleEvent"
      BY <1>3, <1>4 DEF Reads, Returns
    <2>2. left /\ ~left' => queue = << >>
      BY <1>7 DEF empty
    <2>3. QED
      BY <1>3, <1>7, <2>1, <2>2 DEF ControlInv, Draining, Returns
  <1>14. QED
    BY <1>3, <1>7, <1>9, <1>10, <1>11, <1>12, <1>13 DEF ControlInv, PeerAgrees, Returns

LEMMA CallbackReturnControl ==
  ASSUME PassiveInputAssumption, High <= 1 \/ HandlersTake, ControlInv, CallbackReturn
  PROVE  ControlInv'
  <1>1. stack # << >> /\ stack' = Tail(stack)
    BY DEF CallbackReturn, In
  <1>2. TypeOK /\ WellNested(stack)
    BY DEF ControlInv
  <1>3. Returns
    BY <1>1, <1>2, Return
  <1>4. /\ stack[1].at = "callback_" /\ (HandlersTake => ~TookNone)
        /\ left' = (left \/ TookNone) /\ stack[1].n \in {0, 1}
    BY <1>3 DEF CallbackReturn, In, Returns, CalledBy
  <1>14. ~TookNone /\ stack[1].n = 0 => empty \/ throttled
    BY <1>3 DEF TookNone, Returns
  <1>5. ASSUME fastPacket # None
        PROVE  /\ queue = << >> /\ High <= 1 /\ Len(stack') > 0
               /\ stack'[1].at = "enqueue_fast" /\ stack'[1].p = fastPacket
    <2>1. 1 + 1 = 2
      OBVIOUS
    <2>2. /\ OnFastPath(stack, 1) /\ stack[1].n = 0 /\ stack[2].p = fastPacket
          /\ queue = << >> /\ ~throttled
      BY <1>4, <1>5 DEF ControlInv, FastAlone
    <2>3. Len(stack') > 0 /\ stack[2].at = "enqueue_fast" /\ stack'[1] = stack[2]
      BY <1>3, <2>1, <2>2 DEF OnFastPath, Returns
    <2>4. TookNone
      BY <1>3, <1>5, <2>2 DEF TookNone, empty, Returns
    <2>5. QED
      BY <1>4, <2>2, <2>3, <2>4
  <1>6. \A i \in 2..Len(stack) : ~OnFastPath(stack, i)
    <2>1. Len(stack) \in Nat /\ \A k \in 1..Len(stack) : stack[k].at \in Ats
      BY <1>2, Calls
    <2>2. stack[1].at \notin Reads
      BY <1>4 DEF Reads
    <2>3. \A i \in 2..Len(stack) : i \in 1..Len(stack) /\ i # 1
      BY <2>1
    <2>4. QED
      BY <1>2, <2>1, <2>2, <2>3, FastOnTop
  <1>7. /\ UNCHANGED <<queue, fastPacket, slowPacket, native, remote, routes, peer>>
        /\ UNCHANGED <<written, delivered, lost>> /\ throttled' = throttled
    BY DEF CallbackReturn, packetVars, throttleVars, throttled
  <1>8. TypeOK'
    <2>1. left' \in BOOLEAN
      BY <1>2, <1>4 DEF TypeOK
    <2>2. QED
      BY <1>2, <1>3, <1>7, <2>1 DEF TypeOK, Frame, Returns
  <1>9. FastAlone' /\ FastCallback'
    <2>1. \A i \in 1..Len(stack') : i + 1 \in 2..Len(stack)
      BY <1>3 DEF Returns
    <2>2. FastCallback'
      BY <1>3, <1>6, <1>7, <2>1 DEF FastCallback, Returns
    <2>3. QED
      BY <1>3, <1>5, <1>7, <2>2 DEF FastAlone, Returns
  <1>10. NestedThrottled'
    BY <1>3, <1>7 DEF ControlInv, NestedThrottled, Returns
  <1>11. LoopProgress'
    <2>1. SUFFICES ASSUME NEW i \in 1..Len(stack'), stack'[i].at = "v_unthrottleEvent",
                          stack'[i].n # 0
                   PROVE  \/ throttled' \/ queue' = << >> \/ left'
                          \/ QueueSize(queue', fastPacket') < stack'[i].n
      BY DEF LoopProgress
    <2>2. stack[1].n = 0 => queue = << >> \/ throttled \/ left'
      BY <1>4, <1>14 DEF empty
    <2>3. throttled \/ queue = << >> \/ left' \/ QueueSize(queue, fastPacket) < stack[i + 1].n
      BY <1>3, <1>4, <2>1, <2>2 DEF ControlInv, LoopProgress, Returns
    <2>4. QED
      BY <1>3, <1>7, <2>1, <2>3 DEF Returns
  <1>12. Draining'
    <2>1. Len(stack') = 0 => stack[Len(stack)].at # "v_unthrottleEvent"
      BY <1>3, <1>4 DEF Returns
    <2>2. QED
      <3>1. ~left' => ~left
        BY <1>4
      <3>2. QED
        BY <1>3, <1>7, <2>1, <3>1 DEF ControlInv, Draining, Returns
  <1>13. QED
    BY <1>3, <1>7, <1>8, <1>9, <1>10, <1>11, <1>12 DEF ControlInv, PeerAgrees, Returns

LEMMA UnthrottleCallbackReturnControl ==
  ASSUME PassiveInputAssumption, ControlInv, UnthrottleCallbackReturn
  PROVE  ControlInv'
  <1>1. stack # << >> /\ stack' = Tail(stack)
    BY DEF UnthrottleCallbackReturn, In
  <1>2. TypeOK /\ WellNested(stack)
    BY DEF ControlInv
  <1>3. Returns
    BY <1>1, <1>2, Return
  <1>4. stack[1].at = "unthrottleCallback_"
    BY <1>3 DEF UnthrottleCallbackReturn, In, Returns
  <1>5. Len(stack') > 0 /\ stack[2].at = "v_unthrottleEvent" /\ stack[2].n = 0
    <2>1. 1 + 1 = 2
      OBVIOUS
    <2>2. QED
      BY <1>3, <1>4, <2>1 DEF CalledBy, Returns
  <1>6. fastPacket = None
    BY <1>3, <1>4 DEF ControlInv, FastAlone, OnFastPath, Returns
  <1>7. \A i \in 1..Len(stack) : ~OnFastPath(stack, i)
    <2>1. Len(stack) > 0 /\ stack[1].at # "callback_" /\ stack[1].at \notin Reads
      BY <1>3, <1>4 DEF Reads, Returns
    <2>2. QED
      BY <1>2, <2>1, OffFastPath
  <1>8. /\ UNCHANGED <<queue, fastPacket, slowPacket, native, remote, routes, peer>>
        /\ UNCHANGED <<written, delivered, lost, left>> /\ throttled' = throttled
    BY DEF UnthrottleCallbackReturn, packetVars, throttleVars, throttled, history
  <1>9. TypeOK'
    BY <1>2, <1>3, <1>8 DEF TypeOK, Frame, Returns
  <1>10. FastAlone' /\ FastCallback' /\ NestedThrottled'
    BY <1>3, <1>6, <1>7, <1>8
    DEF ControlInv, FastAlone, FastCallback, NestedThrottled, Returns
  <1>11. LoopProgress'
    <2>1. SUFFICES ASSUME NEW i \in 1..Len(stack'), stack'[i].at = "v_unthrottleEvent",
                          stack'[i].n # 0
                   PROVE  \/ throttled' \/ queue' = << >> \/ left'
                          \/ QueueSize(queue', fastPacket') < stack'[i].n
      BY DEF LoopProgress
    <2>2. i + 1 # 2
      BY <1>3, <1>5, <2>1 DEF Returns
    <2>3. throttled \/ queue = << >> \/ left \/ QueueSize(queue, fastPacket) < stack[i + 1].n
      BY <1>3, <2>1, <2>2 DEF ControlInv, LoopProgress, Returns
    <2>4. QED
      BY <1>3, <1>8, <2>1, <2>3 DEF Returns
  <1>12. Draining'
    BY <1>3, <1>5, <1>8 DEF ControlInv, Draining, Returns
  <1>13. QED
    BY <1>3, <1>8, <1>9, <1>10, <1>11, <1>12 DEF ControlInv, PeerAgrees, Returns

\* The input becomes throttled, or stays so.
LEMMA ThrottleControl ==
  ASSUME PassiveInputAssumption, ReadsFirst, ControlInv,
         Throttle \/ \E r \in Route : NotifyThrottle(r)
  PROVE  ControlInv'
  <1>1. /\ UNCHANGED <<queue, fastPacket, slowPacket, stack, written, delivered, lost, left>>
        /\ MayThrottle
    BY DEF Throttle, NotifyThrottle, packetVars, history
  <1>2. /\ native' \in BOOLEAN /\ remote' \in BOOLEAN /\ peer' \in BOOLEAN
        /\ routes' \subseteq Route /\ remote' = (routes' # {})
    BY DEF Throttle, NotifyThrottle, SetThrottle, ControlInv, TypeOK, throttled
  <1>3. throttled' = TRUE /\ peer' = TRUE
    BY DEF Throttle, NotifyThrottle, SetThrottle, ControlInv, PeerAgrees, TypeOK, throttled
  <1>4. /\ Len(stack) \in Nat /\ (stack = << >>) <=> (Len(stack) = 0)
        /\ stack # << >> => Head(stack) = stack[1]
    BY Calls DEF ControlInv
  <1>5. fastPacket = None \/ (stack[1].at = "enqueue_fast" /\ stack # << >>)
    BY <1>1, <1>4 DEF ControlInv, FastAlone, MayThrottle, In
  <1>6. fastPacket = None
    BY <1>1, <1>4, <1>5 DEF MayThrottle, In
  <1>7. TypeOK'
    BY <1>1, <1>2 DEF ControlInv, TypeOK
  <1>8. FastAlone' /\ FastCallback' /\ NestedThrottled' /\ LoopProgress' /\ Draining'
    BY <1>1, <1>3, <1>6
    DEF ControlInv, FastAlone, FastCallback, NestedThrottled, LoopProgress, Draining
  <1>9. QED
    BY <1>1, <1>2, <1>3, <1>7, <1>8 DEF ControlInv, PeerAgrees

\* An exception ends all calls: a packet on the fast path is the one of the innermost
\* enqueue(), which queues it.
LEMMA ThrowFacts ==
  ASSUME PassiveInputAssumption, ~OtherExceptions, ControlInv, Throw
  PROVE  /\ stack' = << >> /\ fastPacket' = None /\ left' = (queue' # << >>)
         /\ queue' = IF fastPacket = None THEN queue ELSE Append(queue, fastPacket)
         /\ fastPacket # None => queue = << >>
         /\ UNCHANGED <<slowPacket, native, remote, routes, peer, written, delivered>>
  <1>1. /\ Len(stack) \in Nat /\ (stack = << >>) <=> (Len(stack) = 0)
        /\ \A i \in 1..Len(stack) : stack[i] \in Frame
        /\ stack # << >> => Head(stack) = stack[1]
    BY Calls DEF ControlInv
  <1>2. fastPacket # None =>
          /\ Len(stack) > 1 /\ stack[1].at = "callback_" /\ stack[2].at = "enqueue_fast"
          /\ stack[2].p = fastPacket /\ queue = << >>
    <2>1. 1 + 1 = 2
      OBVIOUS
    <2>2. QED
      BY <1>1, <2>1 DEF ControlInv, FastAlone, OnFastPath, Throw, In
  <1>3. fastPacket # None => Innermost("enqueue_fast") = 2
    <2>1. ASSUME fastPacket # None
          PROVE  Innermost("enqueue_fast") = 2
      <3> DEFINE I == {i \in 1..Len(stack) : stack[i].at = "enqueue_fast"}
      <3>1. 2 \in I /\ \A i \in I : 2 <= i
        BY <1>1, <1>2, <2>1
      <3>2. I # {} /\ I \subseteq Nat
        BY <1>1, <3>1
      <3>3. Min(I) = 2
        <4> HIDE DEF I
        <4>1. \A x \in I : (\A y \in I : x <= y) => x = 2
          BY <3>1, <3>2
        <4>2. QED
          BY <3>1, <4>1 DEF Min
      <3>4. QED
        BY <3>2, <3>3 DEF Innermost, SelectInSeq
    <2>2. QED
      BY <2>1
  <1>4. /\ stack' = << >> /\ fastPacket' = None /\ left' = (queue' # << >>)
        /\ queue' = IF fastPacket = None THEN queue ELSE Append(queue, fastPacket)
        /\ UNCHANGED <<slowPacket, native, remote, routes, peer, written, delivered>>
    <2>1. \A caught \in {TRUE, ~OtherExceptions} : caught = TRUE
      <3>1. (~OtherExceptions) = TRUE
        OBVIOUS
      <3>2. QED
        BY <3>1
    <2>2. CASE fastPacket = None
      BY <2>2 DEF Throw, throttleVars
    <2>3. CASE fastPacket # None
      <3>1. PICK caught \in {TRUE, ~OtherExceptions} :
              IF caught /\ fastPacket # None /\ Innermost("enqueue_fast") # 0
              THEN /\ queue' = Append(queue, stack[Innermost("enqueue_fast")].p)
                   /\ fastPacket' = None
              ELSE UNCHANGED <<queue, fastPacket>>
        BY DEF Throw
      <3>2. caught = TRUE
        BY <2>1
      <3>3. queue' = Append(queue, fastPacket) /\ fastPacket' = None
        BY <1>2, <1>3, <2>3, <3>1, <3>2
      <3>4. QED
        BY <2>3, <3>3 DEF Throw, throttleVars
    <2>4. QED
      BY <2>2, <2>3
  <1>5. QED
    BY <1>2, <1>4

LEMMA ThrowControl ==
  ASSUME PassiveInputAssumption, ~OtherExceptions, ControlInv, Throw
  PROVE  ControlInv'
  <1>1. /\ stack' = << >> /\ fastPacket' = None /\ left' = (queue' # << >>)
        /\ queue' = IF fastPacket = None THEN queue ELSE Append(queue, fastPacket)
        /\ UNCHANGED <<slowPacket, native, remote, routes, peer, written, delivered>>
    BY ThrowFacts
  <1>2. TypeOK'
    <2>1. queue \in Seq(Nat) /\ fastPacket \in Nat
      BY DEF ControlInv, TypeOK
    <2>2. Append(queue, fastPacket) \in Seq(Nat) /\ stack' \in Seq(Frame)
      BY <1>1, <2>1
    <2>3. queue' \in Seq(Nat) /\ left' \in BOOLEAN
      BY <1>1, <2>1, <2>2
    <2>4. QED
      BY <1>1, <2>2, <2>3 DEF ControlInv, TypeOK, None, Frame
  <1>3. Len(stack') = 0
    BY <1>1
  <1>4. WellNested(stack)' /\ FastCallback' /\ LoopProgress'
    BY <1>3 DEF WellNested, FastCallback, LoopProgress
  <1>5. NestedThrottled'
    <2>1. ~Nested(stack', 1)
      BY <1>3 DEF Nested
    <2>2. QED
      BY <2>1 DEF NestedThrottled
  <1>6. FastAlone' /\ Draining'
    BY <1>1 DEF FastAlone, Draining
  <1>7. QED
    BY <1>1, <1>2, <1>4, <1>5, <1>6 DEF ControlInv, PeerAgrees, throttled

LEMMA Counts == \A k \in Nat : k = 0 \/ (k > 0 /\ (k = 1 \/ k > 1))
  OBVIOUS

\* One turn of the loop of v_unthrottleEvent().
LEMMA UnthrottleEventControl ==
  ASSUME PassiveInputAssumption, ControlInv, UnthrottleEvent
  PROVE  ControlInv'
  <1> DEFINE n == QueueSize(queue, fastPacket)
             r == Tail(stack)
             v == Call("v_unthrottleEvent", None, n)
             c == Call("callback_", None, 0)
             s == <<v>> \o r
             t == <<c>> \o s
  <1>1. TypeOK /\ WellNested(stack)
    BY DEF ControlInv
  <1>2. /\ stack \in Seq(Frame) /\ Len(stack) \in Nat /\ stack # << >>
        /\ (stack = << >>) <=> (Len(stack) = 0)
        /\ Head(stack) = stack[1] /\ stack[1].at = "v_unthrottleEvent"
    BY <1>1, Calls DEF UnthrottleEvent, In
  <1>3. fastPacket = None
    BY <1>2 DEF ControlInv, FastAlone, OnFastPath
  <1>4. n = Len(queue) /\ n \in Nat /\ (n = 0 <=> queue = << >>)
    <2>1. queue \in Seq(Nat)
      BY <1>1 DEF TypeOK
    <2>2. QED
      BY <1>3, <2>1 DEF QueueSize
  <1>5. \A i \in 1..Len(stack) : ~OnFastPath(stack, i)
    <2>1. Len(stack) > 0 /\ stack[1].at # "callback_" /\ stack[1].at \notin Reads
      BY <1>2 DEF Reads
    <2>2. QED
      BY <1>1, <2>1, OffFastPath
  <1>6. /\ UNCHANGED <<queue, fastPacket, slowPacket, native, remote, routes, peer>>
        /\ UNCHANGED <<written, delivered, lost, left>> /\ throttled' = throttled
    BY DEF UnthrottleEvent, packetVars, throttleVars, throttled, history
  <1>7. CalledBy(stack, 1)
    <2>1. 1 \in 1..Len(stack)
      BY <1>2
    <2>2. QED
      BY <1>1, <2>1 DEF WellNested
  <1>8. Len(stack) > 1 => stack[2].at \in Reads
    <2>1. 1 + 1 = 2
      OBVIOUS
    <2>2. QED
      BY <1>2, <1>7, <2>1 DEF CalledBy
  <1>9. \A i \in 2..Len(stack) : stack[i].at = "v_unthrottleEvent" /\ stack[i].n # 0 =>
          throttled \/ queue = << >> \/ left \/ n < stack[i].n
    <2>1. Len(stack) > 1 => stack[2].at # "v_unthrottleEvent"
      BY <1>8 DEF Reads
    <2>2. \A i \in 2..Len(stack) : i \in 1..Len(stack) /\ Len(stack) > 1
      BY <1>2
    <2>3. QED
      BY <2>1, <2>2 DEF ControlInv, LoopProgress
  <1>10. CASE n = 0 \/ n = Head(stack).n
    <2>1. stack' = Tail(stack)
      BY <1>10 DEF UnthrottleEvent
    <2>2. Returns
      BY <1>1, <1>2, <2>1, Return
    <2>3. TypeOK'
      BY <1>1, <1>6, <2>2 DEF TypeOK, Frame, Returns
    <2>4. FastAlone' /\ FastCallback' /\ NestedThrottled'
      BY <1>3, <1>5, <1>6, <2>2
      DEF ControlInv, FastAlone, FastCallback, NestedThrottled, Returns
    <2>5. LoopProgress'
      <3>1. \A i \in 1..Len(stack') : i + 1 \in 2..Len(stack) /\ stack'[i] = stack[i + 1]
        BY <2>2 DEF Returns
      <3>2. QED
        BY <1>6, <1>9, <3>1 DEF LoopProgress
    <2>6. Draining'
      <3>1. Len(stack) = 1 => queue = << >> \/ throttled \/ left
        <4>1. n # 0 /\ Len(stack) = 1 => stack[1].n = n /\ 1 \in 1..Len(stack)
          BY <1>2, <1>10
        <4>2. QED
          BY <1>2, <1>4, <4>1 DEF ControlInv, LoopProgress
      <3>2. QED
        BY <1>6, <2>2, <3>1 DEF ControlInv, Draining, Returns
    <2>7. QED
      BY <1>6, <2>2, <2>3, <2>4, <2>5, <2>6 DEF ControlInv, PeerAgrees, Returns
  <1>11. CASE ~(n = 0 \/ n = Head(stack).n)
    <2>1. /\ v \in Frame /\ v.at = "v_unthrottleEvent" /\ v.n = n
          /\ c \in Frame /\ c.at = "callback_" /\ c.n = 0
      <3>1. "v_unthrottleEvent" \in Ats /\ "callback_" \in Ats /\ None \in Nat /\ 0 \in Nat
        BY DEF Ats, None
      <3> HIDE DEF n
      <3>2. QED
        BY <1>4, <3>1, CallFields
    <2>2. r \in Seq(Frame) /\ IsPush(stack, stack[1], r)
      BY <1>2, Pop
    <2>3. stack' = IF throttled THEN s ELSE t
      BY <1>11 DEF UnthrottleEvent, Emit
    <2> HIDE DEF v, c, r, n
    <2>4. s \in Seq(Frame) /\ IsPush(s, v, r)
      BY <2>1, <2>2, Push
    <2> HIDE DEF s
    <2>5. t \in Seq(Frame) /\ IsPush(t, c, s)
      BY <2>1, <2>4, Push
    <2> HIDE DEF t
    <2>6. /\ Len(stack) = Len(r) + 1 /\ Len(r) \in Nat
          /\ Len(r) > 0 => stack[2] = r[1] /\ stack[Len(stack)] = r[Len(r)]
          /\ \A i \in 2..Len(stack) : stack[i] = r[i - 1]
          /\ \A i \in 2..Len(stack) : OnFastPath(stack, i) <=> OnFastPath(r, i - 1)
          /\ Nested(stack, 1) <=> Len(r) > 0 /\ (r[1].at \in Reads \/ Nested(r, 1))
      BY <2>2, PushTop
    <2>7. /\ Len(s) = Len(r) + 1 /\ s[1] = v
          /\ Len(r) > 0 => s[2] = r[1] /\ s[Len(s)] = r[Len(r)]
          /\ \A i \in 2..Len(s) : s[i] = r[i - 1]
          /\ \A i \in 2..Len(s) : OnFastPath(s, i) <=> OnFastPath(r, i - 1)
          /\ OnFastPath(s, 1) <=> Len(r) > 0 /\ v.at = "callback_" /\ r[1].at = "enqueue_fast"
          /\ Nested(s, 1) <=> Len(r) > 0 /\ (r[1].at \in Reads \/ Nested(r, 1))
      BY <2>4, PushTop
    <2>8. /\ Len(t) = Len(s) + 1 /\ t[1] = c /\ t[2] = v /\ t[Len(t)] = s[Len(s)]
          /\ \A i \in 2..Len(t) : t[i] = s[i - 1]
          /\ \A i \in 2..Len(t) : OnFastPath(t, i) <=> OnFastPath(s, i - 1)
          /\ OnFastPath(t, 1) <=> Len(s) > 0 /\ c.at = "callback_" /\ v.at = "enqueue_fast"
          /\ Nested(t, 1) <=> Len(s) > 0 /\ (v.at \in Reads \/ Nested(s, 1))
      <3>1. Len(s) > 0
        BY <2>6, <2>7
      <3>2. QED
        BY <2>5, <2>7, <3>1, PushTop
    <2>9. /\ Len(s) = Len(stack) /\ \A i \in 2..Len(s) : s[i] = stack[i]
          /\ s[Len(s)].at = stack[Len(stack)].at
          /\ Nested(s, 1) <=> Nested(stack, 1)
      BY <1>2, <2>1, <2>6, <2>7
    <2>10. \A i \in 1..Len(s) : ~OnFastPath(s, i)
      BY <1>5, <2>1, <2>6, <2>7
    <2>11. \A i \in 1..Len(t) : ~OnFastPath(t, i)
      BY <2>1, <2>6, <2>7, <2>8, <2>10
    <2>12. v.at \notin Reads /\ queue # << >>
      BY <1>4, <1>11, <2>1 DEF Reads
    <2>13. TypeOK'
      BY <1>1, <1>6, <2>3, <2>4, <2>5 DEF TypeOK, Frame
    <2>14. WellNested(stack)'
      <3>1. WellNested(r)
        BY <1>1, <2>2, PopNested
      <3>2. Len(r) = 0 \/ (r[1].at \in Reads /\ ~OnFastPath(r, 2))
        <4>1. Len(r) > 0 => r[1].at \in Reads
          BY <1>8, <2>6
        <4>2. Len(r) > 1 => ~OnFastPath(r, 2)
          <5>1. Len(r) > 1 => 3 \in 1..Len(stack) /\ 3 \in 2..Len(stack) /\ 3 - 1 = 2
            BY <2>6
          <5>2. QED
            BY <1>5, <2>6, <5>1
        <4>3. Len(r) = 1 => ~OnFastPath(r, 2)
          BY DEF OnFastPath
        <4>4. Len(r) \in Nat
          BY <2>6
        <4>5. Len(r) = 0 \/ (Len(r) > 0 /\ (Len(r) = 1 \/ Len(r) > 1))
          BY <4>4, Counts
        <4>6. QED
          BY <4>1, <4>2, <4>3, <4>5
      <3>3. WellNested(s)
        BY <2>1, <2>4, <3>1, <3>2, PushLoop
      <3>4. ~throttled => ~Nested(s, 1)
        BY <2>9, <2>12 DEF ControlInv, NestedThrottled
      <3>5. ~throttled => WellNested(t)
        <4>1. Len(s) > 0 /\ c.n \in {0, 1} /\ s[1].n # 0
          BY <1>4, <1>11, <2>1, <2>6, <2>7
        <4>2. QED
          BY <2>1, <2>5, <2>7, <3>3, <3>4, <4>1, PushCallback
      <3>6. QED
        BY <2>3, <3>3, <3>5
    <2>15. FastAlone' /\ FastCallback' /\ NestedThrottled'
      BY <1>3, <1>6, <2>3, <2>8, <2>9, <2>10, <2>11, <2>12
      DEF ControlInv, FastAlone, FastCallback, NestedThrottled
    <2>16. LoopProgress'
      <3>1. throttled \/ left => LoopProgress'
        BY <1>6 DEF LoopProgress
      <3>2. ASSUME ~throttled, ~left, NEW i \in 1..Len(t), t[i].at = "v_unthrottleEvent", t[i].n # 0
            PROVE  \/ queue' = << >> \/ QueueSize(queue', fastPacket') < t[i].n
                   \/ i = 2 /\ t[1].n = 0 /\ QueueSize(queue', fastPacket') = t[2].n
        <4>1. i # 1
          BY <2>1, <2>8, <3>2
        <4>2. i = 2 => t[1].n = 0 /\ t[2].n = n
          BY <2>1, <2>8
        <4>3. i > 2 => i - 1 \in 2..Len(stack) /\ t[i] = stack[i - 1]
          BY <1>2, <2>8, <2>9
        <4>4. QueueSize(queue', fastPacket') = n /\ queue' = queue
          BY <1>6 DEF n
        <4>5. QED
          BY <1>9, <3>2, <4>1, <4>2, <4>3, <4>4
      <3>3. QED
        BY <2>3, <3>1, <3>2 DEF LoopProgress
    <2>17. Draining'
      <3>1. s # << >> /\ t # << >>
        BY <2>4, <2>5, <2>6, <2>7, <2>8
      <3>2. QED
        BY <1>2, <1>6, <2>3, <2>8, <2>9, <3>1 DEF ControlInv, Draining
    <2>18. QED
      BY <1>6, <2>13, <2>14, <2>15, <2>16, <2>17 DEF ControlInv, PeerAgrees
  <1>12. QED
    BY <1>10, <1>11

\* The calls when the source is notified, before the loop begins.
LEMMA Notification ==
  ASSUME NEW s \in Seq(Frame), WellNested(s),
         Len(s) = 0 \/ (s[1].at \in Reads /\ ~OnFastPath(s, 2)),
         NEW t,
         t = <<Call("unthrottleCallback_", None, 0)>>
             \o (<<Call("v_unthrottleEvent", None, 0)>> \o s)
  PROVE  /\ t \in Seq(Frame) /\ t # << >> /\ WellNested(t)
         /\ \A i \in 1..Len(t) : ~OnFastPath(t, i)
         /\ Len(s) = 0 => /\ ~Nested(t, 1) /\ \A i \in 1..Len(t) : t[i].n = 0
                          /\ t[Len(t)].at = "v_unthrottleEvent"
  <1> DEFINE v == Call("v_unthrottleEvent", None, 0)
             u == Call("unthrottleCallback_", None, 0)
             l == <<v>> \o s
             w == <<u>> \o l
  <1>1. /\ v \in Frame /\ v.at = "v_unthrottleEvent" /\ v.n = 0
        /\ u \in Frame /\ u.at = "unthrottleCallback_" /\ u.n = 0
    <2>1. "v_unthrottleEvent" \in Ats /\ "unthrottleCallback_" \in Ats /\ None \in Nat /\ 0 \in Nat
      BY DEF Ats, None
    <2>2. QED
      BY <2>1, CallFields
  <1>2. t = w
    OBVIOUS
  <1> HIDE DEF u, v
  <1>3. l \in Seq(Frame) /\ IsPush(l, v, s)
    BY <1>1, Push
  <1> HIDE DEF l
  <1>4. w \in Seq(Frame) /\ w # << >> /\ IsPush(w, u, l)
    BY <1>1, <1>3, Push
  <1> HIDE DEF w
  <1>5. \A i \in 1..Len(w) : w[i].at \in Ats
    <2>1. \A i \in 1..Len(w) : w[i] \in Frame
      BY <1>4
    <2>2. \A f \in Frame : f.at \in Ats
      BY DEF Frame
    <2>3. QED
      BY <2>1, <2>2
  <1>6. SUFFICES ASSUME NEW x, IsPush(x, u, l), \A i \in 1..Len(x) : x[i].at \in Ats
                 PROVE  /\ WellNested(x)
                        /\ \A i \in 1..Len(x) : ~OnFastPath(x, i)
                        /\ Len(s) = 0 => /\ ~Nested(x, 1) /\ \A i \in 1..Len(x) : x[i].n = 0
                                         /\ x[Len(x)].at = "v_unthrottleEvent"
    BY <1>2, <1>4, <1>5
  <1>7. /\ Len(l) = Len(s) + 1 /\ Len(s) \in Nat /\ l[1] = v
        /\ \A i \in 2..Len(l) : l[i] = s[i - 1]
        /\ Nested(l, 1) <=> Len(s) > 0 /\ (s[1].at \in Reads \/ Nested(s, 1))
    BY <1>3, PushTop
  <1>8. /\ Len(x) = Len(l) + 1 /\ x[1] = u /\ x[2] = v
        /\ \A i \in 2..Len(x) : x[i] = l[i - 1]
        /\ Nested(x, 1) <=> (l[1].at \in Reads \/ Nested(l, 1))
        /\ x[Len(x)] = l[Len(l)]
    <2>1. Len(l) > 0
      BY <1>7
    <2>2. QED
      BY <1>6, <1>7, <2>1, PushTop
  <1>9. WellNested(l)
    BY <1>1, <1>3, PushLoop
  <1>10. WellNested(x)
    <2>1. Len(l) > 0 /\ l[1].at = "v_unthrottleEvent" /\ l[1].n = 0
      BY <1>1, <1>7
    <2>2. QED
      BY <1>1, <1>6, <1>9, <2>1, PushNotify
  <1>11. \A i \in 1..Len(x) : ~OnFastPath(x, i)
    <2>1. Len(x) > 0 /\ Len(x) \in Nat /\ x[1].at = "unthrottleCallback_"
      BY <1>1, <1>7, <1>8
    <2>2. QED
      BY <1>6, <1>10, <2>1, BelowNotification
  <1>12. Len(s) = 0 => /\ ~Nested(x, 1) /\ \A i \in 1..Len(x) : x[i].n = 0
                       /\ x[Len(x)].at = "v_unthrottleEvent"
    BY <1>1, <1>7, <1>8 DEF Reads
  <1>13. QED
    BY <1>10, <1>11, <1>12

\* The source is notified and the loop begins.
LEMMA EmitControl ==
  ASSUME NEW s \in Seq(Frame), WellNested(s), EmitUnthrottle(s), peer = TRUE,
         Len(s) = 0 \/ (s[1].at \in Reads /\ ~OnFastPath(s, 2)),
         fastPacket' = None, Len(s) = 0 \/ queue' = << >>
  PROVE  /\ stack' \in Seq(Frame) /\ WellNested(stack')
         /\ FastAlone' /\ FastCallback' /\ NestedThrottled' /\ LoopProgress' /\ Draining'
  <1>1. stack' = <<Call("unthrottleCallback_", None, 0)>>
                 \o (<<Call("v_unthrottleEvent", None, 0)>> \o s)
    BY DEF EmitUnthrottle
  <1>2. /\ stack' \in Seq(Frame) /\ stack' # << >> /\ WellNested(stack')
        /\ \A i \in 1..Len(stack') : ~OnFastPath(stack', i)
        /\ Len(s) = 0 => /\ ~Nested(stack', 1) /\ \A i \in 1..Len(stack') : stack'[i].n = 0
                         /\ stack'[Len(stack')].at = "v_unthrottleEvent"
    BY <1>1, Notification
  <1>3. FastAlone' /\ FastCallback'
    BY <1>2 DEF FastAlone, FastCallback
  <1>4. NestedThrottled' /\ LoopProgress' /\ Draining'
    BY <1>2 DEF NestedThrottled, LoopProgress, Draining
  <1>5. QED
    BY <1>2, <1>3, <1>4

\* The input stops to be throttled by its module or by a route.
LEMMA UnthrottleControl ==
  ASSUME PassiveInputAssumption, ~HandlerUnthrottles, ControlInv,
         Unthrottle \/ \E r \in Route : NotifyUnthrottle(r)
  PROVE  ControlInv'
  <1>1. stack = << >> /\ Len(stack) = 0 /\ stack \in Seq(Frame)
    <2>1. stack = << >>
      BY DEF Unthrottle, NotifyUnthrottle, MayUnthrottle
    <2>2. QED
      BY <2>1
  <1>2. fastPacket = None
    BY <1>1 DEF ControlInv, FastAlone
  <1>3. UNCHANGED <<queue, fastPacket, slowPacket, written, delivered, lost, left>>
    BY DEF Unthrottle, NotifyUnthrottle, packetVars, history
  <1>4. /\ native \in BOOLEAN /\ remote \in BOOLEAN /\ peer \in BOOLEAN
        /\ routes \subseteq Route /\ remote = (routes # {}) /\ peer = (native \/ remote)
    BY DEF ControlInv, TypeOK, PeerAgrees, throttled
  <1>5. /\ native' \in BOOLEAN /\ remote' \in BOOLEAN /\ peer' \in BOOLEAN
        /\ routes' \subseteq Route /\ remote' = (routes' # {}) /\ peer' = (native' \/ remote')
        /\ \/ peer = TRUE /\ EmitUnthrottle(stack)
           \/ stack' = stack /\ (native' \/ remote')
    <2>1. CASE Unthrottle
      <3>1. native = TRUE /\ native' = FALSE /\ UNCHANGED <<remote, routes>>
        BY <1>4, <2>1 DEF Unthrottle, SetUnthrottle
      <3>2. CASE remote = TRUE
        <4>1. stack' = stack /\ peer' = peer
          BY <2>1, <3>1, <3>2 DEF Unthrottle, SetUnthrottle
        <4>2. QED
          BY <1>4, <3>1, <3>2, <4>1
      <3>3. CASE remote = FALSE
        <4>1. EmitUnthrottle(stack)
          BY <2>1, <3>1, <3>3 DEF Unthrottle, SetUnthrottle
        <4>2. peer' = FALSE
          BY <4>1 DEF EmitUnthrottle
        <4>3. QED
          BY <1>4, <3>1, <3>3, <4>1, <4>2
      <3>4. QED
        BY <1>4, <3>2, <3>3
    <2>2. ASSUME NEW r \in Route, NotifyUnthrottle(r)
          PROVE  <1>5!1 /\ <1>5!2 /\ <1>5!3
      <3>1. /\ r \in routes /\ routes' = routes \ {r} /\ remote' = (routes' # {})
            /\ native' = native
        BY <2>2 DEF NotifyUnthrottle
      <3>2. peer = TRUE
        BY <1>4, <3>1
      <3>3. CASE routes' = {} /\ native = FALSE
        <4>1. EmitUnthrottle(stack)
          BY <2>2, <3>3 DEF NotifyUnthrottle
        <4>2. peer' = FALSE
          BY <4>1 DEF EmitUnthrottle
        <4>3. QED
          BY <1>4, <3>1, <3>2, <3>3, <4>1, <4>2
      <3>4. CASE ~(routes' = {} /\ native = FALSE)
        <4>1. stack' = stack /\ peer' = peer
          BY <1>4, <2>2, <3>4 DEF NotifyUnthrottle
        <4>2. QED
          BY <1>4, <3>1, <3>2, <3>4, <4>1
      <3>5. QED
        BY <3>3, <3>4
    <2>3. QED
      BY <2>1, <2>2
  <1>6. CASE peer = TRUE /\ EmitUnthrottle(stack)
    <2>1. /\ stack' \in Seq(Frame) /\ WellNested(stack')
          /\ FastAlone' /\ FastCallback' /\ NestedThrottled' /\ LoopProgress' /\ Draining'
      BY <1>1, <1>2, <1>3, <1>6, EmitControl DEF ControlInv
    <2>2. QED
      BY <1>3, <1>5, <2>1 DEF ControlInv, TypeOK, PeerAgrees, Frame, throttled
  <1>7. CASE stack' = stack /\ (native' \/ remote')
    <2>1. FastAlone' /\ FastCallback' /\ NestedThrottled' /\ LoopProgress' /\ Draining'
      BY <1>1, <1>2, <1>3, <1>7
      DEF FastAlone, FastCallback, NestedThrottled, LoopProgress, Draining, throttled
    <2>2. QED
      BY <1>3, <1>5, <1>7, <2>1 DEF ControlInv, TypeOK, PeerAgrees, throttled
  <1>8. QED
    BY <1>5, <1>6, <1>7

\* The handler has read: the calls are the same, and it has been noted.
LEMMA TakingCalls ==
  ASSUME TypeOK, WellNested(stack), InModule
  PROVE  /\ Taking \in Seq(Frame) /\ Len(Taking) = Len(stack) /\ WellNested(Taking)
         /\ Len(stack) > 0 => /\ Len(stack) > 1 /\ stack[1].at = "callback_"
                              /\ Taking[1].at = "callback_" /\ Taking[1].n = 1
                              /\ Taking[Len(stack)] = stack[Len(stack)]
         /\ \A i \in 2..Len(stack) : Taking[i] = stack[i]
         /\ \A i \in 1..Len(stack) : OnFastPath(Taking, i) <=> OnFastPath(stack, i)
         /\ Nested(Taking, 1) <=> Nested(stack, 1)
         /\ Nested(stack, 1) => OnFastPath(stack, 1)
  <1>1. /\ stack \in Seq(Frame) /\ Len(stack) \in Nat
        /\ (stack = << >>) <=> (Len(stack) = 0)
        /\ stack # << >> => Head(stack) = stack[1]
    BY Calls
  <1>2. CASE stack = << >>
    <2>1. Taking = stack
      BY <1>2 DEF Taking
    <2>2. ~Nested(stack, 1)
      BY <1>1, <1>2 DEF Nested
    <2>3. QED
      BY <1>1, <1>2, <2>1, <2>2
  <1>3. CASE stack # << >>
    <2> DEFINE r == Tail(stack)
               c == [Head(stack) EXCEPT !.n = 1]
               t == <<c>> \o r
    <2>1. stack[1].at = "callback_"
      BY <1>1, <1>3 DEF InModule, In
    <2>2. r \in Seq(Frame) /\ IsPush(stack, stack[1], r) /\ stack[1] \in Frame
      BY <1>1, <1>3, Pop
    <2>3. c \in Frame /\ c.at = "callback_" /\ c.n = 1
      BY <1>1, <1>3, <2>1, <2>2 DEF Frame
    <2>4. Taking = t
      BY <1>3 DEF Taking
    <2> HIDE DEF r, c
    <2>5. t \in Seq(Frame) /\ IsPush(t, c, r)
      BY <2>2, <2>3, Push
    <2> HIDE DEF t
    <2>6. /\ Len(stack) = Len(r) + 1 /\ Len(r) \in Nat
          /\ Len(r) > 0 => stack[2] = r[1] /\ stack[Len(stack)] = r[Len(r)]
          /\ \A i \in 2..Len(stack) : stack[i] = r[i - 1]
          /\ OnFastPath(stack, 1) <=>
               Len(r) > 0 /\ stack[1].at = "callback_" /\ r[1].at = "enqueue_fast"
          /\ \A i \in 2..Len(stack) : OnFastPath(stack, i) <=> OnFastPath(r, i - 1)
          /\ Nested(stack, 1) <=> Len(r) > 0 /\ (r[1].at \in Reads \/ Nested(r, 1))
      BY <2>2, PushTop
    <2>7. /\ Len(t) = Len(r) + 1 /\ t[1] = c
          /\ Len(r) > 0 => t[2] = r[1] /\ t[Len(t)] = r[Len(r)]
          /\ \A i \in 2..Len(t) : t[i] = r[i - 1]
          /\ OnFastPath(t, 1) <=> Len(r) > 0 /\ c.at = "callback_" /\ r[1].at = "enqueue_fast"
          /\ \A i \in 2..Len(t) : OnFastPath(t, i) <=> OnFastPath(r, i - 1)
          /\ Nested(t, 1) <=> Len(r) > 0 /\ (r[1].at \in Reads \/ Nested(r, 1))
      BY <2>5, PushTop
    <2>8. /\ CalledBy(stack, 1)
          /\ Nested(stack, 1) => OnFastPath(stack, 1)
      <3>1. 1 \in 1..Len(stack)
        BY <2>6
      <3>2. QED
        BY <2>1, <3>1 DEF WellNested
    <2>9. /\ Len(r) > 0
          /\ r[1].at \in Enqueues \/ (r[1].at = "v_unthrottleEvent" /\ r[1].n # 0)
      <3>1. 1 + 1 = 2
        OBVIOUS
      <3>2. 1 < Len(stack) /\ (\/ stack[2].at \in Enqueues
                               \/ stack[2].at = "v_unthrottleEvent" /\ stack[2].n # 0)
        BY <2>1, <2>8, <3>1 DEF CalledBy
      <3>3. QED
        BY <2>6, <3>2
    <2>10. WellNested(r)
      BY <2>2, PopNested
    <2>11. Nested(r, 1) => r[1].at = "enqueue_fast"
      BY <2>6, <2>8, <2>9
    <2>12. WellNested(t)
      <3>1. c.n \in {0, 1}
        BY <2>3
      <3>2. QED
        BY <2>3, <2>5, <2>9, <2>10, <2>11, <3>1, PushCallback
    <2>13. \A i \in 1..Len(stack) : OnFastPath(t, i) <=> OnFastPath(stack, i)
      BY <2>1, <2>3, <2>6, <2>7
    <2>14. \A i \in 2..Len(stack) : t[i] = stack[i]
      BY <2>6, <2>7
    <2>15. /\ Len(t) = Len(stack) /\ Len(stack) > 1 /\ t[Len(stack)] = stack[Len(stack)]
           /\ Nested(t, 1) <=> Nested(stack, 1)
      BY <2>6, <2>7, <2>9
    <2>16. QED
      BY <2>1, <2>3, <2>4, <2>5, <2>7, <2>8, <2>12, <2>13, <2>14, <2>15
  <1>4. QED
    BY <1>2, <1>3

\* A packet on the fast path is read by the handler it was given to, and nobody is
\* unthrottled by that.
LEMMA ReadFastFacts ==
  ASSUME PassiveInputAssumption, Low = 0, ControlInv, ReadFast
  PROVE  /\ OnFastPath(stack, 1) /\ stack[1].n = 0 /\ queue = << >>
         /\ fastPacket \in Nat /\ fastPacket # None /\ fastPacket' = None
         /\ stack' = <<Call("read_fast", fastPacket, 0)>> \o Taking
         /\ UNCHANGED <<queue, slowPacket, native, remote, routes, peer>>
         /\ UNCHANGED <<written, delivered, lost, left>>
         /\ InModule
  <1>1. /\ fastPacket # None /\ InModule /\ fastPacket' = None
        /\ UNCHANGED <<queue, slowPacket, remote, routes, written, delivered, lost, left>>
    BY DEF ReadFast, history
  <1>2. Len(stack) \in Nat /\ stack # << >> => Head(stack) = stack[1]
    BY Calls DEF ControlInv
  <1>3. /\ OnFastPath(stack, 1) /\ stack[1].n = 0 /\ queue = << >>
        /\ ~throttled /\ fastPacket \in Nat
    BY <1>1, <1>2 DEF ControlInv, FastAlone, InModule, In, TypeOK
  <1>4. QueueSize(queue', fastPacket') <= Low
    <2>1. queue' = << >>
      BY <1>1, <1>3
    <2>2. Len(queue') = 0
      BY <2>1
    <2>3. QED
      BY <1>1, <2>2 DEF QueueSize
  <1>9. Referents = {fastPacket}
    <2>1. 1 + 1 = 2
      OBVIOUS
    <2>2. 2 \in 1..Len(stack) /\ stack[2].at = "enqueue_fast" /\ stack[2].p = fastPacket
      BY <1>1, <1>2, <2>1 DEF ControlInv, FastAlone, InModule, In, OnFastPath
    <2>3. QED
      BY <2>2 DEF Referents, Dangling
  <1>5. SetUnthrottle(<<Call("read_fast", fastPacket, 0)>> \o Taking)
    BY <1>4, <1>9 DEF ReadFast, Dequeued
  <1>6. native = FALSE
    BY <1>3 DEF throttled, ControlInv, TypeOK
  <1>7. /\ stack' = <<Call("read_fast", fastPacket, 0)>> \o Taking
        /\ native' = native /\ peer' = peer
    BY <1>5, <1>6 DEF SetUnthrottle
  <1>8. QED
    BY <1>1, <1>3, <1>7

LEMMA ReadFastControl ==
  ASSUME PassiveInputAssumption, Low = 0, ControlInv, ReadFast
  PROVE  ControlInv'
  <1> DEFINE c == Call("read_fast", fastPacket, 0)
             t == <<c>> \o Taking
  <1>1. /\ OnFastPath(stack, 1) /\ stack[1].n = 0 /\ queue = << >>
        /\ fastPacket \in Nat /\ fastPacket # None /\ fastPacket' = None
        /\ stack' = t
        /\ UNCHANGED <<queue, slowPacket, native, remote, routes, peer>>
        /\ UNCHANGED <<written, delivered, lost, left>>
        /\ InModule
    BY ReadFastFacts
  <1>2. TypeOK /\ WellNested(stack)
    BY DEF ControlInv
  <1>3. /\ Taking \in Seq(Frame) /\ Len(Taking) = Len(stack) /\ WellNested(Taking)
        /\ Len(stack) > 0 => Taking[1].at = "callback_" /\ Taking[1].n = 1
    BY <1>1, <1>2, TakingCalls
  <1>4. c \in Frame /\ c.at = "read_fast"
    <2>1. "read_fast" \in Ats /\ 0 \in Nat
      BY DEF Ats, Reads
    <2>2. QED
      BY <1>1, <2>1, CallFields
  <1> HIDE DEF c
  <1>5. t \in Seq(Frame) /\ IsPush(t, c, Taking)
    BY <1>3, <1>4, Push
  <1> HIDE DEF t
  <1>6. WellNested(t)
    <2>1. Len(stack) \in Nat
      BY <1>2, Calls
    <2>2. Len(Taking) = 0 \/ (Taking[1].at = "callback_" /\ Taking[1].n = 1)
      BY <1>3, <2>1
    <2>3. c.at \in Reads /\ c.at # "read_slow"
      BY <1>4 DEF Reads
    <2>4. QED
      BY <1>3, <1>5, <2>2, <2>3, PushRead
  <1>7. TypeOK'
    BY <1>1, <1>2, <1>5 DEF TypeOK, Frame, None
  <1>8. FastAlone' /\ NestedThrottled' /\ LoopProgress' /\ Draining'
    BY <1>1 DEF FastAlone, NestedThrottled, LoopProgress, Draining
  <1>9. FastCallback'
    <2>1. ASSUME NEW i \in 1..Len(t), OnFastPath(t, i)
          PROVE  t[i].n # 0
      <3>1. Len(t) \in Nat /\ \A k \in 1..Len(t) : t[k].at \in Ats
        <4>1. \A k \in 1..Len(t) : t[k] \in Frame
          BY <1>5
        <4>2. QED
          BY <1>5, <4>1 DEF Frame
      <3>2. i = 1 \/ i = 2
        BY <1>6, <2>1, <3>1, FastOnTop
      <3>3. t[1].at = "read_fast" /\ Len(t) = Len(Taking) + 1 /\ Len(Taking) \in Nat
            /\ (Len(Taking) > 0 => t[2] = Taking[1])
        BY <1>4, <1>5, PushTop
      <3>4. i = 2
        BY <2>1, <3>2, <3>3 DEF OnFastPath
      <3>5. QED
        BY <1>3, <3>3, <3>4
    <2>2. QED
      BY <1>1, <2>1 DEF FastCallback
  <1>10. QED
    BY <1>1, <1>6, <1>7, <1>8, <1>9 DEF ControlInv, PeerAgrees, throttled

\* The calls when a queued packet is being read by the innermost one.
Reading == <<Call("read_slow", Head(queue), 0)>> \o Taking

\* A queued packet is read by a handler that was not called for one on the fast path,
\* and below no other read.
LEMMA ReadSlowFacts ==
  ASSUME PassiveInputAssumption, Low = 0, ControlInv, ReadSlow
  PROVE  /\ queue \in Seq(Nat) /\ queue # << >> /\ Head(queue) \in Nat
         /\ queue' = Tail(queue) /\ slowPacket' = Head(queue)
         /\ fastPacket = None /\ fastPacket' = None /\ InModule /\ ~Nested(stack, 1)
         /\ UNCHANGED <<remote, routes, written, delivered, lost, left>>
         /\ Reading \in Seq(Frame) /\ Reading # << >>
         /\ Reading[1].at = "read_slow" /\ Reading[1].p = Head(queue)
         /\ IsPush(Reading, Reading[1], Taking)
         /\ WellNested(Reading) /\ ~Nested(Reading, 1)
         /\ \A i \in 1..Len(Reading) : ~OnFastPath(Reading, i)
         /\ native' \in BOOLEAN /\ peer' \in BOOLEAN /\ peer' = throttled'
         /\ \/ queue' # << >> /\ stack' = Reading /\ throttled' = throttled
            \/ queue' = << >> /\ stack' = Reading
            \/ queue' = << >> /\ peer = TRUE /\ EmitUnthrottle(Reading)
  <1> DEFINE c == Call("read_slow", Head(queue), 0)
  <1>1. /\ queue # << >> /\ fastPacket = None /\ InModule /\ fastPacket' = None
        /\ queue' = Tail(queue) /\ slowPacket' = Head(queue)
        /\ UNCHANGED <<remote, routes, written, delivered, lost, left>>
    BY DEF ReadSlow, history
  <1>2. queue \in Seq(Nat) /\ Head(queue) \in Nat
    <2>1. queue \in Seq(Nat)
      BY DEF ControlInv, TypeOK
    <2>2. QED
      BY <1>1, <2>1
  <1>3. TypeOK /\ WellNested(stack)
    BY DEF ControlInv
  <1>4. /\ Taking \in Seq(Frame) /\ Len(Taking) = Len(stack) /\ WellNested(Taking)
        /\ Len(stack) > 0 => Taking[1].at = "callback_" /\ Taking[1].n = 1
                             /\ stack[1].at = "callback_"
        /\ \A i \in 1..Len(stack) : OnFastPath(Taking, i) <=> OnFastPath(stack, i)
        /\ Nested(Taking, 1) <=> Nested(stack, 1)
        /\ Nested(stack, 1) => OnFastPath(stack, 1)
    BY <1>1, <1>3, TakingCalls
  <1>5. Len(stack) \in Nat /\ \A i \in 1..Len(stack) : ~OnFastPath(stack, i)
    <2>1. Len(stack) \in Nat
      BY <1>3, Calls
    <2>2. QED
      BY <1>1, <2>1 DEF ControlInv, FastCallback
  <1>6. ~Nested(stack, 1)
    <2>1. ~OnFastPath(stack, 1)
      <3>1. Len(stack) > 0 => 1 \in 1..Len(stack)
        BY <1>5
      <3>2. QED
        BY <1>5, <3>1 DEF OnFastPath
    <2>2. QED
      BY <1>4, <2>1
  <1>7. c \in Frame /\ c.at = "read_slow" /\ c.p = Head(queue)
    <2>1. "read_slow" \in Ats /\ 0 \in Nat
      BY DEF Ats, Reads
    <2>2. QED
      BY <1>2, <2>1, CallFields
  <1>8. Reading = <<c>> \o Taking
    BY DEF Reading
  <1> HIDE DEF c
  <1>9. Reading \in Seq(Frame) /\ Reading # << >> /\ IsPush(Reading, c, Taking)
    <2>1. <<c>> \o Taking \in Seq(Frame) /\ IsPush(<<c>> \o Taking, c, Taking)
      BY <1>4, <1>7, Push
    <2>2. <<c>> \o Taking # << >>
      BY <1>4, <1>7
    <2>3. QED
      BY <1>8, <2>1, <2>2
  <1>10. /\ Len(Reading) = Len(Taking) + 1 /\ Reading[1] = c
         /\ OnFastPath(Reading, 1) <=> Len(Taking) > 0 /\ c.at = "callback_"
                                  /\ Taking[1].at = "enqueue_fast"
         /\ \A i \in 2..Len(Reading) : OnFastPath(Reading, i) <=> OnFastPath(Taking, i - 1)
         /\ Nested(Reading, 1) <=> Len(Taking) > 0 /\ (Taking[1].at \in Reads \/ Nested(Taking, 1))
    BY <1>9, PushTop
  <1>11. ~Nested(Reading, 1)
    BY <1>4, <1>6, <1>10 DEF Reads
  <1>12. \A i \in 1..Len(Reading) : ~OnFastPath(Reading, i)
    <2>1. ~OnFastPath(Reading, 1)
      BY <1>7, <1>10
    <2>2. \A i \in 2..Len(Reading) : i - 1 \in 1..Len(stack)
      BY <1>4, <1>5, <1>10
    <2>3. \A i \in 1..Len(Reading) : i = 1 \/ i \in 2..Len(Reading)
      BY <1>4, <1>5, <1>10
    <2>4. QED
      BY <1>4, <1>5, <1>10, <2>1, <2>2, <2>3
  <1>13. WellNested(Reading)
    <2>1. Len(Taking) = 0 \/ (Taking[1].at = "callback_" /\ Taking[1].n = 1)
      BY <1>4, <1>5
    <2>2. c.at \in Reads
      BY <1>7 DEF Reads
    <2>3. QED
      BY <1>4, <1>6, <1>9, <2>1, <2>2, PushRead
  <1>14. QueueSize(queue', fastPacket') <= Low <=> queue' = << >>
    <2>1. queue' \in Seq(Nat)
      BY <1>1, <1>2
    <2>2. Len(queue') \in Nat /\ (Len(queue') = 0 <=> queue' = << >>)
      BY <2>1
    <2>3. QueueSize(queue', fastPacket') = Len(queue')
      BY <1>1, <2>2 DEF QueueSize
    <2>4. QED
      BY <2>2, <2>3
  <1>15. Dequeued(Reading)
    BY DEF ReadSlow, Reading
  <1>16. native \in BOOLEAN /\ remote \in BOOLEAN /\ peer = (native \/ remote)
    BY DEF ControlInv, TypeOK, PeerAgrees, throttled
  <1>17. /\ native' \in BOOLEAN /\ peer' \in BOOLEAN /\ peer' = (native' \/ remote')
         /\ \/ queue' # << >> /\ stack' = Reading /\ native' = native
            \/ queue' = << >> /\ stack' = Reading
            \/ queue' = << >> /\ peer = TRUE /\ EmitUnthrottle(Reading)
    <2>1. CASE queue' # << >>
      BY <1>1, <1>14, <1>15, <1>16, <2>1 DEF Dequeued
    <2>2. CASE queue' = << >> /\ ~(native /\ ~remote)
      <3>1. native' = FALSE /\ stack' = Reading /\ peer' = peer
        BY <1>14, <1>15, <2>2 DEF Dequeued, SetUnthrottle
      <3>2. QED
        BY <1>1, <1>16, <2>2, <3>1
    <2>3. CASE queue' = << >> /\ native /\ ~remote
      <3>1. native' = FALSE /\ EmitUnthrottle(Reading)
        BY <1>14, <1>15, <2>3 DEF Dequeued, SetUnthrottle
      <3>2. peer' = FALSE
        BY <3>1 DEF EmitUnthrottle
      <3>3. QED
        BY <1>1, <1>16, <2>3, <3>1, <3>2
    <2>4. QED
      BY <2>1, <2>2, <2>3
  <1>18. throttled' = (native' \/ remote') /\ throttled = (native \/ remote)
    BY DEF throttled
  <1>19. Reading[1] = c
    BY <1>10
  <1>20. /\ Reading[1].at = "read_slow" /\ Reading[1].p = Head(queue)
         /\ IsPush(Reading, Reading[1], Taking)
    BY <1>7, <1>9, <1>19
  <1>21. QED
    BY <1>1, <1>2, <1>6, <1>9, <1>11, <1>12, <1>13, <1>17, <1>18, <1>20

LEMMA ReadSlowControl ==
  ASSUME PassiveInputAssumption, Low = 0, ControlInv, ReadSlow
  PROVE  ControlInv'
  <1>1. /\ queue \in Seq(Nat) /\ queue # << >> /\ Head(queue) \in Nat
        /\ queue' = Tail(queue) /\ slowPacket' = Head(queue)
        /\ fastPacket = None /\ fastPacket' = None /\ InModule /\ ~Nested(stack, 1)
        /\ UNCHANGED <<remote, routes, written, delivered, lost, left>>
        /\ Reading \in Seq(Frame) /\ Reading # << >>
        /\ Reading[1].at = "read_slow" /\ Reading[1].p = Head(queue)
        /\ IsPush(Reading, Reading[1], Taking)
        /\ WellNested(Reading) /\ ~Nested(Reading, 1)
        /\ \A i \in 1..Len(Reading) : ~OnFastPath(Reading, i)
        /\ native' \in BOOLEAN /\ peer' \in BOOLEAN /\ peer' = throttled'
        /\ \/ queue' # << >> /\ stack' = Reading /\ throttled' = throttled
           \/ queue' = << >> /\ stack' = Reading
           \/ queue' = << >> /\ peer = TRUE /\ EmitUnthrottle(Reading)
    BY ReadSlowFacts
  <1>2. queue' \in Seq(Nat) /\ Len(queue') = Len(queue) - 1 /\ Len(queue) \in Nat
    BY <1>1
  <1>3. QueueSize(queue', fastPacket') = Len(queue') /\ QueueSize(queue, fastPacket) = Len(queue)
    BY <1>1, <1>2 DEF QueueSize
  <1>4. TypeOK /\ WellNested(stack)
    BY DEF ControlInv
  <1>5. ASSUME stack' \in Seq(Frame), WellNested(stack'),
               FastAlone', FastCallback', NestedThrottled', LoopProgress', Draining'
        PROVE  ControlInv'
    BY <1>1, <1>2, <1>4, <1>5 DEF ControlInv, TypeOK, PeerAgrees, Frame, None
  <1>6. CASE stack' = Reading
    <2>1. FastAlone' /\ FastCallback' /\ NestedThrottled'
      BY <1>1, <1>6 DEF FastAlone, FastCallback, NestedThrottled
    <2>2. CASE queue' = << >>
      <3>1. LoopProgress' /\ Draining'
        BY <2>2 DEF LoopProgress, Draining
      <3>2. QED
        BY <1>1, <1>5, <1>6, <2>1, <3>1
    <2>3. CASE queue' # << >>
      <3>1. throttled' = throttled
        BY <1>1, <2>3
      <3>2. /\ Len(Taking) = Len(stack) /\ Len(stack) \in Nat
            /\ Len(stack) > 0 => /\ Len(stack) > 1 /\ Taking[1].at = "callback_"
                                 /\ stack[1].at = "callback_"
                                 /\ Taking[Len(stack)] = stack[Len(stack)]
            /\ \A i \in 2..Len(stack) : Taking[i] = stack[i]
        BY <1>1, <1>4, TakingCalls, Calls
      <3>3. /\ Len(Reading) = Len(Taking) + 1 /\ \A i \in 2..Len(Reading) : Reading[i] = Taking[i - 1]
            /\ Len(Taking) > 0 => Reading[Len(Reading)] = Taking[Len(Taking)]
        BY <1>1, PushTop
      <3>4. LoopProgress'
        <4>1. SUFFICES ASSUME NEW i \in 1..Len(Reading), Reading[i].at = "v_unthrottleEvent",
                              Reading[i].n # 0, ~throttled, ~left
                       PROVE  Len(queue') < Reading[i].n
          <5>1. left' = left
            BY <1>1
          <5>2. QED
            BY <1>3, <1>6, <3>1, <5>1 DEF LoopProgress
        <4>2. i > 2 /\ i - 1 \in 2..Len(stack) /\ Reading[i] = stack[i - 1]
          <5>1. i # 1
            BY <1>1, <4>1
          <5>2. i \in 2..Len(Reading) /\ Reading[i] = Taking[i - 1]
            BY <3>2, <3>3, <5>1
          <5>3. i # 2
            BY <3>2, <3>3, <4>1, <5>2
          <5>4. i - 1 \in 2..Len(stack)
            BY <3>2, <3>3, <5>2, <5>3
          <5>5. QED
            BY <3>2, <5>2, <5>3, <5>4
        <4>3. i - 1 \in 1..Len(stack)
          BY <3>2, <4>2
        <4>4. Len(queue) < Reading[i].n \/ Len(queue) = Reading[i].n
          BY <1>1, <1>3, <4>1, <4>2, <4>3 DEF ControlInv, LoopProgress
        <4>5. Reading[i].n \in Nat
          <5>1. Reading[i] \in Frame
            BY <1>1
          <5>2. QED
            BY <5>1 DEF Frame
        <4>6. QED
          BY <1>2, <4>4, <4>5
      <3>5. Draining'
        BY <1>1, <1>6, <3>1, <3>2, <3>3 DEF ControlInv, Draining
      <3>6. QED
        BY <1>1, <1>5, <1>6, <2>1, <3>4, <3>5
    <2>4. QED
      BY <2>2, <2>3
  <1>7. CASE queue' = << >> /\ peer = TRUE /\ EmitUnthrottle(Reading)
    <2>1. Reading[1].at \in Reads /\ ~OnFastPath(Reading, 2)
      <3>1. 2 \notin 1..Len(Reading) => ~OnFastPath(Reading, 2)
        BY <1>1 DEF OnFastPath
      <3>2. QED
        BY <1>1, <3>1 DEF Reads
    <2>2. /\ stack' \in Seq(Frame) /\ WellNested(stack')
          /\ FastAlone' /\ FastCallback' /\ NestedThrottled' /\ LoopProgress' /\ Draining'
      BY <1>1, <1>7, <2>1, EmitControl
    <2>3. QED
      BY <1>5, <2>2
  <1>8. QED
    BY <1>1, <1>6, <1>7

-----------------------------------------------------------------------------
(***************************************************************************)
(* The steps keep track of the packets.                                    *)
(***************************************************************************)

\* HeldOnce, for the calls s, the packets d returned so far and slowPacket_ = w.
ReadsOnce(s, d, w) ==
  \A i \in 1..Len(s) : s[i].at \in Reads =>
    /\ s[i].p \notin ToSet(d)
    /\ s[i].at = "read_slow" => s[i].p = w
    /\ \A j \in 1..Len(s) : j # i /\ s[j].at \in Reads => s[j].p # s[i].p

\* The calls s and t hold the same packets.
SameReads(s, t) ==
  /\ HeldBy(s) = HeldBy(t)
  /\ \A d, w : ReadsOnce(s, d, w) <=> ReadsOnce(t, d, w)

\* Calls that differ in calls that are not reads hold the same packets.
LEMMA OtherCalls ==
  ASSUME NEW s, NEW t, Len(s) = Len(t),
         \A i \in 1..Len(s) : \/ s[i] = t[i]
                              \/ s[i].at \notin Reads /\ t[i].at \notin Reads
  PROVE  SameReads(s, t)
  <1>1. HeldBy(s) = HeldBy(t)
    BY DEF HeldBy
  <1>2. \A d, w : ReadsOnce(s, d, w) <=> ReadsOnce(t, d, w)
    BY DEF ReadsOnce
  <1>3. QED
    BY <1>1, <1>2 DEF SameReads

\* What a call that is not a read holds: nothing.
LEMMA PushOther ==
  ASSUME NEW s, NEW c, NEW t, IsPush(t, c, s), c.at \notin Reads
  PROVE  SameReads(t, s)
  <1>1. /\ Len(t) = Len(s) + 1 /\ Len(s) \in Nat /\ t[1] = c
        /\ \A i \in 2..Len(t) : t[i] = s[i - 1]
        /\ \A i \in 1..Len(s) : t[i + 1] = s[i]
    BY PushTop DEF IsPush
  <1>2. \A i \in 1..Len(t) : t[i].at \in Reads => i - 1 \in 1..Len(s) /\ t[i] = s[i - 1]
    BY <1>1
  <1>3. \A i \in 1..Len(s) : i + 1 \in 1..Len(t) /\ t[i + 1] = s[i]
    BY <1>1
  <1>4. HeldBy(t) = HeldBy(s)
    BY <1>2, <1>3 DEF HeldBy
  <1>5. ASSUME NEW d, NEW w, ReadsOnce(s, d, w)
        PROVE  ReadsOnce(t, d, w)
    <2>1. SUFFICES ASSUME NEW i \in 1..Len(t), t[i].at \in Reads
                   PROVE  /\ t[i].p \notin ToSet(d)
                          /\ t[i].at = "read_slow" => t[i].p = w
                          /\ \A j \in 1..Len(t) :
                               j # i /\ t[j].at \in Reads => t[j].p # t[i].p
      BY DEF ReadsOnce
    <2>2. i - 1 \in 1..Len(s) /\ t[i] = s[i - 1]
      BY <1>2, <2>1
    <2>3. \A j \in 1..Len(t) : j # i => j - 1 # i - 1
      BY <1>1
    <2>4. QED
      BY <1>2, <1>5, <2>1, <2>2, <2>3 DEF ReadsOnce
  <1>6. ASSUME NEW d, NEW w, ReadsOnce(t, d, w)
        PROVE  ReadsOnce(s, d, w)
    <2>1. SUFFICES ASSUME NEW i \in 1..Len(s), s[i].at \in Reads
                   PROVE  /\ s[i].p \notin ToSet(d)
                          /\ s[i].at = "read_slow" => s[i].p = w
                          /\ \A j \in 1..Len(s) :
                               j # i /\ s[j].at \in Reads => s[j].p # s[i].p
      BY DEF ReadsOnce
    <2>2. /\ t[i + 1].p \notin ToSet(d)
          /\ t[i + 1].at = "read_slow" => t[i + 1].p = w
          /\ \A j \in 1..Len(t) : j # i + 1 /\ t[j].at \in Reads => t[j].p # t[i + 1].p
      BY <1>3, <1>6, <2>1 DEF ReadsOnce
    <2>3. \A j \in 1..Len(s) : j # i => j + 1 # i + 1
      BY <1>1
    <2>4. QED
      BY <1>3, <2>1, <2>2, <2>3
  <1>7. QED
    BY <1>4, <1>5, <1>6 DEF SameReads

\* What a read holds: its packet.
LEMMA PushHeld ==
  ASSUME NEW s, NEW c, NEW t, IsPush(t, c, s), c.at \in Reads
  PROVE  /\ HeldBy(t) = HeldBy(s) \cup {c.p}
         /\ \A d, w : ReadsOnce(t, d, w) <=>
              /\ ReadsOnce(s, d, w) /\ c.p \notin ToSet(d) /\ c.p \notin HeldBy(s)
              /\ c.at = "read_slow" => c.p = w
  <1>1. /\ Len(t) = Len(s) + 1 /\ Len(s) \in Nat /\ t[1] = c
        /\ \A i \in 2..Len(t) : t[i] = s[i - 1]
        /\ \A i \in 1..Len(s) : t[i + 1] = s[i]
    BY PushTop DEF IsPush
  <1>2. \A i \in 1..Len(t) : i # 1 => i - 1 \in 1..Len(s) /\ t[i] = s[i - 1]
    BY <1>1
  <1>3. \A i \in 1..Len(s) : i + 1 \in 1..Len(t) /\ i + 1 # 1 /\ t[i + 1] = s[i]
    BY <1>1
  <1>4. 1 \in 1..Len(t) /\ t[1] = c
    BY <1>1
  <1>5. HeldBy(t) = HeldBy(s) \cup {c.p}
    <2>1. ASSUME NEW i \in 1..Len(t), t[i].at \in Reads
          PROVE  t[i].p \in HeldBy(s) \cup {c.p}
      BY <1>2, <1>4, <2>1 DEF HeldBy
    <2>2. ASSUME NEW i \in 1..Len(s), s[i].at \in Reads
          PROVE  s[i].p \in HeldBy(t)
      BY <1>3, <2>2 DEF HeldBy
    <2>3. c.p \in HeldBy(t)
      BY <1>4 DEF HeldBy
    <2>4. HeldBy(t) \subseteq HeldBy(s) \cup {c.p}
      BY <2>1 DEF HeldBy
    <2>5. HeldBy(s) \subseteq HeldBy(t)
      BY <2>2 DEF HeldBy
    <2>6. QED
      BY <2>3, <2>4, <2>5
  <1>6. ASSUME NEW d, NEW w, ReadsOnce(s, d, w), c.p \notin ToSet(d), c.p \notin HeldBy(s),
               c.at = "read_slow" => c.p = w
        PROVE  ReadsOnce(t, d, w)
    <2>1. SUFFICES ASSUME NEW i \in 1..Len(t), t[i].at \in Reads
                   PROVE  /\ t[i].p \notin ToSet(d)
                          /\ t[i].at = "read_slow" => t[i].p = w
                          /\ \A j \in 1..Len(t) :
                               j # i /\ t[j].at \in Reads => t[j].p # t[i].p
      BY DEF ReadsOnce
    <2>2. \A j \in 1..Len(s) : s[j].at \in Reads => s[j].p # c.p
      BY <1>6 DEF HeldBy
    <2>3. CASE i = 1
      BY <1>2, <1>4, <1>6, <2>2, <2>3
    <2>4. CASE i # 1
      <3>1. i - 1 \in 1..Len(s) /\ t[i] = s[i - 1]
        BY <1>2, <2>4
      <3>2. \A j \in 1..Len(t) : j # i => j - 1 # i - 1
        BY <1>1
      <3>3. /\ s[i - 1].p \notin ToSet(d)
            /\ s[i - 1].at = "read_slow" => s[i - 1].p = w
            /\ \A j \in 1..Len(s) : j # i - 1 /\ s[j].at \in Reads => s[j].p # s[i - 1].p
        BY <1>6, <2>1, <3>1 DEF ReadsOnce
      <3>4. ASSUME NEW j \in 1..Len(t), j # i, t[j].at \in Reads
            PROVE  t[j].p # t[i].p
        <4>1. CASE j = 1
          BY <1>4, <2>1, <2>2, <3>1, <4>1
        <4>2. CASE j # 1
          BY <1>2, <3>1, <3>2, <3>3, <3>4, <4>2
        <4>3. QED
          BY <4>1, <4>2
      <3>5. QED
        BY <3>1, <3>3, <3>4
    <2>5. QED
      BY <2>3, <2>4
  <1>7. ASSUME NEW d, NEW w, ReadsOnce(t, d, w)
        PROVE  /\ ReadsOnce(s, d, w) /\ c.p \notin ToSet(d) /\ c.p \notin HeldBy(s)
               /\ c.at = "read_slow" => c.p = w
    <2>1. /\ c.p \notin ToSet(d) /\ (c.at = "read_slow" => c.p = w)
          /\ \A j \in 1..Len(t) : j # 1 /\ t[j].at \in Reads => t[j].p # c.p
      BY <1>4, <1>7 DEF ReadsOnce
    <2>2. c.p \notin HeldBy(s)
      BY <1>3, <2>1 DEF HeldBy
    <2>3. \A i, j \in 1..Len(s) : j # i => j + 1 # i + 1
      BY <1>1
    <2>4. ReadsOnce(s, d, w)
      <3>1. SUFFICES ASSUME NEW i \in 1..Len(s), s[i].at \in Reads
                     PROVE  /\ s[i].p \notin ToSet(d)
                            /\ s[i].at = "read_slow" => s[i].p = w
                            /\ \A j \in 1..Len(s) :
                                 j # i /\ s[j].at \in Reads => s[j].p # s[i].p
        BY DEF ReadsOnce
      <3>2. /\ t[i + 1].p \notin ToSet(d)
            /\ t[i + 1].at = "read_slow" => t[i + 1].p = w
            /\ \A j \in 1..Len(t) : j # i + 1 /\ t[j].at \in Reads => t[j].p # t[i + 1].p
        BY <1>3, <1>7, <3>1 DEF ReadsOnce
      <3>3. QED
        BY <1>3, <2>3, <3>1, <3>2
    <2>5. QED
      BY <2>1, <2>2, <2>4
  <1>8. QED
    BY <1>5, <1>6, <1>7

\* A queue whose packets are in the order they were written.
Sorted(q) == \A i, j \in 1..Len(q) : i < j => q[i] < q[j]

\* What a queue holds after a packet was put into it.
LEMMA AppendPackets ==
  ASSUME NEW q \in Seq(Nat), NEW p \in Nat
  PROVE  /\ Append(q, p) \in Seq(Nat)
         /\ ToSet(Append(q, p)) = ToSet(q) \cup {p}
         /\ IsInjective(q) /\ p \notin ToSet(q) => IsInjective(Append(q, p))
         /\ Sorted(q) /\ (\A x \in ToSet(q) : x < p) => Sorted(Append(q, p))
  <1> DEFINE a == Append(q, p)
  <1>1. /\ a \in Seq(Nat) /\ Len(a) = Len(q) + 1 /\ Len(q) \in Nat
        /\ DOMAIN a = 1..(Len(q) + 1) /\ DOMAIN q = 1..Len(q)
        /\ a[Len(q) + 1] = p /\ \A i \in 1..Len(q) : a[i] = q[i]
    OBVIOUS
  <1> HIDE DEF a
  <1>2. \A i : i \in 1..(Len(q) + 1) <=> i \in 1..Len(q) \/ i = Len(q) + 1
    BY <1>1
  <1>3. ToSet(a) = ToSet(q) \cup {p}
    <2>1. \A i \in 1..(Len(q) + 1) : a[i] = p \/ (i \in 1..Len(q) /\ a[i] = q[i])
      BY <1>1, <1>2
    <2>2. ToSet(a) \subseteq ToSet(q) \cup {p}
      BY <1>1, <2>1 DEF ToSet
    <2>3. ToSet(q) \subseteq ToSet(a) /\ p \in ToSet(a)
      BY <1>1, <1>2 DEF ToSet
    <2>4. QED
      BY <2>2, <2>3
  <1>4. /\ \A i \in 1..Len(q) : q[i] \in ToSet(q)
        /\ \A i \in 1..Len(q) : i < Len(q) + 1
    <2>1. \A i \in 1..Len(q) : i < Len(q) + 1
      BY <1>1
    <2>2. QED
      BY <1>1, <2>1 DEF ToSet
  <1>5. ASSUME IsInjective(q), p \notin ToSet(q)
        PROVE  IsInjective(a)
    BY <1>1, <1>2, <1>4, <1>5 DEF IsInjective
  <1>6. ASSUME Sorted(q), \A x \in ToSet(q) : x < p
        PROVE  Sorted(a)
    <2>1. SUFFICES ASSUME NEW i \in 1..Len(a), NEW j \in 1..Len(a), i < j
                   PROVE  a[i] < a[j]
      BY DEF Sorted
    <2>2. i \in 1..Len(q)
      BY <1>1, <2>1
    <2>3. CASE j \in 1..Len(q)
      BY <1>1, <1>6, <2>1, <2>2, <2>3 DEF Sorted
    <2>4. CASE j = Len(q) + 1
      BY <1>1, <1>4, <1>6, <2>2, <2>4
    <2>5. QED
      BY <1>1, <1>2, <2>3, <2>4
  <1>7. QED
    BY <1>1, <1>3, <1>5, <1>6 DEF a

\* What a queue holds after its oldest packet was taken from it.
LEMMA TailPackets ==
  ASSUME NEW q \in Seq(Nat), q # << >>, Sorted(q)
  PROVE  /\ Tail(q) \in Seq(Nat) /\ Head(q) \in Nat
         /\ ToSet(q) = ToSet(Tail(q)) \cup {Head(q)}
         /\ Sorted(Tail(q)) /\ \A x \in ToSet(Tail(q)) : Head(q) < x
  <1> DEFINE a == Tail(q)
             h == Head(q)
  <1>1. /\ a \in Seq(Nat) /\ Len(q) = Len(a) + 1 /\ Len(a) \in Nat
        /\ DOMAIN a = 1..Len(a) /\ DOMAIN q = 1..Len(q)
        /\ h = q[1] /\ h \in Nat /\ \A i \in 1..Len(a) : a[i] = q[i + 1]
    OBVIOUS
  <1> HIDE DEF a, h
  <1>2. \A i \in 1..Len(a) : i + 1 \in 1..Len(q) /\ 1 < i + 1
    BY <1>1
  <1>3. 1 \in 1..Len(q) /\ \A i \in 1..Len(q) : i = 1 \/ (i - 1 \in 1..Len(a) /\ i - 1 + 1 = i)
    BY <1>1
  <1>4. ToSet(q) = ToSet(a) \cup {h}
    <2>1. ASSUME NEW i \in 1..Len(q)
          PROVE  q[i] = h \/ q[i] \in ToSet(a)
      <3>1. CASE i = 1
        BY <1>1, <3>1
      <3>2. CASE i # 1
        <4>1. i - 1 \in 1..Len(a) /\ a[i - 1] = q[i]
          BY <1>1, <1>3, <3>2
        <4>2. QED
          BY <1>1, <4>1 DEF ToSet
      <3>3. QED
        BY <3>1, <3>2
    <2>2. ToSet(q) \subseteq ToSet(a) \cup {h}
      BY <1>1, <2>1 DEF ToSet
    <2>3. ToSet(a) \subseteq ToSet(q) /\ h \in ToSet(q)
      BY <1>1, <1>2, <1>3 DEF ToSet
    <2>4. QED
      BY <2>2, <2>3
  <1>5. Sorted(a)
    <2>1. SUFFICES ASSUME NEW i \in 1..Len(a), NEW j \in 1..Len(a), i < j
                   PROVE  a[i] < a[j]
      BY DEF Sorted
    <2>2. i + 1 < j + 1
      BY <2>1
    <2>3. QED
      BY <1>1, <1>2, <2>1, <2>2 DEF Sorted
  <1>6. \A x \in ToSet(a) : h < x
    BY <1>1, <1>2, <1>3 DEF ToSet, Sorted
  <1>7. QED
    BY <1>1, <1>4, <1>5, <1>6 DEF a, h

\* Packets that are in order are different.
LEMMA SortedInjective ==
  ASSUME NEW q \in Seq(Nat), Sorted(q)
  PROVE  IsInjective(q)
  <1>1. DOMAIN q = 1..Len(q) /\ Len(q) \in Nat /\ \A i \in 1..Len(q) : q[i] \in Nat
    OBVIOUS
  <1>2. \A i, j \in 1..Len(q) : i = j \/ i < j \/ j < i
    BY <1>1
  <1>3. \A i, j \in 1..Len(q) : i < j => q[i] # q[j]
    BY <1>1 DEF Sorted
  <1>4. QED
    BY <1>1, <1>2, <1>3 DEF IsInjective

\* The packets that have been taken from the input.
Taken == ToSet(delivered) \cup HeldBy(stack) \cup lost

\* The parts of DataInv, before and after a step.
LEMMA DataParts ==
  DataInv <=>
    /\ ReadsOnce(stack, delivered, slowPacket)
    /\ IsInjective(delivered) /\ IsInjective(queue) /\ Sorted(queue)
    /\ 1..written = Taken \cup ToSet(queue) \cup ({fastPacket} \ {None})
    /\ \A p \in Taken, q \in ToSet(queue) : p < q
    /\ fastPacket # None => \A p \in Taken : p < fastPacket
  <1>1. Taken \cup ToSet(queue) \cup ({fastPacket} \ {None})
        = ToSet(delivered) \cup ToSet(queue) \cup HeldBy(stack) \cup lost
          \cup ({fastPacket} \ {None})
    BY DEF Taken
  <1>2. QED
    BY <1>1 DEF DataInv, HeldOnce, ReadsOnce, NeverLost, TakenInOrder, Sorted, Held, Taken

LEMMA DataPartsNext ==
  DataInv' <=>
    /\ ReadsOnce(stack', delivered', slowPacket')
    /\ IsInjective(delivered') /\ IsInjective(queue') /\ Sorted(queue')
    /\ 1..written' = Taken' \cup ToSet(queue') \cup ({fastPacket'} \ {None})
    /\ \A p \in Taken', q \in ToSet(queue') : p < q
    /\ fastPacket' # None => \A p \in Taken' : p < fastPacket'
  <1>1. Taken' \cup ToSet(queue') \cup ({fastPacket'} \ {None})
        = ToSet(delivered') \cup ToSet(queue') \cup HeldBy(stack') \cup lost'
          \cup ({fastPacket'} \ {None})
    BY DEF Taken
  <1>2. QED
    BY <1>1 DEF DataInv, HeldOnce, ReadsOnce, NeverLost, TakenInOrder, Sorted, Held, Taken

\* A step that moves no packet.
LEMMA NothingMoved ==
  ASSUME DataInv, SameReads(stack', stack),
         UNCHANGED <<queue, fastPacket, slowPacket, written, delivered, lost>>
  PROVE  DataInv'
  <1>1. Taken' = Taken /\ ReadsOnce(stack', delivered, slowPacket)
    BY DataParts DEF SameReads, Taken
  <1>2. QED
    BY <1>1, DataParts, DataPartsNext

LEMMA SameReadsTransitive ==
  ASSUME NEW s, NEW t, NEW u, SameReads(s, t), SameReads(t, u)
  PROVE  SameReads(s, u) /\ SameReads(t, s)
  BY DEF SameReads

\* The calls that are not reads.
Others == Enqueues \cup {"callback_", "unthrottleCallback_", "v_unthrottleEvent"}

\* A call that is not a read is made.
LEMMA CallOther ==
  ASSUME NEW s \in Seq(Frame), NEW at \in Others, NEW p \in Nat, NEW n \in Nat
  PROVE  /\ <<Call(at, p, n)>> \o s \in Seq(Frame)
         /\ SameReads(<<Call(at, p, n)>> \o s, s)
  <1>1. at \in Ats /\ at \notin Reads
    BY DEF Others, Ats, Enqueues, Reads
  <1>2. Call(at, p, n) \in Frame /\ Call(at, p, n).at \notin Reads
    BY <1>1, CallFields
  <1> DEFINE c == Call(at, p, n)
  <1> HIDE DEF c
  <1>3. <<c>> \o s \in Seq(Frame) /\ IsPush(<<c>> \o s, c, s)
    BY <1>2, Push DEF c
  <1>4. SameReads(<<c>> \o s, s)
    BY <1>2, <1>3, PushOther DEF c
  <1>5. QED
    BY <1>3, <1>4 DEF c

\* The innermost call returns, and is not a read.
LEMMA ReturnOther ==
  ASSUME TypeOK, stack # << >>, Head(stack).at \notin Reads
  PROVE  Tail(stack) \in Seq(Frame) /\ SameReads(Tail(stack), stack)
  <1>1. stack \in Seq(Frame)
    BY Calls
  <1>2. /\ Tail(stack) \in Seq(Frame) /\ IsPush(stack, stack[1], Tail(stack))
        /\ Head(stack) = stack[1]
    BY <1>1, Pop
  <1>3. SameReads(stack, Tail(stack))
    BY <1>2, PushOther
  <1>4. QED
    BY <1>2, <1>3 DEF SameReads

\* The handler is called, or not.
LEMMA EmitOther ==
  ASSUME NEW s \in Seq(Frame)
  PROVE  SameReads(Emit(s), s)
  <1>1. "callback_" \in Others /\ None \in Nat /\ 0 \in Nat
    BY DEF Others, None
  <1>2. SameReads(<<Call("callback_", None, 0)>> \o s, s)
    BY <1>1, CallOther
  <1>3. SameReads(s, s)
    BY DEF SameReads
  <1>4. QED
    BY <1>2, <1>3 DEF Emit

\* The source is notified, or not, and the loop begins.
LEMMA EmitUnthrottleOther ==
  ASSUME NEW s \in Seq(Frame), EmitUnthrottle(s)
  PROVE  SameReads(stack', s)
  <1> DEFINE l == <<Call("v_unthrottleEvent", None, 0)>> \o s
             w == <<Call("unthrottleCallback_", None, 0)>> \o l
  <1>1. /\ "unthrottleCallback_" \in Others /\ "v_unthrottleEvent" \in Others
        /\ None \in Nat /\ 0 \in Nat
    BY DEF Others, None
  <1>2. l \in Seq(Frame) /\ SameReads(l, s)
    BY <1>1, CallOther
  <1>3. stack' = w \/ stack' = l
    BY DEF EmitUnthrottle
  <1> HIDE DEF l
  <1>4. SameReads(w, l)
    BY <1>1, <1>2, CallOther
  <1>5. QED
    BY <1>2, <1>3, <1>4, SameReadsTransitive

\* What a write does to the packets: the new one is put behind those that wait.
LEMMA WriteFacts ==
  ASSUME ControlInv, Write
  PROVE  /\ fastPacket = None
         /\ written' = written + 1 /\ written \in Nat /\ written' \in Nat
         /\ UNCHANGED <<slowPacket, delivered, lost, peer>>
         /\ queue \in Seq(Nat)
         /\ queue' = IF queue = << >> THEN queue ELSE Append(queue, written')
         /\ fastPacket' = IF queue = << >> THEN written' ELSE None
         /\ SameReads(stack', stack)
  <1>1. TypeOK
    BY DEF ControlInv
  <1>2. /\ stack \in Seq(Frame) /\ Len(stack) \in Nat
        /\ (stack = << >>) <=> (Len(stack) = 0)
        /\ stack # << >> => Head(stack) = stack[1]
    BY <1>1, Calls
  <1>3. fastPacket = None
    BY <1>2 DEF Write, InSource, In, ControlInv, FastAlone, OnFastPath
  <1> DEFINE at == IF queue = << >> THEN "enqueue_fast" ELSE "enqueue"
             s == <<Call(at, written', 0)>> \o stack
  <1>4. /\ written' = written + 1 /\ written \in Nat /\ written' \in Nat
        /\ UNCHANGED <<slowPacket, delivered, lost>>
        /\ queue \in Seq(Nat)
        /\ queue' = IF queue = << >> THEN queue ELSE Append(queue, written')
        /\ fastPacket' = IF queue = << >> THEN written' ELSE None
        /\ stack' = Emit(s)
    <2>1. written \in Nat /\ queue \in Seq(Nat)
      BY <1>1 DEF TypeOK
    <2>2. /\ written' = written + 1
          /\ UNCHANGED <<slowPacket, delivered, lost>>
      BY DEF Write
    <2>3. CASE queue = << >>
      <3>1. at = "enqueue_fast"
        BY <2>3
      <3>2. /\ fastPacket' = written' /\ queue' = queue
            /\ stack' = Emit(<<Call("enqueue_fast", written', 0)>> \o stack)
        BY <2>3 DEF Write
      <3>3. QED
        BY <2>1, <2>2, <2>3, <3>1, <3>2
    <2>4. CASE queue # << >>
      <3>1. at = "enqueue"
        BY <2>4
      <3>2. /\ fastPacket' = fastPacket /\ queue' = Append(queue, written')
            /\ stack' = Emit(<<Call("enqueue", written', 0)>> \o stack)
        BY <2>4 DEF Write
      <3>3. QED
        BY <1>3, <2>1, <2>2, <2>4, <3>1, <3>2
    <2>5. QED
      BY <2>3, <2>4
  <1>5. SameReads(stack', stack)
    <2>1. at \in Others
      BY DEF Others, Enqueues
    <2>2. s \in Seq(Frame) /\ SameReads(s, stack)
      <3> HIDE DEF at
      <3>1. QED
        BY <1>2, <1>4, <2>1, CallOther
    <2>3. SameReads(Emit(s), s)
      <3> HIDE DEF s
      <3>1. QED
        BY <2>2, EmitOther
    <2>4. QED
      BY <1>4, <2>2, <2>3, SameReadsTransitive
  <1> HIDE DEF at, s
  <1>6. peer' = peer
    BY DEF Write, throttleVars
  <1>7. QED
    BY <1>3, <1>4, <1>5, <1>6

LEMMA WriteData ==
  ASSUME PassiveInputAssumption, ControlInv, DataInv, Write
  PROVE  DataInv'
  <1>3. fastPacket = None
    BY WriteFacts
  <1>4. /\ written' = written + 1 /\ written \in Nat /\ written' \in Nat
        /\ UNCHANGED <<slowPacket, delivered, lost>>
        /\ queue \in Seq(Nat)
        /\ queue' = IF queue = << >> THEN queue ELSE Append(queue, written')
        /\ fastPacket' = IF queue = << >> THEN written' ELSE None
    BY WriteFacts
  <1>5. SameReads(stack', stack)
    BY WriteFacts
  <1>6. /\ ReadsOnce(stack, delivered, slowPacket)
        /\ IsInjective(delivered) /\ IsInjective(queue) /\ Sorted(queue)
        /\ 1..written = Taken \cup ToSet(queue)
        /\ \A p \in Taken, q \in ToSet(queue) : p < q
    <2>1. {fastPacket} \ {None} = {}
      BY <1>3
    <2>2. QED
      BY <2>1, DataParts
  <1>7. /\ Taken' = Taken
        /\ ReadsOnce(stack', delivered', slowPacket') /\ IsInjective(delivered')
    BY <1>4, <1>5, <1>6 DEF SameReads, Taken
  <1>8. /\ 1..written' = Taken \cup ToSet(queue) \cup {written'}
        /\ \A p \in Taken \cup ToSet(queue) : p < written'
    BY <1>4, <1>6
  <1>9. CASE queue = << >>
    <2>1. ToSet(queue) = {}
      BY <1>9 DEF ToSet
    <2>2. written' # None
      BY <1>4 DEF None
    <2>3. QED
      BY <1>4, <1>6, <1>7, <1>8, <1>9, <2>1, <2>2, DataPartsNext
  <1>10. CASE queue # << >>
    <2>1. /\ ToSet(Append(queue, written')) = ToSet(queue) \cup {written'}
          /\ IsInjective(queue) /\ written' \notin ToSet(queue)
             => IsInjective(Append(queue, written'))
          /\ Sorted(queue) /\ (\A x \in ToSet(queue) : x < written')
             => Sorted(Append(queue, written'))
      BY <1>4, AppendPackets
    <2>2. written' \notin ToSet(queue)
      BY <1>4, <1>8
    <2>3. queue' = Append(queue, written') /\ fastPacket' = None
      BY <1>4, <1>10
    <2>4. QED
      BY <1>6, <1>7, <1>8, <2>1, <2>2, <2>3, DataPartsNext
  <1>11. QED
    BY <1>9, <1>10

\* The end of enqueue() takes a packet nobody has read from the fast path to the queue.
LEMMA EnqueuedFacts ==
  ASSUME ControlInv, Enqueued
  PROVE  /\ TypeOK /\ SameReads(stack', stack)
         /\ UNCHANGED <<slowPacket, written, delivered, lost>>
         /\ fastPacket = None => UNCHANGED <<queue, fastPacket>>
         /\ fastPacket # None =>
              queue = << >> /\ queue' = Append(queue, fastPacket) /\ fastPacket' = None
  <1>1. TypeOK /\ stack # << >> /\ stack' = Tail(stack)
    BY DEF ControlInv, Enqueued, In
  <1>2. Head(stack).at \in Enqueues
    BY DEF Enqueued, In, Enqueues
  <1>3. SameReads(stack', stack)
    <2>1. Head(stack).at \notin Reads
      BY <1>2 DEF Enqueues, Reads
    <2>2. QED
      BY <1>1, <2>1, ReturnOther
  <1>4. UNCHANGED <<slowPacket, written, delivered, lost>>
    BY DEF Enqueued, history
  <1>5. fastPacket = None => UNCHANGED <<queue, fastPacket>>
    BY DEF Enqueued
  <1>6. ASSUME fastPacket # None
        PROVE  queue = << >> /\ queue' = Append(queue, fastPacket) /\ fastPacket' = None
    <2>1. Head(stack) = stack[1]
      BY <1>1, Calls
    <2>2. /\ queue = << >> /\ stack[1].at = "enqueue_fast" /\ stack[1].p = fastPacket
      BY <1>2, <1>6, <2>1 DEF ControlInv, FastAlone, OnFastPath, Enqueues
    <2>3. queue' = Append(queue, fastPacket) /\ fastPacket' = None
      BY <1>1, <1>6, <2>1, <2>2 DEF Enqueued, In
    <2>4. QED
      BY <2>2, <2>3
  <1>7. QED
    BY <1>1, <1>3, <1>4, <1>5, <1>6

LEMMA EnqueuedData ==
  ASSUME PassiveInputAssumption, ControlInv, DataInv, Enqueued
  PROVE  DataInv'
  <1>1. TypeOK
    BY EnqueuedFacts
  <1>3. SameReads(stack', stack)
    BY EnqueuedFacts
  <1>4. UNCHANGED <<slowPacket, written, delivered, lost>>
    BY EnqueuedFacts
  <1>5. CASE fastPacket = None
    <2>1. UNCHANGED <<queue, fastPacket>>
      BY <1>5, EnqueuedFacts
    <2>2. QED
      BY <1>3, <1>4, <2>1, NothingMoved
  <1>6. CASE fastPacket # None
    <2>2. queue = << >>
      BY <1>6, EnqueuedFacts
    <2>3. queue' = Append(queue, fastPacket) /\ fastPacket' = None
      BY <1>6, EnqueuedFacts
    <2>4. Taken' = Taken /\ ReadsOnce(stack', delivered', slowPacket')
      BY <1>3, <1>4, DataParts DEF SameReads, Taken
    <2>5. queue \in Seq(Nat) /\ fastPacket \in Nat
      BY <1>1 DEF TypeOK
    <2>6. /\ ToSet(Append(queue, fastPacket)) = ToSet(queue) \cup {fastPacket}
          /\ IsInjective(queue) /\ fastPacket \notin ToSet(queue)
             => IsInjective(Append(queue, fastPacket))
          /\ Sorted(queue) /\ (\A x \in ToSet(queue) : x < fastPacket)
             => Sorted(Append(queue, fastPacket))
      BY <2>5, AppendPackets
    <2>7. ToSet(queue) = {}
      BY <2>2 DEF ToSet
    <2>8. /\ IsInjective(queue') /\ Sorted(queue') /\ ToSet(queue') = {fastPacket}
          /\ IsInjective(delivered')
      BY <1>4, <2>3, <2>6, <2>7, DataParts
    <2>9. 1..written' = Taken' \cup ToSet(queue') \cup ({fastPacket'} \ {None})
      BY <1>4, <1>6, <2>3, <2>4, <2>7, <2>8, DataParts
    <2>10. QED
      BY <1>6, <2>3, <2>4, <2>8, <2>9, DataParts, DataPartsNext
  <1>7. QED
    BY <1>5, <1>6

\* The steps that leave the packets where they are.
LEMMA OtherFacts ==
  ASSUME ControlInv,
         \/ Throttle \/ Unthrottle
         \/ \E r \in Route : NotifyThrottle(r) \/ NotifyUnthrottle(r)
         \/ UnthrottleEvent \/ CallbackReturn \/ UnthrottleCallbackReturn
  PROVE  /\ UNCHANGED <<queue, fastPacket, slowPacket, written, delivered, lost>>
         /\ SameReads(stack', stack)
  <1>1. UNCHANGED <<queue, fastPacket, slowPacket, written, delivered, lost>>
    BY DEF Throttle, Unthrottle, NotifyThrottle, NotifyUnthrottle, UnthrottleEvent,
           CallbackReturn, UnthrottleCallbackReturn, packetVars, history
  <1>2. TypeOK /\ stack \in Seq(Frame)
    BY Calls DEF ControlInv
  <1>3. SameReads(stack, stack)
    BY DEF SameReads
  <1>4. CASE Throttle \/ \E r \in Route : NotifyThrottle(r)
    <2>1. stack' = stack
      BY <1>4 DEF Throttle, NotifyThrottle
    <2>2. QED
      BY <1>1, <1>3, <2>1
  <1>5. CASE Unthrottle \/ \E r \in Route : NotifyUnthrottle(r)
    <2>1. EmitUnthrottle(stack) \/ stack' = stack
      BY <1>5 DEF Unthrottle, NotifyUnthrottle, SetUnthrottle
    <2>2. SameReads(stack', stack)
      BY <1>2, <1>3, <2>1, EmitUnthrottleOther
    <2>3. QED
      BY <1>1, <2>2
  <1>6. CASE CallbackReturn \/ UnthrottleCallbackReturn
    <2>1. stack # << >> /\ stack' = Tail(stack) /\ Head(stack).at \notin Reads
      BY <1>6 DEF CallbackReturn, UnthrottleCallbackReturn, In, Reads
    <2>2. SameReads(stack', stack)
      BY <1>2, <2>1, ReturnOther
    <2>3. QED
      BY <1>1, <2>2
  <1>7. CASE UnthrottleEvent
    <2> DEFINE n == QueueSize(queue, fastPacket)
               r == Tail(stack)
               s == <<Call("v_unthrottleEvent", None, n)>> \o r
    <2>1. stack # << >> /\ Head(stack).at \notin Reads
      BY <1>7 DEF UnthrottleEvent, In, Reads
    <2>2. r \in Seq(Frame) /\ SameReads(r, stack)
      BY <1>2, <2>1, ReturnOther
    <2>3. "v_unthrottleEvent" \in Others /\ None \in Nat /\ n \in Nat
      <3>1. queue \in Seq(Nat)
        BY <1>2 DEF TypeOK
      <3>2. Len(queue) \in Nat
        BY <3>1
      <3>3. n \in Nat
        BY <3>2 DEF QueueSize
      <3>4. QED
        BY <3>3 DEF Others, None
    <2>4. stack' = r \/ stack' = Emit(s)
      BY <1>7 DEF UnthrottleEvent
    <2> HIDE DEF n, r
    <2>5. s \in Seq(Frame) /\ SameReads(s, r)
      BY <2>2, <2>3, CallOther
    <2> HIDE DEF s
    <2>6. SameReads(Emit(s), s)
      BY <2>5, EmitOther
    <2>7. SameReads(stack', stack)
      BY <2>2, <2>4, <2>5, <2>6 DEF SameReads
    <2>8. QED
      BY <1>1, <2>7
  <1>8. QED
    BY <1>4, <1>5, <1>6, <1>7

LEMMA OtherData ==
  ASSUME PassiveInputAssumption, ControlInv, DataInv,
         \/ Throttle \/ Unthrottle
         \/ \E r \in Route : NotifyThrottle(r) \/ NotifyUnthrottle(r)
         \/ UnthrottleEvent \/ CallbackReturn \/ UnthrottleCallbackReturn
  PROVE  DataInv'
  BY OtherFacts, NothingMoved

\* The handler that reads holds what it has held before.
LEMMA TakingOther ==
  ASSUME TypeOK, WellNested(stack), InModule
  PROVE  SameReads(Taking, stack)
  <1>1. /\ Len(Taking) = Len(stack) /\ Len(stack) \in Nat
        /\ Len(stack) > 0 => stack[1].at = "callback_" /\ Taking[1].at = "callback_"
        /\ \A i \in 2..Len(stack) : Taking[i] = stack[i]
    BY TakingCalls, Calls
  <1>2. \A i \in 1..Len(stack) : i = 1 \/ i \in 2..Len(stack)
    BY <1>1
  <1>3. \A i \in 1..Len(Taking) : \/ Taking[i] = stack[i]
                                  \/ Taking[i].at \notin Reads /\ stack[i].at \notin Reads
    BY <1>1, <1>2 DEF Reads
  <1>4. QED
    BY <1>1, <1>3, OtherCalls

\* A read on the fast path holds the packet it has taken.
LEMMA ReadFastHeld ==
  ASSUME PassiveInputAssumption, Low = 0, ControlInv, ReadFast
  PROVE  /\ HeldBy(stack') = HeldBy(stack) \cup {fastPacket}
         /\ ReadsOnce(stack', delivered, slowPacket) <=>
              /\ ReadsOnce(stack, delivered, slowPacket)
              /\ fastPacket \notin ToSet(delivered) /\ fastPacket \notin HeldBy(stack)
  <1> DEFINE c == Call("read_fast", fastPacket, 0)
  <1>1. /\ queue = << >> /\ fastPacket \in Nat /\ fastPacket # None /\ fastPacket' = None
        /\ stack' = <<c>> \o Taking /\ InModule
        /\ UNCHANGED <<queue, slowPacket, written, delivered, lost>>
    BY ReadFastFacts
  <1>2. TypeOK /\ WellNested(stack)
    BY DEF ControlInv
  <1>3. SameReads(Taking, stack) /\ Taking \in Seq(Frame)
    BY <1>1, <1>2, TakingOther, TakingCalls
  <1>4. c \in Frame /\ c.at = "read_fast" /\ c.p = fastPacket /\ c.at \in Reads
    <2>1. "read_fast" \in Ats /\ "read_fast" \in Reads /\ 0 \in Nat
      BY DEF Ats, Reads
    <2>2. QED
      BY <1>1, <2>1, CallFields
  <1> HIDE DEF c
  <1>5. IsPush(stack', c, Taking)
    BY <1>1, <1>3, <1>4, Push
  <1>6. /\ HeldBy(stack') = HeldBy(Taking) \cup {fastPacket}
        /\ ReadsOnce(stack', delivered, slowPacket) <=>
             /\ ReadsOnce(Taking, delivered, slowPacket)
             /\ fastPacket \notin ToSet(delivered) /\ fastPacket \notin HeldBy(Taking)
    BY <1>4, <1>5, PushHeld
  <1>7. QED
    BY <1>3, <1>6 DEF SameReads

LEMMA ReadFastData ==
  ASSUME PassiveInputAssumption, Low = 0, ControlInv, DataInv, ReadFast
  PROVE  DataInv'
  <1>1. /\ queue = << >> /\ fastPacket \in Nat /\ fastPacket # None /\ fastPacket' = None
        /\ UNCHANGED <<queue, slowPacket, written, delivered, lost>>
    BY ReadFastFacts
  <1>7. fastPacket \notin Taken
    BY <1>1, DataParts
  <1>8. /\ Taken' = Taken \cup {fastPacket}
        /\ ReadsOnce(stack', delivered', slowPacket')
    BY <1>1, <1>7, ReadFastHeld, DataParts DEF Taken
  <1>9. ToSet(queue') = {} /\ ToSet(queue) = {}
    BY <1>1 DEF ToSet
  <1>10. 1..written' = Taken' \cup ToSet(queue') \cup ({fastPacket'} \ {None})
    BY <1>1, <1>8, <1>9, DataParts
  <1>11. QED
    BY <1>1, <1>8, <1>9, <1>10, DataParts, DataPartsNext

\* A read from the queue holds the packet it has taken.
LEMMA ReadSlowHeld ==
  ASSUME PassiveInputAssumption, Low = 0, ControlInv, ReadSlow
  PROVE  HeldBy(stack') = HeldBy(stack) \cup {Head(queue)}
  <1>1. /\ InModule /\ Reading[1].at = "read_slow" /\ Reading[1].p = Head(queue)
        /\ IsPush(Reading, Reading[1], Taking) /\ Reading \in Seq(Frame)
        /\ stack' = Reading \/ EmitUnthrottle(Reading)
    BY ReadSlowFacts
  <1>2. HeldBy(Taking) = HeldBy(stack)
    BY <1>1, TakingOther DEF ControlInv, SameReads
  <1>3. HeldBy(Reading) = HeldBy(Taking) \cup {Head(queue)}
    <2>1. Reading[1].at \in Reads
      BY <1>1 DEF Reads
    <2>2. QED
      BY <1>1, <2>1, PushHeld
  <1>4. HeldBy(stack') = HeldBy(Reading)
    BY <1>1, EmitUnthrottleOther DEF SameReads
  <1>5. QED
    BY <1>2, <1>3, <1>4

LEMMA ReadSlowData ==
  ASSUME PassiveInputAssumption, Low = 0, ControlInv, DataInv, ReadSlow
  PROVE  DataInv'
  <1> DEFINE p == Head(queue)
  <1>1. /\ queue \in Seq(Nat) /\ queue # << >>
        /\ queue' = Tail(queue) /\ slowPacket' = p
        /\ fastPacket = None /\ fastPacket' = None /\ InModule
        /\ UNCHANGED <<written, delivered, lost>>
        /\ Reading \in Seq(Frame) /\ Reading # << >>
        /\ Reading[1].at = "read_slow" /\ Reading[1].p = p
        /\ IsPush(Reading, Reading[1], Taking)
        /\ ~Nested(Reading, 1)
        /\ stack' = Reading \/ EmitUnthrottle(Reading)
    BY ReadSlowFacts
  <1>2. TypeOK /\ WellNested(stack)
    BY DEF ControlInv
  <1>3. SameReads(Taking, stack)
    BY <1>1, <1>2, TakingOther
  <1>4. SameReads(stack', Reading)
    <2>1. SameReads(Reading, Reading)
      BY DEF SameReads
    <2>2. QED
      BY <1>1, <2>1, EmitUnthrottleOther
  <1>5. /\ Tail(queue) \in Seq(Nat) /\ p \in Nat
        /\ ToSet(queue) = ToSet(Tail(queue)) \cup {p}
        /\ Sorted(Tail(queue)) /\ \A x \in ToSet(Tail(queue)) : p < x
    BY <1>1, TailPackets, DataParts
  <1> HIDE DEF p
  <1>6. ReadsOnce(Taking, delivered, p)
    <2>1. /\ Len(Reading) = Len(Taking) + 1 /\ Len(Taking) \in Nat
          /\ \A i \in 1..Len(Taking) : Reading[i + 1] = Taking[i]
      BY <1>1, PushTop DEF IsPush
    <2>2. \A i \in 1..Len(Taking) : i + 1 \in (1 + 1)..Len(Reading)
      BY <2>1
    <2>3. \A i \in 1..Len(Taking) : Taking[i].at \notin Reads
      BY <1>1, <2>1, <2>2 DEF Nested
    <2>4. QED
      BY <2>3 DEF ReadsOnce
  <1>7. p \in ToSet(queue) /\ p \notin Taken
    <2>1. p \in ToSet(queue) /\ \A x \in Taken : x < p
      BY <1>5, DataParts
    <2>2. ~(p < p)
      BY <1>5
    <2>3. QED
      BY <2>1, <2>2
  <1>8. HeldBy(Reading) = HeldBy(stack) \cup {p} /\ ReadsOnce(Reading, delivered, p)
    <2>1. Reading[1].at \in Reads
      BY <1>1 DEF Reads
    <2>2. /\ HeldBy(Reading) = HeldBy(Taking) \cup {p}
          /\ ReadsOnce(Reading, delivered, p) <=>
               /\ ReadsOnce(Taking, delivered, p) /\ p \notin ToSet(delivered)
               /\ p \notin HeldBy(Taking)
      BY <1>1, <2>1, PushHeld
    <2>3. HeldBy(Taking) = HeldBy(stack)
      BY <1>3 DEF SameReads
    <2>4. p \notin ToSet(delivered) /\ p \notin HeldBy(stack)
      BY <1>7 DEF Taken
    <2>5. QED
      BY <1>6, <2>2, <2>3, <2>4
  <1>9. Taken' = Taken \cup {p} /\ ReadsOnce(stack', delivered', slowPacket')
    BY <1>1, <1>4, <1>8 DEF SameReads, Taken
  <1>10. IsInjective(queue') /\ Sorted(queue') /\ ToSet(queue) = ToSet(queue') \cup {p}
    BY <1>1, <1>5, SortedInjective
  <1>11. 1..written' = Taken' \cup ToSet(queue') \cup ({fastPacket'} \ {None})
    BY <1>1, <1>9, <1>10, DataParts
  <1>12. \A x \in Taken', q \in ToSet(queue') : x < q
    BY <1>1, <1>5, <1>9, <1>10, DataParts
  <1>13. IsInjective(delivered')
    BY <1>1, DataParts
  <1>14. QED
    BY <1>1, <1>9, <1>10, <1>11, <1>12, <1>13, DataPartsNext

\* A read returns the packet it has taken, and no other read has taken it.
LEMMA ReadReturnFacts ==
  ASSUME ControlInv, DataInv, ReadReturn
  PROVE  /\ Returned = stack[1].p /\ stack[1].p \in Nat
         /\ HeldBy(stack) = HeldBy(stack') \cup {stack[1].p}
         /\ stack[1].p \notin ToSet(delivered) /\ stack[1].p \notin HeldBy(stack')
         /\ ReadsOnce(stack', delivered, slowPacket)
  <1> DEFINE p == stack[1].p
  <1>1. /\ stack # << >> /\ stack' = Tail(stack) /\ delivered' = Append(delivered, Returned)
        /\ UNCHANGED <<queue, fastPacket, slowPacket, written, lost>>
    BY DEF ReadReturn, In, packetVars
  <1>2. TypeOK
    BY DEF ControlInv
  <1>3. /\ stack[1] \in Frame /\ IsPush(stack, stack[1], stack') /\ Head(stack) = stack[1]
    <2>1. stack \in Seq(Frame)
      BY <1>2, Calls
    <2>2. QED
      BY <1>1, <2>1, Pop
  <1>4. stack[1].at \in Reads
    BY <1>3 DEF ReadReturn, In, Reads
  <1>5. p \in Nat
    BY <1>3 DEF Frame
  <1>6. /\ HeldBy(stack) = HeldBy(stack') \cup {p}
        /\ \A d, w : ReadsOnce(stack, d, w) <=>
             /\ ReadsOnce(stack', d, w) /\ p \notin ToSet(d) /\ p \notin HeldBy(stack')
             /\ stack[1].at = "read_slow" => p = w
    BY <1>3, <1>4, PushHeld
  <1>7. /\ ReadsOnce(stack', delivered, slowPacket)
        /\ p \notin ToSet(delivered) /\ p \notin HeldBy(stack')
        /\ stack[1].at = "read_slow" => p = slowPacket
    BY <1>6, DataParts
  <1>8. Returned = p
    BY <1>1, <1>3, <1>4, <1>7 DEF Returned, In, Reads
  <1>9. QED
    BY <1>5, <1>6, <1>7, <1>8

LEMMA ReadReturnData ==
  ASSUME PassiveInputAssumption, ControlInv, DataInv, ReadReturn
  PROVE  DataInv'
  <1> DEFINE p == stack[1].p
  <1>1. /\ delivered' = Append(delivered, Returned)
        /\ UNCHANGED <<queue, fastPacket, slowPacket, written, lost>>
    BY DEF ReadReturn, packetVars
  <1>2. TypeOK
    BY DEF ControlInv
  <1>5. p \in Nat
    BY ReadReturnFacts
  <1>6. HeldBy(stack) = HeldBy(stack') \cup {p}
    BY ReadReturnFacts
  <1>7. /\ ReadsOnce(stack', delivered, slowPacket)
        /\ p \notin ToSet(delivered) /\ p \notin HeldBy(stack')
    BY ReadReturnFacts
  <1>8. Returned = p
    BY ReadReturnFacts
  <1>9. delivered \in Seq(Nat)
    BY <1>2 DEF TypeOK
  <1>10. ToSet(delivered') = ToSet(delivered) \cup {p} /\ IsInjective(delivered')
    BY <1>1, <1>5, <1>7, <1>8, <1>9, AppendPackets, DataParts
  <1> HIDE DEF p
  <1>11. Taken' = Taken
    BY <1>1, <1>6, <1>10 DEF Taken
  <1>12. ReadsOnce(stack', delivered', slowPacket')
    <2>1. \A i \in 1..Len(stack') : stack'[i].at \in Reads => stack'[i].p # p
      BY <1>7 DEF HeldBy
    <2>2. QED
      BY <1>1, <1>7, <1>10, <2>1 DEF ReadsOnce
  <1>13. QED
    BY <1>1, <1>10, <1>11, <1>12, DataParts, DataPartsNext

LEMMA ThrowData ==
  ASSUME PassiveInputAssumption, ~OtherExceptions, ControlInv, DataInv, Throw
  PROVE  DataInv'
  <1>1. /\ stack' = << >> /\ fastPacket' = None
        /\ queue' = IF fastPacket = None THEN queue ELSE Append(queue, fastPacket)
        /\ fastPacket # None => queue = << >>
        /\ UNCHANGED <<slowPacket, written, delivered>>
    BY ThrowFacts
  <1>2. lost' = lost \cup HeldBy(stack)
    BY DEF Throw, Held
  <1>3. HeldBy(stack') = {} /\ ReadsOnce(stack', delivered', slowPacket')
    <2>1. Len(stack') = 0
      BY <1>1
    <2>2. 1..Len(stack') = {}
      BY <2>1
    <2>3. QED
      BY <2>2 DEF HeldBy, ReadsOnce
  <1>4. Taken' = Taken
    BY <1>1, <1>2, <1>3 DEF Taken
  <1>5. queue \in Seq(Nat) /\ fastPacket \in Nat
    BY DEF ControlInv, TypeOK
  <1>6. CASE fastPacket = None
    BY <1>1, <1>3, <1>4, <1>6, DataParts, DataPartsNext
  <1>7. CASE fastPacket # None
    <2>1. ToSet(queue) = {}
      BY <1>1, <1>7 DEF ToSet
    <2>2. /\ ToSet(Append(queue, fastPacket)) = ToSet(queue) \cup {fastPacket}
          /\ IsInjective(queue) /\ fastPacket \notin ToSet(queue)
             => IsInjective(Append(queue, fastPacket))
          /\ Sorted(queue) /\ (\A x \in ToSet(queue) : x < fastPacket)
             => Sorted(Append(queue, fastPacket))
      BY <1>5, AppendPackets
    <2>3. /\ IsInjective(queue') /\ Sorted(queue') /\ ToSet(queue') = {fastPacket}
          /\ IsInjective(delivered')
      BY <1>1, <1>7, <2>1, <2>2, DataParts
    <2>4. 1..written' = Taken' \cup ToSet(queue') \cup ({fastPacket'} \ {None})
      BY <1>1, <1>4, <1>7, <2>1, <2>3, DataParts
    <2>5. QED
      BY <1>1, <1>3, <1>4, <1>7, <2>3, <2>4, DataParts, DataPartsNext
  <1>8. QED
    BY <1>6, <1>7

-----------------------------------------------------------------------------
(***************************************************************************)
(* The theorems.                                                           *)
(***************************************************************************)

LEMMA InitInv == Init => IndInv
  <1> SUFFICES ASSUME Init PROVE IndInv
    OBVIOUS
  <1>1. /\ queue = << >> /\ delivered = << >> /\ stack = << >>
        /\ fastPacket = 0 /\ slowPacket = 0 /\ written = 0 /\ lost = {}
        /\ native = FALSE /\ remote = FALSE /\ peer = FALSE /\ left = FALSE /\ routes = {}
    BY DEF Init, None
  <1>2. Len(stack) = 0 /\ 1..Len(stack) = {} /\ Len(queue) = 0 /\ 1..Len(queue) = {}
    BY <1>1
  <1>3. TypeOK
    <2>1. queue \in Seq(Nat) /\ delivered \in Seq(Nat) /\ stack \in Seq(Frame)
      BY <1>1
    <2>2. QED
      BY <1>1, <2>1 DEF TypeOK, Frame
  <1>4. ControlInv
    <2>1. WellNested(stack) /\ FastCallback /\ LoopProgress
      BY <1>2 DEF WellNested, FastCallback, LoopProgress
    <2>2. FastAlone /\ NestedThrottled /\ Draining
      BY <1>1 DEF FastAlone, NestedThrottled, Draining, None
    <2>3. remote = (routes # {}) /\ PeerAgrees
      BY <1>1 DEF PeerAgrees, throttled
    <2>4. QED
      BY <1>3, <2>1, <2>2, <2>3 DEF ControlInv
  <1>5. DataInv
    <2>1. ToSet(queue) = {} /\ ToSet(delivered) = {} /\ HeldBy(stack) = {}
      BY <1>1, <1>2 DEF ToSet, HeldBy
    <2>2. Taken = {} /\ {fastPacket} \ {None} = {} /\ 1..written = {}
      BY <1>1, <2>1 DEF Taken, None
    <2>3. ReadsOnce(stack, delivered, slowPacket) /\ Sorted(queue)
      BY <1>2 DEF ReadsOnce, Sorted
    <2>4. IsInjective(queue) /\ IsInjective(delivered)
      BY <1>1 DEF IsInjective
    <2>5. QED
      BY <1>1, <2>1, <2>2, <2>3, <2>4, DataParts
  <1>6. QED
    BY <1>4, <1>5 DEF IndInv

LEMMA StutterInv ==
  ASSUME IndInv, UNCHANGED vars
  PROVE  IndInv'
  BY DEF IndInv, ControlInv, TypeOK, PeerAgrees, WellNested, FastAlone, FastCallback,
         NestedThrottled, LoopProgress, Draining, DataInv, HeldOnce, NeverLost,
         TakenInOrder, Held, throttled,
         vars, packetVars, throttleVars, history

LEMMA NextInv ==
  ASSUME PassiveInputAssumption, Low = 0, High <= 1 \/ HandlersTake,
         ReadsFirst, ~HandlerUnthrottles, ~OtherExceptions, IndInv, [Next]_vars
  PROVE  IndInv'
  <1>1. ControlInv /\ DataInv
    BY DEF IndInv
  <1>2. CASE Write
    BY <1>1, <1>2, WriteControl, WriteData DEF IndInv
  <1>3. CASE Enqueued
    BY <1>1, <1>3, EnqueuedControl, EnqueuedData DEF IndInv
  <1>4. CASE ReadFast
    BY <1>1, <1>4, ReadFastControl, ReadFastData DEF IndInv
  <1>5. CASE ReadSlow
    BY <1>1, <1>5, ReadSlowControl, ReadSlowData DEF IndInv
  <1>6. CASE ReadReturn
    BY <1>1, <1>6, ReadReturnControl, ReadReturnData DEF IndInv
  <1>7. CASE Throttle \/ \E r \in Route : NotifyThrottle(r)
    <2>1. ControlInv'
      BY <1>1, <1>7, ThrottleControl
    <2>2. DataInv'
      BY <1>1, <1>7, OtherData
    <2>3. QED
      BY <2>1, <2>2 DEF IndInv
  <1>8. CASE Unthrottle \/ \E r \in Route : NotifyUnthrottle(r)
    <2>1. ControlInv'
      BY <1>1, <1>8, UnthrottleControl
    <2>2. DataInv'
      BY <1>1, <1>8, OtherData
    <2>3. QED
      BY <2>1, <2>2 DEF IndInv
  <1>9. CASE UnthrottleEvent
    BY <1>1, <1>9, UnthrottleEventControl, OtherData DEF IndInv
  <1>10. CASE CallbackReturn
    BY <1>1, <1>10, CallbackReturnControl, OtherData DEF IndInv
  <1>11. CASE UnthrottleCallbackReturn
    BY <1>1, <1>11, UnthrottleCallbackReturnControl, OtherData DEF IndInv
  <1>12. CASE Throw
    BY <1>1, <1>12, ThrowControl, ThrowData DEF IndInv
  <1>13. CASE UNCHANGED vars
    BY <1>13, StutterInv
  <1>14. QED
    BY <1>2, <1>3, <1>4, <1>5, <1>6, <1>7, <1>8, <1>9, <1>10, <1>11, <1>12, <1>13 DEF Next

\* The inductive invariant holds for any routes and any number of packets and nested
\* calls, with Low = 0 and either High <= 1, as in the default discipline, or handlers
\* that take a packet whenever there is one, if handlers read before they throttle and do
\* not end a throttling themselves, and throw only exceptions that enqueue() catches.
THEOREM Invariance ==
  ASSUME Low = 0, High <= 1 \/ HandlersTake,
         ReadsFirst, ~HandlerUnthrottles, ~OtherExceptions
  PROVE  Spec => []IndInv
  <1>1. ASSUME IndInv, [Next]_vars
        PROVE  IndInv'
    BY <1>1, NextInv, PassiveInputAssumption
  <1>2. QED
    BY <1>1, InitInv, PTL DEF Spec

\* InputConnector::enqueue() and operator() lose no packet and return none twice.
THEOREM PacketsKept ==
  ASSUME Low = 0, High <= 1 \/ HandlersTake,
         ReadsFirst, ~HandlerUnthrottles, ~OtherExceptions
  PROVE  Spec => []NeverLost
  <1>1. IndInv => NeverLost
    BY DEF IndInv, DataInv
  <1>2. QED
    BY <1>1, Invariance, PTL

\* InputConnector::operator() returns packets in the order they were written: whatever it
\* has taken is older than what is left.
THEOREM OrderKept ==
  ASSUME Low = 0, High <= 1 \/ HandlersTake,
         ReadsFirst, ~HandlerUnthrottles, ~OtherExceptions
  PROVE  Spec => []TakenInOrder
  <1>1. IndInv => TakenInOrder
    BY DEF IndInv, DataInv
  <1>2. QED
    BY <1>1, Invariance, PTL

\* The source is always in the state the input is in: every emitThrottle() and
\* emitUnthrottle() is sent once, in order.
THEOREM SourceInStep ==
  ASSUME Low = 0, High <= 1 \/ HandlersTake,
         ReadsFirst, ~HandlerUnthrottles, ~OtherExceptions
  PROVE  Spec => []PeerAgrees
  <1>1. IndInv => PeerAgrees
    BY DEF IndInv, ControlInv
  <1>2. QED
    BY <1>1, Invariance, PTL

\* v_unthrottleEvent() leaves no packet in the queue of an input that is not throttled,
\* other than those that an exception or a handler that takes none leaves there.
THEOREM QueueDrained ==
  ASSUME Low = 0, High <= 1 \/ HandlersTake,
         ReadsFirst, ~HandlerUnthrottles, ~OtherExceptions
  PROVE  Spec => []Drained
  <1>1. IndInv => Drained
    BY DEF IndInv, ControlInv, Draining, Drained
  <1>2. QED
    BY <1>1, Invariance, PTL

-----------------------------------------------------------------------------
(***************************************************************************)
(* The connection implements PacketChannel.                                *)
(***************************************************************************)

\* A step that leaves the packets where they are may stop the source or let it go on.
LEMMA ChannelStays ==
  ASSUME peer \in BOOLEAN, peer' \in BOOLEAN, Waiting' = Waiting, HeldBy(stack') = HeldBy(stack),
         UNCHANGED <<written, delivered>>
  PROVE  [Channel!Next]_(Channel!vars)
  <1>1. Held' = Held
    BY DEF Held
  <1>2. peer' = peer \/ peer' = ~peer
    OBVIOUS
  <1>3. QED
    BY <1>1, <1>2 DEF Channel!Next, Channel!Notify, Channel!vars

LEMMA ChannelWrite ==
  ASSUME ControlInv, Write
  PROVE  Channel!Write
  <1>1. Waiting = queue /\ Waiting' = Append(queue, written')
    BY WriteFacts DEF Waiting, None
  <1>2. Held' = Held
    BY WriteFacts DEF Held, SameReads
  <1>3. written' = written + 1 /\ UNCHANGED <<delivered, peer>>
    BY WriteFacts
  <1>4. QED
    BY <1>1, <1>2, <1>3 DEF Channel!Write

\* The packet on the fast path is the only one that waits.
LEMMA ChannelReadFast ==
  ASSUME PassiveInputAssumption, Low = 0, ControlInv, ReadFast
  PROVE  Channel!Read
  <1>1. /\ queue = << >> /\ fastPacket \in Nat /\ fastPacket # None /\ fastPacket' = None
        /\ UNCHANGED <<queue, written, delivered>>
    BY ReadFastFacts
  <1>2. Waiting = <<fastPacket>> /\ Waiting' = << >>
    BY <1>1 DEF Waiting
  <1>3. Waiting # << >> /\ Waiting' = Tail(Waiting) /\ Head(Waiting) = fastPacket
        /\ Len(Waiting') <= Low
    BY <1>2
  <1>4. Held' = Held \cup {Head(Waiting)}
    BY <1>3, ReadFastHeld DEF Held
  <1>5. peer' = peer \/ peer' = FALSE
    BY DEF ReadFast, Dequeued, SetUnthrottle, EmitUnthrottle
  <1>6. QED
    BY <1>1, <1>3, <1>4, <1>5 DEF Channel!Read

LEMMA ChannelReadSlow ==
  ASSUME PassiveInputAssumption, Low = 0, ControlInv, ReadSlow
  PROVE  Channel!Read
  <1>1. /\ queue \in Seq(Nat) /\ queue # << >> /\ queue' = Tail(queue)
        /\ fastPacket = None /\ fastPacket' = None /\ UNCHANGED <<written, delivered>>
    BY ReadSlowFacts
  <1>2. Waiting = queue /\ Waiting' = queue'
    BY <1>1 DEF Waiting
  <1>3. Held' = Held \cup {Head(queue)}
    BY ReadSlowHeld DEF Held
  <1>4. peer' = peer \/ (peer' = FALSE /\ Len(queue') <= Low)
    <2>1. QueueSize(queue', fastPacket') = Len(queue') + 0
      BY <1>1 DEF QueueSize
    <2>2. Len(queue') + 0 = Len(queue')
      BY <1>1
    <2>3. QED
      BY <2>1, <2>2 DEF ReadSlow, Dequeued, SetUnthrottle, EmitUnthrottle
  <1>5. QED
    BY <1>1, <1>2, <1>3, <1>4 DEF Channel!Read

LEMMA ChannelReturn ==
  ASSUME ControlInv, DataInv, ReadReturn
  PROVE  Channel!Return
  <1>1. /\ delivered' = Append(delivered, Returned)
        /\ UNCHANGED <<queue, fastPacket, written, peer>>
    BY DEF ReadReturn, packetVars, throttleVars
  <1>2. Returned \in Held /\ Held' = Held \ {Returned}
    BY ReadReturnFacts DEF Held
  <1>3. Waiting' = Waiting
    BY <1>1 DEF Waiting
  <1>4. QED
    BY <1>1, <1>2, <1>3 DEF Channel!Return

LEMMA ChannelThrow ==
  ASSUME PassiveInputAssumption, ~OtherExceptions, ControlInv, Throw
  PROVE  Channel!Throw
  <1>1. /\ stack' = << >> /\ fastPacket' = None
        /\ queue' = IF fastPacket = None THEN queue ELSE Append(queue, fastPacket)
        /\ UNCHANGED <<peer, written, delivered>>
    BY ThrowFacts
  <1>2. Waiting' = Waiting
    BY <1>1 DEF Waiting
  <1>3. Held' = {}
    <2>1. 1..Len(stack') = {}
      BY <1>1
    <2>2. QED
      BY <2>1 DEF Held, HeldBy
  <1>4. QED
    BY <1>1, <1>2, <1>3 DEF Channel!Throw

\* Every step is one of the channel or changes nothing it speaks of.
LEMMA ChannelStep ==
  ASSUME PassiveInputAssumption, Low = 0, ~OtherExceptions, IndInv, IndInv', [Next]_vars
  PROVE  [Channel!Next]_(Channel!vars)
  <1>1. ControlInv /\ DataInv /\ peer \in BOOLEAN /\ peer' \in BOOLEAN
    BY DEF IndInv, ControlInv, TypeOK
  <1>2. CASE Write
    BY <1>1, <1>2, ChannelWrite DEF Channel!Next
  <1>3. CASE Enqueued
    <2>1. Waiting' = Waiting
      BY <1>1, <1>3, EnqueuedFacts DEF Waiting
    <2>2. HeldBy(stack') = HeldBy(stack) /\ UNCHANGED <<written, delivered>>
      BY <1>1, <1>3, EnqueuedFacts DEF SameReads
    <2>3. QED
      BY <1>1, <2>1, <2>2, ChannelStays
  <1>4. CASE ReadFast
    BY <1>1, <1>4, ChannelReadFast DEF Channel!Next
  <1>5. CASE ReadSlow
    BY <1>1, <1>5, ChannelReadSlow DEF Channel!Next
  <1>6. CASE ReadReturn
    BY <1>1, <1>6, ChannelReturn DEF Channel!Next
  <1>7. CASE \/ Throttle \/ Unthrottle
             \/ \E r \in Route : NotifyThrottle(r) \/ NotifyUnthrottle(r)
             \/ UnthrottleEvent \/ CallbackReturn \/ UnthrottleCallbackReturn
    <2>1. /\ UNCHANGED <<queue, fastPacket, written, delivered>>
          /\ HeldBy(stack') = HeldBy(stack)
      BY <1>1, <1>7, OtherFacts DEF SameReads
    <2>2. Waiting' = Waiting
      BY <2>1 DEF Waiting
    <2>3. QED
      BY <1>1, <2>1, <2>2, ChannelStays
  <1>8. CASE Throw
    BY <1>1, <1>8, ChannelThrow DEF Channel!Next
  <1>9. CASE UNCHANGED vars
    <2>1. UNCHANGED <<queue, fastPacket, written, delivered, stack>>
      BY <1>9 DEF vars, packetVars, history
    <2>2. Waiting' = Waiting /\ HeldBy(stack') = HeldBy(stack)
      BY <2>1 DEF Waiting
    <2>3. QED
      BY <1>1, <2>1, <2>2, ChannelStays
  <1>10. QED
    BY <1>2, <1>3, <1>4, <1>5, <1>6, <1>7, <1>8, <1>9 DEF Next

\* A connection hands packets over as PacketChannel does: InputConnector::enqueue() and
\* operator() deliver every packet once and in the order of the writes, from the fast path
\* and from the queue.
THEOREM ChannelRefined ==
  ASSUME Low = 0, High <= 1 \/ HandlersTake,
         ReadsFirst, ~HandlerUnthrottles, ~OtherExceptions
  PROVE  Spec => ImplementsChannel
  <1>1. Init => Channel!Init
    <2> SUFFICES ASSUME Init PROVE Channel!Init
      OBVIOUS
    <2>1. /\ queue = << >> /\ fastPacket = None /\ stack = << >>
          /\ written = 0 /\ delivered = << >> /\ peer = FALSE
      BY DEF Init
    <2>2. 1..Len(stack) = {}
      BY <2>1
    <2>3. Waiting = << >> /\ Held = {}
      BY <2>1, <2>2 DEF Waiting, Held, HeldBy
    <2>4. QED
      BY <2>1, <2>3 DEF Channel!Init
  <1>2. ASSUME IndInv, IndInv', [Next]_vars
        PROVE  [Channel!Next]_(Channel!vars)
    BY <1>2, ChannelStep, PassiveInputAssumption
  <1>3. QED
    BY <1>1, <1>2, Invariance, PTL DEF Spec, ImplementsChannel, Channel!Spec

=============================================================================
