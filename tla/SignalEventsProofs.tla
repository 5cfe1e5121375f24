------------------------- MODULE SignalEventsProofs -------------------------
(***************************************************************************)
(* Signal events for every set of events and signals: the signal mask and  *)
(* the registrations agree, and every call of a callback stands for a      *)
(* signal of its own, wherever signals are delivered and exceptions are    *)
(* thrown.                                                                 *)
(***************************************************************************)
EXTENDS SignalEvents, FiniteSetTheorems, SequenceTheorems, TLAPS

USE SignalAssumption

-----------------------------------------------------------------------------
(***************************************************************************)
(* The records of a signal in the pipe.                                    *)
(***************************************************************************)

Records(q, s) == {i \in 1..Len(q) : q[i] = s}

LEMMA RecordsFinite ==
  ASSUME NEW q \in Seq(Signals), NEW s
  PROVE  IsFiniteSet(Records(q, s)) /\ Cardinality(Records(q, s)) \in Nat
<1>1. IsFiniteSet(1..Len(q))
  BY FS_Interval
<1> QED
  BY <1>1, FS_Subset, FS_CardinalityType DEF Records

\* The signal handler appends a record.
LEMMA RecordsAppend ==
  ASSUME NEW q \in Seq(Signals), NEW x \in Signals, NEW s
  PROVE  Cardinality(Records(Append(q, x), s)) =
           Cardinality(Records(q, s)) + IF x = s THEN 1 ELSE 0
<1>1. Len(Append(q, x)) = Len(q) + 1 /\ Len(q) \in Nat
  OBVIOUS
<1>2. \A i \in 1..Len(q) : Append(q, x)[i] = q[i]
  OBVIOUS
<1>3. Append(q, x)[Len(q) + 1] = x
  OBVIOUS
<1>4. CASE x = s
  <2>1. Records(Append(q, x), s) = Records(q, s) \cup {Len(q) + 1}
    BY <1>1, <1>2, <1>3, <1>4 DEF Records
  <2>2. Len(q) + 1 \notin Records(q, s)
    BY <1>1 DEF Records
  <2>3. Cardinality(Records(q, s) \cup {Len(q) + 1}) = Cardinality(Records(q, s)) + 1
    BY <2>2, RecordsFinite, FS_AddElement, Zenon
  <2> QED
    BY <1>4, <2>1, <2>3
<1>5. CASE x # s
  <2>1. Records(Append(q, x), s) = Records(q, s)
    BY <1>1, <1>2, <1>3, <1>5 DEF Records
  <2> QED
    BY <1>5, <2>1, RecordsFinite
<1> QED
  BY <1>4, <1>5

\* signal() reads the first record.
LEMMA RecordsTail ==
  ASSUME NEW q \in Seq(Signals), q # << >>, NEW s
  PROVE  Cardinality(Records(Tail(q), s)) =
           Cardinality(Records(q, s)) - IF Head(q) = s THEN 1 ELSE 0
<1> DEFINE A == Records(Tail(q), s)
           B == Records(q, s) \ {1}
           f == [i \in A |-> i + 1]
<1>1. Len(q) \in Nat \ {0} /\ Len(Tail(q)) = Len(q) - 1 /\ Tail(q) \in Seq(Signals)
  OBVIOUS
<1>2. \A i \in 1..Len(Tail(q)) : Tail(q)[i] = q[i + 1]
  OBVIOUS
<1>3. f \in Bijection(A, B)
  <2>1. \A i \in A : f[i] \in B
    BY <1>1, <1>2 DEF Records
  <2>2. \A i, j \in A : f[i] = f[j] => i = j
    BY DEF Records
  <2>3. ASSUME NEW j \in B
        PROVE  \E i \in A : f[i] = j
    <3>1. j - 1 \in A
      BY <1>1, <1>2 DEF Records
    <3>2. f[j - 1] = j
      BY <3>1 DEF Records
    <3> QED
      BY <3>1, <3>2
  <2> QED
    BY <2>1, <2>2, <2>3 DEF Bijection, Injection, Surjection, IsInjective
<1>4. Cardinality(B) = Cardinality(A)
  <2>1. IsFiniteSet(A)
    BY <1>1, RecordsFinite
  <2> HIDE DEF A, B, f
  <2> QED
    BY <1>3, <2>1, FS_Bijection DEF ExistsBijection
<1>5. 1 \in Records(q, s) <=> Head(q) = s
  BY <1>1 DEF Records
<1>6. Cardinality(B) = Cardinality(Records(q, s)) - IF Head(q) = s THEN 1 ELSE 0
  <2>1. Cardinality(B) = IF 1 \in Records(q, s) THEN Cardinality(Records(q, s)) - 1
                                                ELSE Cardinality(Records(q, s))
    BY RecordsFinite, FS_RemoveElement, Zenon
  <2> QED
    BY <1>5, <2>1, RecordsFinite
<1> QED
  BY <1>4, <1>6

-----------------------------------------------------------------------------
(***************************************************************************)
(* The inductive invariant.                                                *)
(***************************************************************************)

LEMMA TypeInv ==
  ASSUME IndInv, Next
  PROVE  TypeOK'
<1>1. ASSUME NEW s \in Signals, Raise(s)
      PROVE  TypeOK'
  BY <1>1 DEF IndInv, Raise, runnerVars, maskVars, TypeOK, Runner!TypeOK
<1>2. ASSUME NEW s \in Signals, SigHandler(s)
      PROVE  TypeOK'
  BY <1>2 DEF IndInv, SigHandler, runnerVars, maskVars, TypeOK, Runner!TypeOK
<1>3. ASSUME NEW s \in Signals, DefaultAction(s)
      PROVE  TypeOK'
  BY <1>3 DEF IndInv, DefaultAction, runnerVars, maskVars, TypeOK, Runner!TypeOK
<1>4. ASSUME NEW e \in Event, Enable(e)
      PROVE  TypeOK'
  BY <1>4 DEF IndInv, Enable, Runner!Enable, deliveryVars, TypeOK, Runner!TypeOK, SignalEvent
<1>5. ASSUME NEW e \in Event, Disable(e)
      PROVE  TypeOK'
  BY <1>5 DEF IndInv, Disable, Runner!Disable, deliveryVars, TypeOK, Runner!TypeOK
<1>6. ASSUME NEW e \in Event, OtherEvent(e)
      PROVE  TypeOK'
  BY <1>6 DEF IndInv, OtherEvent, Runner!Enable, Runner!Disable, maskVars, deliveryVars, TypeOK, Runner!TypeOK
<1>7. ASSUME NEW e \in Event, Call(e)
      PROVE  TypeOK'
  BY <1>7 DEF IndInv, Call, Runner!Dispatch, maskVars, deliveryVars, TypeOK, Runner!TypeOK
<1>8. ASSUME Block
      PROVE  TypeOK'
  BY <1>8 DEF IndInv, Block, runnerVars, deliveryVars, TypeOK, Runner!TypeOK
<1>9. ASSUME Unblock
      PROVE  TypeOK'
  BY <1>9 DEF IndInv, Unblock, runnerVars, deliveryVars, TypeOK, Runner!TypeOK
<1>10. ASSUME Process
      PROVE  TypeOK'
  BY <1>10 DEF IndInv, Process, runnerVars, deliveryVars, TypeOK, Runner!TypeOK
<1>11. ASSUME PollSignal
      PROVE  TypeOK'
  BY <1>11 DEF IndInv, PollSignal, SignalReads, maskVars, TypeOK, Runner!TypeOK
<1>12. ASSUME PollOther
      PROVE  TypeOK'
  BY <1>12 DEF IndInv, PollOther, Runner!Signal, maskVars, deliveryVars, TypeOK, Runner!TypeOK
<1>13. ASSUME Run
      PROVE  TypeOK'
  BY <1>13 DEF IndInv, Run, Runner!Run, maskVars, deliveryVars, TypeOK, Runner!TypeOK
<1>14. ASSUME Return
      PROVE  TypeOK'
  BY <1>14 DEF IndInv, Return, Runner!Return, maskVars, deliveryVars, TypeOK, Runner!TypeOK
<1>15. ASSUME Throw
      PROVE  TypeOK'
  BY <1>15 DEF IndInv, Throw, Runner!Throw, BlockSignals, deliveryVars, TypeOK, Runner!TypeOK
<1>16. ASSUME Finish
      PROVE  TypeOK'
  BY <1>16 DEF IndInv, Finish, Runner!Finish, BlockSignals, deliveryVars, TypeOK, Runner!TypeOK
<1>17. ASSUME Loop
      PROVE  TypeOK'
  BY <1>17 DEF IndInv, Loop, BlockSignals, runnerVars, deliveryVars, TypeOK, Runner!TypeOK
<1> QED
  BY <1>1, <1>2, <1>3, <1>4, <1>5, <1>6, <1>7, <1>8, <1>9, <1>10, <1>11, <1>12, <1>13, <1>14, <1>15, <1>16, <1>17 DEF Next

LEMMA RegisteredInv ==
  ASSUME IndInv, Next
  PROVE  RegisteredOnce'
<1>1. ASSUME NEW s \in Signals, Raise(s)
      PROVE  RegisteredOnce'
  BY <1>1 DEF IndInv, Raise, runnerVars, maskVars, RegisteredOnce, Registered, SignalEvent
<1>2. ASSUME NEW s \in Signals, SigHandler(s)
      PROVE  RegisteredOnce'
  BY <1>2 DEF IndInv, SigHandler, runnerVars, maskVars, RegisteredOnce, Registered, SignalEvent
<1>3. ASSUME NEW s \in Signals, DefaultAction(s)
      PROVE  RegisteredOnce'
  BY <1>3 DEF IndInv, DefaultAction, runnerVars, maskVars, RegisteredOnce, Registered, SignalEvent
<1>4. ASSUME NEW e \in Event, Enable(e)
      PROVE  RegisteredOnce'
  BY <1>4 DEF IndInv, Enable, Runner!Enable, deliveryVars, RegisteredOnce, Registered, SignalEvent
<1>5. ASSUME NEW e \in Event, Disable(e)
      PROVE  RegisteredOnce'
  BY <1>5 DEF IndInv, Disable, Runner!Disable, deliveryVars, RegisteredOnce, Registered, SignalEvent
<1>6. ASSUME NEW e \in Event, OtherEvent(e)
      PROVE  RegisteredOnce'
  BY <1>6 DEF IndInv, OtherEvent, Runner!Enable, Runner!Disable, maskVars, deliveryVars, RegisteredOnce, Registered, SignalEvent
<1>7. ASSUME NEW e \in Event, Call(e)
      PROVE  RegisteredOnce'
  BY <1>7 DEF IndInv, Call, Runner!Dispatch, maskVars, deliveryVars, RegisteredOnce, Registered, SignalEvent
<1>8. ASSUME Block
      PROVE  RegisteredOnce'
  BY <1>8 DEF IndInv, Block, runnerVars, deliveryVars, RegisteredOnce, Registered, SignalEvent
<1>9. ASSUME Unblock
      PROVE  RegisteredOnce'
  BY <1>9 DEF IndInv, Unblock, runnerVars, deliveryVars, RegisteredOnce, Registered, SignalEvent
<1>10. ASSUME Process
      PROVE  RegisteredOnce'
  BY <1>10 DEF IndInv, Process, runnerVars, deliveryVars, RegisteredOnce, Registered, SignalEvent
<1>11. ASSUME PollSignal
      PROVE  RegisteredOnce'
  BY <1>11 DEF IndInv, PollSignal, SignalReads, maskVars, RegisteredOnce, Registered, SignalEvent
<1>12. ASSUME PollOther
      PROVE  RegisteredOnce'
  BY <1>12 DEF IndInv, PollOther, Runner!Signal, maskVars, deliveryVars, RegisteredOnce, Registered, SignalEvent
<1>13. ASSUME Run
      PROVE  RegisteredOnce'
  BY <1>13 DEF IndInv, Run, Runner!Run, maskVars, deliveryVars, RegisteredOnce, Registered, SignalEvent
<1>14. ASSUME Return
      PROVE  RegisteredOnce'
  BY <1>14 DEF IndInv, Return, Runner!Return, maskVars, deliveryVars, RegisteredOnce, Registered, SignalEvent
<1>15. ASSUME Throw
      PROVE  RegisteredOnce'
  BY <1>15 DEF IndInv, Throw, Runner!Throw, BlockSignals, deliveryVars, RegisteredOnce, Registered, SignalEvent
<1>16. ASSUME Finish
      PROVE  RegisteredOnce'
  BY <1>16 DEF IndInv, Finish, Runner!Finish, BlockSignals, deliveryVars, RegisteredOnce, Registered, SignalEvent
<1>17. ASSUME Loop
      PROVE  RegisteredOnce'
  BY <1>17 DEF IndInv, Loop, BlockSignals, runnerVars, deliveryVars, RegisteredOnce, Registered, SignalEvent
<1> QED
  BY <1>1, <1>2, <1>3, <1>4, <1>5, <1>6, <1>7, <1>8, <1>9, <1>10, <1>11, <1>12, <1>13, <1>14, <1>15, <1>16, <1>17 DEF Next

LEMMA MaskInv ==
  ASSUME IndInv, ~InSection, Next
  PROVE  MaskAgrees' /\ SectionKeepsMask'
<1>1. ASSUME NEW s \in Signals, Raise(s)
      PROVE  MaskAgrees' /\ SectionKeepsMask'
  BY <1>1 DEF IndInv, Raise, runnerVars, maskVars, TypeOK, RegisteredOnce, Registered, SignalEvent, MaskAgrees, SectionKeepsMask, MayCall, MayRegister
<1>2. ASSUME NEW s \in Signals, SigHandler(s)
      PROVE  MaskAgrees' /\ SectionKeepsMask'
  BY <1>2 DEF IndInv, SigHandler, runnerVars, maskVars, TypeOK, RegisteredOnce, Registered, SignalEvent, MaskAgrees, SectionKeepsMask, MayCall, MayRegister
<1>3. ASSUME NEW s \in Signals, DefaultAction(s)
      PROVE  MaskAgrees' /\ SectionKeepsMask'
  BY <1>3 DEF IndInv, DefaultAction, runnerVars, maskVars, TypeOK, RegisteredOnce, Registered, SignalEvent, MaskAgrees, SectionKeepsMask, MayCall, MayRegister
<1>4. ASSUME NEW e \in Event, Enable(e)
      PROVE  MaskAgrees' /\ SectionKeepsMask'
  BY <1>4 DEF IndInv, Enable, Runner!Enable, deliveryVars, TypeOK, RegisteredOnce, Registered, SignalEvent, MaskAgrees, SectionKeepsMask, MayCall, MayRegister
<1>5. ASSUME NEW e \in Event, Disable(e)
      PROVE  MaskAgrees' /\ SectionKeepsMask'
  BY <1>5 DEF IndInv, Disable, Runner!Disable, deliveryVars, TypeOK, RegisteredOnce, Registered, SignalEvent, MaskAgrees, SectionKeepsMask, MayCall, MayRegister
<1>6. ASSUME NEW e \in Event, OtherEvent(e)
      PROVE  MaskAgrees' /\ SectionKeepsMask'
  BY <1>6 DEF IndInv, OtherEvent, Runner!Enable, Runner!Disable, maskVars, deliveryVars, TypeOK, RegisteredOnce, Registered, SignalEvent, MaskAgrees, SectionKeepsMask, MayCall, MayRegister
<1>7. ASSUME NEW e \in Event, Call(e)
      PROVE  MaskAgrees' /\ SectionKeepsMask'
  BY <1>7 DEF IndInv, Call, Runner!Dispatch, maskVars, deliveryVars, TypeOK, RegisteredOnce, Registered, SignalEvent, MaskAgrees, SectionKeepsMask, MayCall, MayRegister
<1>8. ASSUME Block
      PROVE  MaskAgrees' /\ SectionKeepsMask'
  BY <1>8 DEF IndInv, Block, runnerVars, deliveryVars, TypeOK, RegisteredOnce, Registered, SignalEvent, MaskAgrees, SectionKeepsMask, MayCall, MayRegister
<1>9. ASSUME Unblock
      PROVE  MaskAgrees' /\ SectionKeepsMask'
  BY <1>9 DEF IndInv, Unblock, runnerVars, deliveryVars, TypeOK, RegisteredOnce, Registered, SignalEvent, MaskAgrees, SectionKeepsMask, MayCall, MayRegister
<1>10. ASSUME Process
      PROVE  MaskAgrees' /\ SectionKeepsMask'
  BY <1>10 DEF IndInv, Process, runnerVars, deliveryVars, TypeOK, RegisteredOnce, Registered, SignalEvent, MaskAgrees, SectionKeepsMask, MayCall, MayRegister
<1>11. ASSUME PollSignal
      PROVE  MaskAgrees' /\ SectionKeepsMask'
  BY <1>11 DEF IndInv, PollSignal, SignalReads, maskVars, TypeOK, RegisteredOnce, Registered, SignalEvent, MaskAgrees, SectionKeepsMask, MayCall, MayRegister
<1>12. ASSUME PollOther
      PROVE  MaskAgrees' /\ SectionKeepsMask'
  BY <1>12 DEF IndInv, PollOther, Runner!Signal, maskVars, deliveryVars, TypeOK, RegisteredOnce, Registered, SignalEvent, MaskAgrees, SectionKeepsMask, MayCall, MayRegister
<1>13. ASSUME Run
      PROVE  MaskAgrees' /\ SectionKeepsMask'
  BY <1>13 DEF IndInv, Run, Runner!Run, maskVars, deliveryVars, TypeOK, RegisteredOnce, Registered, SignalEvent, MaskAgrees, SectionKeepsMask, MayCall, MayRegister
<1>14. ASSUME Return
      PROVE  MaskAgrees' /\ SectionKeepsMask'
  BY <1>14 DEF IndInv, Return, Runner!Return, maskVars, deliveryVars, TypeOK, RegisteredOnce, Registered, SignalEvent, MaskAgrees, SectionKeepsMask, MayCall, MayRegister
<1>15. ASSUME Throw
      PROVE  MaskAgrees' /\ SectionKeepsMask'
  BY <1>15 DEF IndInv, Throw, Runner!Throw, BlockSignals, deliveryVars, TypeOK, RegisteredOnce, Registered, SignalEvent, MaskAgrees, SectionKeepsMask, MayCall, MayRegister
<1>16. ASSUME Finish
      PROVE  MaskAgrees' /\ SectionKeepsMask'
  BY <1>16 DEF IndInv, Finish, Runner!Finish, BlockSignals, deliveryVars, TypeOK, RegisteredOnce, Registered, SignalEvent, MaskAgrees, SectionKeepsMask, MayCall, MayRegister
<1>17. ASSUME Loop
      PROVE  MaskAgrees' /\ SectionKeepsMask'
  BY <1>17 DEF IndInv, Loop, BlockSignals, runnerVars, deliveryVars, TypeOK, RegisteredOnce, Registered, SignalEvent, MaskAgrees, SectionKeepsMask, MayCall, MayRegister
<1> QED
  BY <1>1, <1>2, <1>3, <1>4, <1>5, <1>6, <1>7, <1>8, <1>9, <1>10, <1>11, <1>12, <1>13, <1>14, <1>15, <1>16, <1>17 DEF Next

\* The events of a signal that are marked runnable.
Marked(run, s) == {e \in Event : SigOf[e] = s /\ run[e]}

LEMMA MarkedFinite ==
  ASSUME NEW run, NEW s
  PROVE  IsFiniteSet(Marked(run, s)) /\ Cardinality(Marked(run, s)) \in Nat
BY FS_Subset, FS_CardinalityType DEF Marked

\* What NoPhantom says of a signal.
Accounted(s) ==
  called[s] + Cardinality(Records(sigPipe, s)) + Cardinality(Marked(runnable, s)) <= written[s]

LEMMA NoPhantomAccounted ==
  /\ NoPhantom <=> \A s \in Signals : Accounted(s)
  /\ NoPhantom' <=> \A s \in Signals : Accounted(s)'
BY DEF NoPhantom, Accounted, Records, Marked

\* A step that neither writes, reads nor calls anything for a signal.
LEMMA AccountedUnchanged ==
  ASSUME NEW s \in Signals, Accounted(s), sigPipe' = sigPipe, written' = written,
         called'[s] = called[s], Marked(runnable', s) = Marked(runnable, s)
  PROVE  Accounted(s)'
BY DEF Accounted

\* signal() marks no more events of a signal than it reads records of it: none, or
\* the one event that is registered for it.
LEMMA SignalReadsAccounted ==
  ASSUME IndInv, PollSignal, NEW s \in Signals
  PROVE  Accounted(s)'
<1>1. PICK O \in SUBSET (linked \ SignalEvent) : SignalReads(O)
  BY DEF PollSignal
<1>2. /\ sigPipe \in Seq(Signals) /\ sigPipe # << >> /\ sigPipe' = Tail(sigPipe)
      /\ written' = written /\ called' = called /\ linked \subseteq Event
      /\ written[s] \in Nat /\ called[s] \in Nat /\ Accounted(s)
  BY <1>1, NoPhantomAccounted DEF IndInv, TypeOK, Runner!TypeOK, PollSignal, SignalReads
<1>3. \A e \in O : SigOf[e] # s
  BY <1>2 DEF SignalEvent
<1>4. CASE Head(sigPipe) # s
  <2>1. Marked(runnable', s) = Marked(runnable, s)
    BY <1>1, <1>3, <1>4 DEF SignalReads, Marked
  <2>2. Cardinality(Records(Tail(sigPipe), s)) = Cardinality(Records(sigPipe, s))
    BY <1>2, <1>4, RecordsTail, RecordsFinite
  <2> QED
    BY <1>2, <2>1, <2>2 DEF Accounted
<1>5. CASE Head(sigPipe) = s
  <2>1. \E x : Marked(runnable', s) \subseteq Marked(runnable, s) \cup {x}
    <3>1. \A e, x \in linked : SigOf[e] = s /\ SigOf[x] = s => e = x
      BY <1>2 DEF IndInv, RegisteredOnce, SignalEvent
    <3>2. CASE \E x \in linked : SigOf[x] = s
      <4>1. PICK x \in linked : SigOf[x] = s
        BY <3>2
      <4>2. Marked(runnable', s) \subseteq Marked(runnable, s) \cup {x}
        BY <1>1, <1>3, <3>1, <4>1 DEF SignalReads, Marked
      <4> QED
        BY <4>2
    <3>3. CASE ~\E x \in linked : SigOf[x] = s
      BY <1>1, <1>3, <1>5, <3>3 DEF SignalReads, Marked
    <3> QED
      BY <3>2, <3>3
  <2>2. PICK x : Marked(runnable', s) \subseteq Marked(runnable, s) \cup {x}
    BY <2>1
  <2>3. /\ IsFiniteSet(Marked(runnable, s) \cup {x})
        /\ Cardinality(Marked(runnable, s) \cup {x}) <= Cardinality(Marked(runnable, s)) + 1
    <3>1. /\ IsFiniteSet(Marked(runnable, s) \cup {x})
          /\ Cardinality(Marked(runnable, s) \cup {x}) =
               IF x \in Marked(runnable, s) THEN Cardinality(Marked(runnable, s))
                                            ELSE Cardinality(Marked(runnable, s)) + 1
      BY MarkedFinite, FS_AddElement, Zenon
    <3> QED
      BY <3>1, MarkedFinite
  <2>4. Cardinality(Marked(runnable', s)) <= Cardinality(Marked(runnable, s) \cup {x})
    BY <2>2, <2>3, FS_Subset
  <2>5. Cardinality(Records(Tail(sigPipe), s)) = Cardinality(Records(sigPipe, s)) - 1
    BY <1>2, <1>5, RecordsTail, RecordsFinite
  <2>6. Cardinality(Marked(runnable', s)) <= Cardinality(Marked(runnable, s)) + 1
    <3>1. Cardinality(Marked(runnable, s) \cup {x}) \in Nat
      BY <2>3, FS_CardinalityType
    <3> QED
      BY <2>3, <2>4, <3>1, MarkedFinite
  <2> QED
    BY <1>2, <2>5, <2>6, MarkedFinite, RecordsFinite DEF Accounted
<1> QED
  BY <1>4, <1>5

\* A call uses up the mark of its event.
LEMMA CallAccounted ==
  ASSUME IndInv, NEW e \in Event, Call(e), NEW s \in Signals
  PROVE  Accounted(s)'
<1>1. /\ runnable[e] /\ runnable' = [runnable EXCEPT ![e] = FALSE] /\ runnable \in [Event -> BOOLEAN]
      /\ sigPipe' = sigPipe /\ written' = written /\ sigPipe \in Seq(Signals)
      /\ called'[s] = IF s = SigOf[e] THEN called[s] + 1 ELSE called[s]
      /\ written[s] \in Nat /\ called[s] \in Nat /\ Accounted(s)
  BY NoPhantomAccounted DEF IndInv, TypeOK, Runner!TypeOK, Call, Runner!Dispatch, deliveryVars
<1>2. CASE s # SigOf[e]
  <2>1. Marked(runnable', s) = Marked(runnable, s)
    BY <1>1, <1>2 DEF Marked
  <2> QED
    BY <1>1, <1>2, <2>1, AccountedUnchanged
<1>3. CASE s = SigOf[e]
  <2>1. Marked(runnable', s) = Marked(runnable, s) \ {e} /\ e \in Marked(runnable, s)
    BY <1>1, <1>3 DEF Marked
  <2>2. Cardinality(Marked(runnable, s) \ {e}) = Cardinality(Marked(runnable, s)) - 1
    BY <2>1, MarkedFinite, FS_RemoveElement, Zenon
  <2> QED
    <3>1. called'[s] = called[s] + 1
      BY <1>1, <1>3
    <3>2. Cardinality(Marked(runnable', s)) = Cardinality(Marked(runnable, s)) - 1
      BY <2>1, <2>2
    <3>3. Cardinality(Records(sigPipe, s)) \in Nat /\ Cardinality(Marked(runnable, s)) \in Nat
      BY <1>1, RecordsFinite, MarkedFinite
    <3> QED
      BY <1>1, <3>1, <3>2, <3>3 DEF Accounted
<1> QED
  BY <1>2, <1>3

\* The handler writes one record for one signal.
LEMMA SigHandlerAccounted ==
  ASSUME IndInv, NEW t \in Signals, SigHandler(t), NEW s \in Signals
  PROVE  Accounted(s)'
<1>1. /\ sigPipe \in Seq(Signals) /\ sigPipe' = Append(sigPipe, t)
      /\ runnable' = runnable /\ called' = called
      /\ written'[s] = IF s = t THEN written[s] + 1 ELSE written[s]
      /\ written[s] \in Nat /\ called[s] \in Nat /\ Accounted(s)
  BY NoPhantomAccounted DEF IndInv, TypeOK, SigHandler, runnerVars
<1>2. Cardinality(Records(Append(sigPipe, t), s)) =
        Cardinality(Records(sigPipe, s)) + IF t = s THEN 1 ELSE 0
  BY <1>1, RecordsAppend
<1> QED
  BY <1>1, <1>2, MarkedFinite, RecordsFinite DEF Accounted

LEMMA NoPhantomInv ==
  ASSUME IndInv, Next
  PROVE  NoPhantom'
<1> SUFFICES ASSUME NEW s \in Signals PROVE Accounted(s)'
  BY NoPhantomAccounted
<1>1. Accounted(s)
  BY NoPhantomAccounted DEF IndInv
<1>2. CASE PollSignal
  BY <1>2, SignalReadsAccounted
<1>3. CASE \E e \in Event : Call(e)
  BY <1>3, CallAccounted
<1>4. CASE \E t \in Signals : SigHandler(t)
  BY <1>4, SigHandlerAccounted
<1>5. CASE PollOther
  <2>1. /\ sigPipe' = sigPipe /\ written' = written /\ called' = called
        /\ Marked(runnable', s) = Marked(runnable, s)
    BY <1>5 DEF IndInv, TypeOK, PollOther, Runner!Signal, Runner!TypeOK, deliveryVars, Marked,
                SignalEvent
  <2> QED
    BY <1>1, <2>1, AccountedUnchanged
<1>6. CASE \E e \in Event : Enable(e) \/ Disable(e) \/ OtherEvent(e)
  <2>1. sigPipe' = sigPipe /\ written' = written /\ called' = called /\ runnable' = runnable
    BY <1>6 DEF IndInv, TypeOK, Enable, Disable, OtherEvent, Runner!Enable, Runner!Disable,
                Runner!TypeOK, deliveryVars
  <2> QED
    BY <1>1, <2>1, AccountedUnchanged
<1>7. CASE \/ \E t \in Signals : Raise(t) \/ DefaultAction(t)
           \/ Block \/ Unblock \/ Process \/ Loop \/ Run \/ Return \/ Throw \/ Finish
  <2>1. sigPipe' = sigPipe /\ written' = written /\ called' = called /\ runnable' = runnable
    BY <1>7 DEF Raise, DefaultAction, Block, Unblock, Process, Loop, Run, Return, Throw, Finish,
                Runner!Run, Runner!Return, Runner!Throw, Runner!Finish, runnerVars, deliveryVars
  <2> QED
    BY <1>1, <2>1, AccountedUnchanged
<1> QED
  BY <1>2, <1>3, <1>4, <1>5, <1>6, <1>7 DEF Next

LEMMA InitInv == Init => IndInv
<1> SUFFICES ASSUME Init PROVE IndInv
  OBVIOUS
<1>1. TypeOK
  <2>1. Runner!TypeOK
    BY DEF Init, Runner!Init, Runner!TypeOK
  <2>2. raised \in 0..MaxRaise
    BY DEF Init
  <2>3. blocked \in BOOLEAN /\ section \in BOOLEAN
    BY DEF Init
  <2> QED
    BY <2>1, <2>2, <2>3 DEF Init, TypeOK
<1>2. RegisteredOnce /\ MaskAgrees /\ SectionKeepsMask
  BY DEF Init, Runner!Init, RegisteredOnce, Registered, MaskAgrees, SectionKeepsMask
<1>3. NoPhantom
  <2> SUFFICES ASSUME NEW s \in Signals PROVE Accounted(s)
    BY NoPhantomAccounted
  <2>1. Records(sigPipe, s) = {} /\ Marked(runnable, s) = {}
    BY DEF Init, Runner!Init, Records, Marked
  <2> QED
    BY <2>1, FS_EmptySet DEF Init, Accounted
<1> QED
  BY <1>1, <1>2, <1>3 DEF IndInv

LEMMA NextInv == IndInv /\ [Next]_vars => IndInv'
<1> SUFFICES ASSUME IndInv, [Next]_vars PROVE IndInv'
  OBVIOUS
<1>1. CASE Next
  BY <1>1, TypeInv, RegisteredInv, MaskInv, NoPhantomInv DEF IndInv
<1>2. CASE UNCHANGED vars
  BY <1>2 DEF IndInv, vars, runnerVars, maskVars, deliveryVars, TypeOK, Runner!TypeOK,
              RegisteredOnce, Registered, MaskAgrees, SectionKeepsMask, MayCall, NoPhantom
<1> QED
  BY <1>1, <1>2

-----------------------------------------------------------------------------
\* The invariant holds for every set of events and signals.
THEOREM Invariance == Spec => []IndInv
BY InitInv, NextInv, PTL DEF Spec

\* However often signals are raised and delivered, and whatever throws: a callback is
\* called at most once for every record that sigHandler() has written.
THEOREM CallsAccounted == Spec => []NoPhantom
<1>1. IndInv => NoPhantom
  BY DEF IndInv
<1> QED
  BY <1>1, Invariance, PTL

\* If no event is registered inside a critical section, a registered signal is blocked
\* exactly while process() is not executing (blockSignals(), unblockSignals()).
THEOREM MaskCorrect ==
  ASSUME ~InSection
  PROVE  Spec => []MaskAgrees
<1>1. IndInv => MaskAgrees
  BY DEF IndInv
<1> QED
  BY <1>1, Invariance, PTL

=============================================================================
