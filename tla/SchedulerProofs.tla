-------------------------- MODULE SchedulerProofs ---------------------------
(***************************************************************************)
(* process() for every set of events and programs: the layers of the poll  *)
(* timeout agree and, unless the hires timers lose their wake-up, no poll  *)
(* lasts longer than the next timer allows.                                *)
(***************************************************************************)
EXTENDS Scheduler, WellFoundedInduction, TLAPS

USE SchedulerAssumption

-----------------------------------------------------------------------------
(***************************************************************************)
(* Times.                                                                  *)
(***************************************************************************)

\* A set of times has an earliest one, which Min returns: the timer that is first in
\* TimerDispatcher::timers_.
LEMMA MinTime ==
  ASSUME NEW S \in SUBSET Nat, S # {}
  PROVE  Min(S) \in S /\ \A x \in S : Min(S) <= x
<1> DEFINE R == {ss \in Nat \X Nat : ss[1] < ss[2]}
<1>1. IsWellFoundedOn(R, Nat)
  BY NatLessThanWellFounded DEF OpToRel
<1> HIDE DEF R
<1>2. PICK m \in S : \A y \in S : <<y, m>> \notin R
  BY <1>1, WFMin
<1>3. ASSUME NEW y \in S
      PROVE  m <= y
  <2>1. m \in Nat /\ y \in Nat
    OBVIOUS
  <2>2. y < m => <<y, m>> \in R
    BY <2>1 DEF R
  <2>3. ~(y < m)
    BY <1>2, <2>2, Zenon
  <2> QED
    BY <2>1, <2>3
<1>4. \E z \in S : \A y \in S : z <= y
  BY <1>3
<1> QED
  BY <1>4 DEF Min

LEMMA MaxOfTwo ==
  ASSUME NEW a \in Int, NEW b \in Int
  PROVE  Max({a, b}) = IF a >= b THEN a ELSE b
<1>1. \E x \in {a, b} : \A y \in {a, b} : x >= y
  OBVIOUS
<1>2. Max({a, b}) \in {a, b} /\ \A y \in {a, b} : Max({a, b}) >= y
  BY <1>1 DEF Max
<1> QED
  BY <1>2

\* What is left of a number modulo n, and how often n fits into it.
LEMMA Remainder ==
  ASSUME NEW a \in Int, NEW n \in Nat \ {0}
  PROVE  /\ a % n \in 0..(n - 1)
         /\ a \div n \in Int
         /\ a = n * (a \div n) + (a % n)
OBVIOUS

\* Conversion to int yields an int, and not more than was there.
LEMMA ToIntValue ==
  ASSUME NEW x \in Int
  PROVE  /\ ToInt(x) \in (-IntLimit)..(IntLimit - 1)
         /\ x >= -IntLimit => ToInt(x) <= x
<1> DEFINE n == 2 * IntLimit
<1>1. n \in Nat \ {0} /\ x + IntLimit \in Int
  OBVIOUS
<1> HIDE DEF n
<1>2. /\ (x + IntLimit) % n \in 0..(n - 1)
      /\ (x + IntLimit) \div n \in Int
      /\ x + IntLimit = n * ((x + IntLimit) \div n) + ((x + IntLimit) % n)
  BY <1>1, Remainder
<1>3. ASSUME x + IntLimit >= 0
      PROVE  (x + IntLimit) % n <= x + IntLimit
  BY <1>1, <1>2, <1>3
<1> QED
  BY <1>2, <1>3 DEF ToInt, n

\* The delay of the poll timer source is not negative, and no longer than a
\* millisecond past the timer's time, if that is not too long ago.
LEMMA DelayInTime ==
  ASSUME NEW t \in Nat, NEW s \in Nat, s = now
  PROVE  /\ PollDelay(t) \in 0..(IntLimit - 1)
         /\ s <= t + IntLimit * Ms => s + PollDelay(t) * Ms <= Max({t, s}) + Ms
<1> DEFINE d == t - s
           q == InMilliseconds(d)
           w == ToInt(q + 1)
<1>1. q \in Int /\ (d >= 0 => q >= 0 /\ q * Ms <= d) /\ (d < 0 => q <= 0)
      /\ (d + IntLimit * Ms >= 0 => q >= -IntLimit)
  <2>1. CASE d >= 0
    <3>1. q = d \div Ms
      BY <2>1 DEF InMilliseconds
    <3>2. d \in Int
      OBVIOUS
    <3> HIDE DEF d, q
    <3>3. d % Ms \in 0..(Ms - 1) /\ d \div Ms \in Int /\ d = Ms * (d \div Ms) + (d % Ms)
      BY <3>2, Remainder
    <3>4. q \in Int /\ q * Ms <= d /\ q >= 0
      BY <2>1, <3>3, <3>1, <3>2
    <3> QED
      BY <2>1, <3>2, <3>4
  <2>2. CASE d < 0
    <3> DEFINE e == -d
    <3>1. q = -(e \div Ms)
      BY <2>2 DEF InMilliseconds
    <3>2. d \in Int /\ e \in Int /\ e > 0 /\ d = -e
      BY <2>2
    <3> HIDE DEF d, q, e
    <3>3. e % Ms \in 0..(Ms - 1) /\ e \div Ms \in Int /\ e = Ms * (e \div Ms) + (e % Ms)
      BY <3>2, Remainder
    <3>4. e \div Ms >= 0
      BY <3>3, <3>2
    <3>5. ASSUME d + IntLimit * Ms >= 0
          PROVE  e \div Ms <= IntLimit
      BY <3>3, <3>2, <3>5
    <3> QED
      BY <2>2, <3>3, <3>1, <3>2, <3>4, <3>5
  <2> QED
    BY <2>1, <2>2
<1>2. d \in Int
  OBVIOUS
<1> HIDE DEF q
<1>3. w \in (-IntLimit)..(IntLimit - 1) /\ (q + 1 >= -IntLimit => w <= q + 1)
  BY <1>1, ToIntValue
<1>4. PollDelay(t) = IF w >= 0 THEN w ELSE 0
  BY <1>3, MaxOfTwo DEF PollDelay, q
<1>5. Max({t, s}) = IF t >= s THEN t ELSE s
  BY MaxOfTwo
<1> HIDE DEF w
<1>6. ASSUME d + IntLimit * Ms >= 0
      PROVE  s + PollDelay(t) * Ms <= Max({t, s}) + Ms
  <2> DEFINE p == PollDelay(t)
  <2>1. p \in Nat /\ p <= (IF q >= 0 THEN q ELSE 0) + 1
    BY <1>1, <1>3, <1>4, <1>6
  <2> HIDE DEF p
  <2>2. p * Ms <= ((IF q >= 0 THEN q ELSE 0) + 1) * Ms
    BY <1>1, <2>1
  <2>3. CASE d >= 0
    <3>1. p * Ms <= q * Ms + Ms
      BY <1>1, <2>2, <2>3
    <3>2. p * Ms <= d + Ms
      BY <1>1, <1>2, <2>1, <2>3, <3>1
    <3> QED
      BY <1>5, <2>1, <2>3, <3>2 DEF p
  <2>4. CASE d < 0
    <3>1. (IF q >= 0 THEN q ELSE 0) = 0
      BY <1>1, <2>4
    <3>2. p * Ms <= Ms
      BY <2>2, <3>1
    <3> QED
      BY <1>5, <2>1, <2>4, <3>2 DEF p
  <2> QED
    BY <1>2, <2>3, <2>4
<1> QED
  BY <1>3, <1>4, <1>6
-----------------------------------------------------------------------------
(***************************************************************************)
(* The invariant.                                                          *)
(***************************************************************************)

\* What TypeOK says of the poll timeouts and of the timer source.
LayerTypes == {idleTimeout, fileTimeout, pollTimeout} \subseteq None..(IntLimit - 1)

LEMMA Timeouts == {None, 0} \subseteq None..(IntLimit - 1)
BY DEF None

KernelTypes ==
  /\ timeoutEnabled \in BOOLEAN /\ sourceTimeout \in 0..MaxTime
  /\ armed \in 0..MaxTime \cup {None} /\ alarm \in BOOLEAN /\ readable \in BOOLEAN

\* The program sets its timers to times before MaxTime.
LEMMA Times ==
  ASSUME program \in Programs
  PROVE  /\ program.times \in SUBSET Nat /\ program.times # {}
         /\ program.times \subseteq 0..(MaxTime - 1) /\ program.events \subseteq Task
OBVIOUS

\* The invariant holds before the scheduler is used.
LEMMA Start == Init => IndInv
<1> SUFFICES ASSUME Init PROVE IndInv
  OBVIOUS
<1>1. Min(program.times) \in program.times
  BY Times, MinTime DEF Init
<1>2. Runner!TypeOK /\ linked \subseteq program.events
  BY DEF Init, Runner!Init, Runner!TypeOK
<1>3. timeout \in [Of("timer") -> program.times]
  BY <1>1 DEF Init
<1>4. LayerTypes
  BY Timeouts DEF Init, LayerTypes
<1>5. now \in 0..MaxTime /\ pollStart \in 0..MaxTime
  BY DEF Init
<1>6. KernelTypes /\ source \in {"poll", Hires} /\ ignored \in BOOLEAN
  <2>1. sourceTimeout \in 0..MaxTime
    BY DEF Init, SourceInit
  <2> QED
    BY <2>1 DEF Init, SourceInit, KernelTypes
<1>7. TypeOK
  BY <1>2, <1>3, <1>4, <1>5, <1>6 DEF TypeOK, Init, LayerTypes, KernelTypes
<1>8. LayersAgree
  BY DEF LayersAgree, Init, Runner!Init, Linked
<1> QED
  BY <1>7, <1>8 DEF IndInv, AtRightPlace, SourceBelieves, Init, SourceInit

\* An enabled event keeps the layers in agreement.
LEMMA EnableStep ==
  ASSUME IndInv, NEW t \in Task, Enable(t)
  PROVE  IndInv'
<1> USE DEF Enable, Runner!Enable, sourceVars, kernelVars
<1>1. Runner!TypeOK' /\ linked' \subseteq program'.events
  BY DEF IndInv, TypeOK, Runner!TypeOK
<1>2. timeout' \in [Of("timer") -> program'.times]
  BY DEF IndInv, TypeOK, Of
<1>3. LayerTypes'
  BY Timeouts DEF IndInv, TypeOK, LayerTypes, EnableLayers
<1>4. TypeOK'
  BY <1>1, <1>2, <1>3 DEF IndInv, TypeOK, LayerTypes
<1>5. LayersAgree'
  BY DEF IndInv, LayersAgree, EnableLayers, Linked, Of
<1> QED
  BY <1>4, <1>5 DEF IndInv, AtRightPlace, SourceBelieves, MayCall

LEMMA DisableStep ==
  ASSUME IndInv, NEW t \in Task, Disable(t)
  PROVE  IndInv'
<1> USE DEF Disable, Runner!Disable, sourceVars, kernelVars
<1>1. Runner!TypeOK' /\ linked' \subseteq program'.events
  BY DEF IndInv, TypeOK, Runner!TypeOK
<1>2. LayerTypes'
  BY DEF IndInv, TypeOK, LayerTypes, DisableLayers
<1>3. TypeOK'
  BY <1>1, <1>2 DEF IndInv, TypeOK, LayerTypes
<1>4. LayersAgree'
  BY DEF IndInv, LayersAgree, DisableLayers, Linked, Of
<1> QED
  BY <1>3, <1>4 DEF IndInv, AtRightPlace, SourceBelieves, MayCall

\* hiresTimers(), loresTimers() and restart() begin with a source that believes nothing.
LEMMA SourceStep ==
  ASSUME IndInv, HiresTimers \/ LoresTimers \/ Restart
  PROVE  IndInv'
<1>1. KernelTypes'
  <2>1. 0 \in 0..MaxTime
    OBVIOUS
  <2> QED
    BY <2>1 DEF HiresTimers, LoresTimers, TimerSource, Restart, NewSource, KernelTypes
<1>2. CASE HiresTimers \/ LoresTimers
  <2>1. /\ source' \in {"poll", Hires} /\ ignored' \in BOOLEAN /\ (ignored' => Again)
        /\ at = "out" /\ alarm' = FALSE /\ timeoutEnabled' = FALSE
        /\ UNCHANGED <<program, runnerVars, at, terminate, timeout, now, layerVars, pollStart>>
    BY <1>2 DEF HiresTimers, LoresTimers, TimerSource, NewSource, IndInv, TypeOK
  <2>2. TypeOK'
    BY <1>1, <2>1 DEF IndInv, TypeOK, Runner!TypeOK, KernelTypes, runnerVars, layerVars
  <2>3. LayersAgree'
    BY <2>1 DEF IndInv, LayersAgree, Linked, runnerVars, layerVars
  <2> QED
    BY <2>1, <2>2, <2>3 DEF IndInv, AtRightPlace, SourceBelieves
<1>3. CASE Restart
  <2>1. LayerTypes'
    BY <1>3, Timeouts DEF Restart, LayerTypes
  <2>2. Runner!TypeOK' /\ linked' \subseteq program'.events
    BY <1>3 DEF Restart, IndInv, TypeOK, Runner!TypeOK
  <2>3. TypeOK'
    BY <1>1, <1>3, <2>1, <2>2 DEF Restart, IndInv, TypeOK, KernelTypes, LayerTypes
  <2>4. LayersAgree'
    BY <1>3 DEF Restart, LayersAgree, Linked
  <2> QED
    BY <1>3, <2>3, <2>4 DEF Restart, NewSource, IndInv, AtRightPlace, SourceBelieves
<1> QED
  BY <1>2, <1>3

-----------------------------------------------------------------------------
(***************************************************************************)
(* reschedule().                                                           *)
(***************************************************************************)

Earliest == Min({timeout[t] : t \in Linked("timer")})

\* The first timer of the dispatcher is the earliest.
LEMMA EarliestTimer ==
  ASSUME TypeOK, Linked("timer") # {}
  PROVE  /\ Earliest \in 0..(MaxTime - 1)
         /\ \E u \in Linked("timer") : timeout[u] = Earliest
         /\ \A t \in Linked("timer") : timeout[t] \in Nat /\ Earliest <= timeout[t]
<1> DEFINE S == {timeout[t] : t \in Linked("timer")}
<1>1. \A t \in Linked("timer") : timeout[t] \in 0..(MaxTime - 1)
  BY Times DEF TypeOK, Linked, Of
<1>2. S \in SUBSET Nat /\ S # {}
  BY <1>1
<1>3. Min(S) \in S /\ \A x \in S : Min(S) <= x
  <2> HIDE DEF S
  <2> QED
    BY <1>2, MinTime
<1> QED
  BY <1>1, <1>3 DEF Earliest

\* A timeout that is handed down through the layers arrives, or 0 does.
LEMMA HandedDown ==
  ASSUME TypeOK, LayersAgree, NEW d \in None..(IntLimit - 1), SetIdleTimeout(d), linked' = linked
  PROVE  LayerTypes' /\ LayersAgree' /\ pollTimeout' \in {0, d}
<1>1. LayersAgree' /\ pollTimeout' \in {0, d}
  BY DEF LayersAgree, SetIdleTimeout, Linked
<1>2. idleTimeout' = d /\ fileTimeout' \in {fileTimeout, d}
  BY DEF SetIdleTimeout
<1>3. LayerTypes'
  BY <1>1, <1>2, Timeouts DEF LayerTypes, TypeOK
<1> QED
  BY <1>1, <1>3

\* The poll source: the poll will end in time for every timer.
LEMMA PollSourceArranges ==
  ASSUME IndInv, Reschedule, source = "poll", UNCHANGED <<linked, timeout, now, source, ignored>>
  PROVE  LayerTypes' /\ LayersAgree' /\ Arranged(now)' /\ UNCHANGED kernelVars
<1>1. CASE Linked("timer") = {}
  <2>1. SetIdleTimeout(None) /\ UNCHANGED kernelVars
    BY <1>1 DEF Reschedule, SourceNoTimeout
  <2>2. LayerTypes' /\ LayersAgree'
    BY <2>1, Timeouts, HandedDown DEF IndInv
  <2> QED
    BY <1>1, <2>1, <2>2 DEF Arranged, Linked
<1>2. CASE Linked("timer") # {}
  <2>1. SetIdleTimeout(PollDelay(Earliest)) /\ UNCHANGED kernelVars
    BY <1>2 DEF Reschedule, SourceTimeout, Earliest
  <2>2. /\ Earliest \in Nat /\ now \in Nat
        /\ \E u \in Linked("timer") : timeout[u] = Earliest
        /\ \A t \in Linked("timer") : timeout[t] \in Nat /\ Earliest <= timeout[t]
    BY <1>2, EarliestTimer DEF IndInv, TypeOK
  <2>3. /\ PollDelay(Earliest) \in 0..(IntLimit - 1)
        /\ now <= Earliest + IntLimit * Ms =>
             now + PollDelay(Earliest) * Ms <= Max({Earliest, now}) + Ms
    BY <2>2, DelayInTime
  <2> HIDE DEF Earliest
  <2>4. LayerTypes' /\ LayersAgree' /\ pollTimeout' \in {0, PollDelay(Earliest)}
    <3>1. PollDelay(Earliest) \in None..(IntLimit - 1)
      BY <2>3 DEF None
    <3> QED
      BY <2>1, <3>1, HandedDown DEF IndInv
  <2>5. ASSUME NEW t \in Linked("timer"),
               \A u \in Linked("timer") : now <= timeout[u] + IntLimit * Ms
        PROVE  pollTimeout' >= 0 /\ now + pollTimeout' * Ms <= Max({timeout[t], now}) + Ms
    <3>1. now <= Earliest + IntLimit * Ms
      BY <2>2, <2>5
    <3>2. /\ Max({Earliest, now}) = IF Earliest >= now THEN Earliest ELSE now
          /\ Max({timeout[t], now}) = IF timeout[t] >= now THEN timeout[t] ELSE now
      BY <2>2, MaxOfTwo
    <3>3. Max({Earliest, now}) <= Max({timeout[t], now})
      BY <2>2, <3>2
    <3>4. now + PollDelay(Earliest) * Ms <= Max({timeout[t], now}) + Ms
      BY <2>2, <2>3, <3>1, <3>2, <3>3
    <3>5. now + 0 * Ms <= Max({timeout[t], now}) + Ms
      BY <2>2, <3>2
    <3> QED
      BY <2>3, <2>4, <3>4, <3>5
  <2>6. Arranged(now)'
    BY <2>5 DEF Arranged, Linked
  <2> QED
    BY <2>1, <2>4, <2>6
<1> QED
  BY <1>1, <1>2

\* A kernel timer source: the kernel timer is set to the earliest timer, or was already.
LEMMA KernelSourceArranges ==
  ASSUME IndInv, at = "resched", Reschedule, source # "poll",
         UNCHANGED <<linked, timeout, now, source, ignored>>
  PROVE  KernelTypes' /\ Arranged(now)' /\ SourceBelieves' /\ alarm' = alarm
         /\ UNCHANGED layerVars
<1>1. ~alarm
  BY DEF IndInv, AtRightPlace
<1>2. CASE Linked("timer") = {}
  <2>1. UNCHANGED layerVars /\ alarm' = alarm /\ sourceTimeout' = sourceTimeout
        /\ timeoutEnabled' = FALSE /\ armed' \in {armed, None} /\ readable' \in BOOLEAN
    BY <1>2 DEF Reschedule, SourceNoTimeout, SetTime, kernelVars, IndInv, TypeOK
  <2>2. KernelTypes'
    BY <2>1 DEF IndInv, TypeOK, KernelTypes
  <2> QED
    BY <1>2, <2>1, <2>2 DEF Arranged, SourceBelieves, Linked
<1>3. CASE Linked("timer") # {}
  <2>1. /\ Earliest \in 0..(MaxTime - 1)
        /\ \A t \in Linked("timer") : timeout[t] \in Nat /\ Earliest <= timeout[t]
    BY <1>3, EarliestTimer DEF IndInv
  <2>2. SourceTimeout(Earliest)
    BY <1>3 DEF Reschedule, Earliest
  <2> HIDE DEF Earliest
  <2>3. /\ Max({Earliest, 1}) = IF Earliest >= 1 THEN Earliest ELSE 1
        /\ \A t \in Linked("timer") :
             Max({timeout[t], 1}) = IF timeout[t] >= 1 THEN timeout[t] ELSE 1
    BY <2>1, MaxOfTwo
  <2>4. Max({Earliest, 1}) \in 0..MaxTime
    BY <2>1, <2>3
  <2>5. CASE timeoutEnabled /\ sourceTimeout = Earliest
    <3>1. UNCHANGED kernelVars /\ UNCHANGED layerVars
      BY <2>2, <2>5 DEF SourceTimeout
    <3>2. KernelTypes' /\ SourceBelieves'
      BY <3>1 DEF IndInv, TypeOK, KernelTypes, SourceBelieves, kernelVars
    <3>3. source = "posix" /\ ~ignored =>
            readable \/ (armed # None /\ armed \in Nat /\ armed <= Earliest)
      BY <1>1, <2>5 DEF IndInv, SourceBelieves, TypeOK
    <3>4. ASSUME NEW t \in Linked("timer"), source = "posix", ~ignored
          PROVE  readable \/ (armed # None /\ armed <= Max({timeout[t], 1}))
      <4>1. /\ Earliest \in Nat /\ timeout[t] \in Nat /\ Earliest <= timeout[t]
            /\ Max({timeout[t], 1}) = IF timeout[t] >= 1 THEN timeout[t] ELSE 1
        BY <2>1, <2>3
      <4> QED
        BY <3>3, <3>4, <4>1
    <3>5. Arranged(now)'
      BY <3>1, <3>4 DEF Arranged, Linked, kernelVars
    <3> QED
      BY <3>1, <3>2, <3>5 DEF kernelVars
  <2>6. CASE ~(timeoutEnabled /\ sourceTimeout = Earliest)
    <3>1. /\ timeoutEnabled' = TRUE /\ sourceTimeout' = Max({Earliest, 1})
          /\ armed' = Max({Earliest, 1}) /\ alarm' = alarm /\ UNCHANGED layerVars
          /\ readable' \in BOOLEAN
      BY <2>2, <2>6 DEF SourceTimeout, SetTime
    <3>2. KernelTypes'
      BY <2>4, <3>1 DEF KernelTypes, IndInv, TypeOK
    <3>3. armed' # None /\ armed' <= sourceTimeout'
      BY <2>4, <3>1 DEF None
    <3>4. SourceBelieves'
      BY <3>3 DEF SourceBelieves
    <3>5. ASSUME NEW t \in Linked("timer")
          PROVE  armed' <= Max({timeout[t], 1})
      BY <2>1, <2>3, <3>1
    <3>6. Arranged(now)'
      BY <3>3, <3>5 DEF Arranged, Linked
    <3> QED
      BY <3>1, <3>2, <3>4, <3>6
  <2> QED
    BY <2>5, <2>6
<1> QED
  BY <1>2, <1>3

LEMMA ReschedStep ==
  ASSUME IndInv, Resched
  PROVE  IndInv'
<1> USE DEF Resched
<1>1. /\ at = "resched" /\ at' = "test"
      /\ UNCHANGED <<program, runnerVars, terminate, timeout, now, pollStart, source, ignored>>
      /\ UNCHANGED <<linked, runnable, active, current, due>>
  BY DEF runnerVars
<1>2. LayerTypes' /\ LayersAgree' /\ KernelTypes' /\ Arranged(now)' /\ SourceBelieves' /\ ~alarm'
  <2>1. CASE source = "poll"
    <3>1. LayerTypes' /\ LayersAgree' /\ Arranged(now)' /\ UNCHANGED kernelVars
      BY <1>1, <2>1, PollSourceArranges
    <3> QED
      BY <1>1, <2>1, <3>1
      DEF IndInv, TypeOK, KernelTypes, SourceBelieves, AtRightPlace, kernelVars
  <2>2. CASE source # "poll"
    <3>1. KernelTypes' /\ Arranged(now)' /\ SourceBelieves' /\ alarm' = alarm
          /\ UNCHANGED layerVars
      BY <1>1, <2>2, KernelSourceArranges
    <3> QED
      BY <1>1, <3>1
      DEF IndInv, TypeOK, LayerTypes, LayersAgree, Linked, AtRightPlace, layerVars
  <2> QED
    BY <2>1, <2>2
<1>3. TypeOK'
  BY <1>1, <1>2 DEF IndInv, TypeOK, Runner!TypeOK, LayerTypes, KernelTypes
<1> QED
  BY <1>1, <1>2, <1>3 DEF IndInv, AtRightPlace

-----------------------------------------------------------------------------
(***************************************************************************)
(* The rest of process().                                                  *)
(***************************************************************************)

\* epoll_wait() returns; a POSIX source whose pipe was read believes nothing.
LEMMA WakeStep ==
  ASSUME IndInv, PollReturns \/ PollReady \/ PollInterrupted
  PROVE  IndInv'
<1>1. PICK R \in SUBSET linked : Wake(R) /\ (SourceSignal \/ UNCHANGED sourceVars)
  BY DEF PollReturns, PollReady, PollInterrupted, Linked
<1>2. Runner!TypeOK' /\ linked' = linked
  BY <1>1 DEF Wake, Runner!Signal, IndInv, TypeOK, Runner!TypeOK
<1>3. KernelTypes' /\ SourceBelieves' /\ alarm' = alarm /\ UNCHANGED <<source, ignored>>
  <2>1. CASE SourceSignal
    <3>1. KernelTypes' /\ alarm' = alarm /\ UNCHANGED <<source, ignored>>
      BY <2>1 DEF SourceSignal, IndInv, TypeOK, KernelTypes
    <3>2. SourceBelieves'
      BY <2>1 DEF SourceSignal, IndInv, SourceBelieves
    <3> QED
      BY <3>1, <3>2
  <2>2. CASE UNCHANGED sourceVars
    BY <2>2 DEF sourceVars, kernelVars, IndInv, TypeOK, SourceBelieves, KernelTypes
  <2> QED
    BY <1>1, <2>1, <2>2
<1>4. pollStart' \in 0..MaxTime
  BY <1>1 DEF Wake
<1>5. TypeOK'
  BY <1>1, <1>2, <1>3, <1>4 DEF Wake, layerVars, IndInv, TypeOK, KernelTypes
<1>6. LayersAgree'
  BY <1>1, <1>2 DEF Wake, layerVars, IndInv, LayersAgree, Linked
<1> QED
  BY <1>1, <1>3, <1>5, <1>6 DEF Wake, IndInv, AtRightPlace

\* The runner: only TimerEvent::v_run() changes what is linked, by a timer.
LEMMA RunnerStep ==
  ASSUME IndInv,
         Run \/ (\E t \in Task : Call(t)) \/ TimerRun \/ Return \/ Throw \/ Finish
  PROVE  IndInv'
<1>1. /\ UNCHANGED <<program, terminate, timeout, now, layerVars, pollStart, sourceVars>>
      /\ UNCHANGED layerVars /\ UNCHANGED sourceVars
      /\ at \in {"run", "v_run", "callback"}
      /\ at' \in {"run", "v_run", "callback", "out", "resched"}
  BY DEF Run, Call, TimerRun, Return, Throw, Finish
<1>2. /\ Runner!TypeOK' /\ linked' \subseteq linked
      /\ \A t \in linked \ linked' : t \in Of("timer")
  BY DEF Run, Call, TimerRun, Return, Throw, Finish, Runner!Run, Runner!Dispatch,
         Runner!Disable, Runner!Return, Runner!Throw, Runner!Finish, IndInv, TypeOK,
         Runner!TypeOK, AtRightPlace
<1>3. at' = "v_run" => current' \in Of("timer")
  BY DEF Run, Call, TimerRun, Return, Throw, Finish, Runner!Dispatch, Of
<1>4. ~alarm'
  BY <1>1 DEF sourceVars, kernelVars, IndInv, AtRightPlace
<1>5. TypeOK'
  BY <1>1, <1>2 DEF IndInv, TypeOK, layerVars, sourceVars, kernelVars
<1>6. /\ linked' \cap Of("idle") = linked \cap Of("idle")
      /\ linked' \cap Of("file") = linked \cap Of("file")
  BY <1>2 DEF Of
<1>7. LayersAgree'
  <2>1. UNCHANGED <<idleTimeout, fileTimeout, pollTimeout>>
    BY <1>1 DEF layerVars
  <2> QED
    BY <1>6, <2>1 DEF IndInv, LayersAgree, Linked
<1>8. SourceBelieves' /\ (ignored' => Again)
  BY <1>1 DEF IndInv, SourceBelieves, sourceVars, kernelVars
<1> QED
  BY <1>1, <1>3, <1>4, <1>5, <1>7, <1>8 DEF IndInv, AtRightPlace

\* Every step keeps the invariant.
LEMMA Step == IndInv /\ [Next]_vars => IndInv'
<1> SUFFICES ASSUME IndInv, [Next]_vars PROVE IndInv'
  OBVIOUS
<1>1. ASSUME NEW t \in Task, Enable(t) \/ Disable(t)
      PROVE  IndInv'
  BY <1>1, EnableStep, DisableStep
<1>2. CASE HiresTimers \/ LoresTimers \/ Restart
  BY <1>2, SourceStep
<1>3. CASE Resched
  BY <1>3, ReschedStep
<1>4. CASE PollReturns \/ PollReady \/ PollInterrupted
  BY <1>4, WakeStep
<1>5. CASE Run \/ (\E t \in Task : Call(t)) \/ TimerRun \/ Return \/ Throw \/ Finish
  BY <1>5, RunnerStep
<1>6. CASE Terminate \/ Leave
  <2>1. /\ UNCHANGED <<program, timeout, now, pollStart>> /\ UNCHANGED runnerVars
        /\ UNCHANGED layerVars /\ UNCHANGED sourceVars
        /\ terminate' \in BOOLEAN /\ at' \in {"out", "callback"} /\ (at' = "callback" => at = "callback")
    BY <1>6 DEF Terminate, Leave, MayCall, IndInv, TypeOK
  <2>2. TypeOK'
    <3>1. Runner!TypeOK'
      BY <2>1 DEF IndInv, TypeOK, Runner!TypeOK, runnerVars
    <3> QED
      BY <2>1, <3>1 DEF IndInv, TypeOK, runnerVars, layerVars, sourceVars, kernelVars
  <2>3. LayersAgree'
    BY <2>1 DEF IndInv, LayersAgree, Linked, runnerVars, layerVars
  <2>4. SourceBelieves' /\ (ignored' => Again)
    BY <2>1 DEF IndInv, SourceBelieves, sourceVars, kernelVars
  <2>5. AtRightPlace'
    BY <2>1 DEF IndInv, AtRightPlace, sourceVars, kernelVars
  <2> QED
    BY <2>1, <2>2, <2>3, <2>4, <2>5 DEF IndInv
<1>7. CASE Process
  <2>1. TypeOK' /\ LayersAgree'
    BY <1>7 DEF Process, IndInv, TypeOK, Runner!TypeOK, LayersAgree, Linked,
                runnerVars, layerVars
  <2> QED
    BY <1>7, <2>1 DEF Process, IndInv, AtRightPlace, SourceBelieves
<1>8. CASE Poll
  <2>1. TypeOK' /\ LayersAgree'
    BY <1>8 DEF Poll, IndInv, TypeOK, Runner!TypeOK, LayersAgree, Linked,
                runnerVars, layerVars, sourceVars, kernelVars
  <2>2. Arranged(pollStart)'
    BY <1>8 DEF Poll, IndInv, Arranged, Linked, runnerVars, layerVars, sourceVars, kernelVars
  <2> QED
    BY <1>8, <2>1, <2>2 DEF Poll, IndInv, AtRightPlace, SourceBelieves,
                            runnerVars, sourceVars, kernelVars
<1>9. CASE Expire
  <2>1. TypeOK' /\ LayersAgree'
    BY <1>9 DEF Expire, IndInv, TypeOK, Runner!TypeOK, LayersAgree, Linked,
                runnerVars, layerVars
  <2>2. SourceBelieves' /\ AtRightPlace'
    BY <1>9 DEF Expire, IndInv, AtRightPlace, SourceBelieves, runnerVars
  <2>3. ASSUME NEW s, s' = s, at # "out", Arranged(s)
        PROVE  Arranged(s)'
    BY <1>9, <2>3 DEF Expire, Arranged, Linked, runnerVars, layerVars
  <2> QED
    BY <1>9, <2>1, <2>2, <2>3 DEF Expire, IndInv
<1>10. CASE Tick
  <2>1. now' \in 0..MaxTime
    BY <1>10 DEF Tick, IndInv, TypeOK
  <2>2. TypeOK' /\ LayersAgree'
    <3>1. Runner!TypeOK'
      BY <1>10 DEF Tick, IndInv, TypeOK, Runner!TypeOK, runnerVars
    <3>2. TypeOK'
      BY <1>10, <2>1, <3>1 DEF Tick, IndInv, TypeOK, runnerVars, layerVars, sourceVars, kernelVars
    <3>3. LayersAgree'
      BY <1>10 DEF Tick, IndInv, LayersAgree, Linked, runnerVars, layerVars
    <3> QED
      BY <3>2, <3>3
  <2>3. at = "poll" => Arranged(pollStart)'
    BY <1>10 DEF Tick, IndInv, Arranged, Linked, runnerVars, layerVars, sourceVars, kernelVars
  <2> QED
    BY <1>10, <2>2, <2>3 DEF Tick, IndInv, AtRightPlace, SourceBelieves,
                             runnerVars, sourceVars, kernelVars
<1>11. CASE UNCHANGED vars
  <2>1. TypeOK' /\ LayersAgree'
    <3>1. TypeOK'
      BY <1>11 DEF vars, IndInv, TypeOK, Runner!TypeOK,
                   runnerVars, layerVars, sourceVars, kernelVars
    <3>2. LayersAgree'
      BY <1>11 DEF vars, IndInv, LayersAgree, Linked, runnerVars, layerVars
    <3> QED
      BY <3>1, <3>2
  <2>2. SourceBelieves' /\ AtRightPlace'
    BY <1>11 DEF vars, IndInv, AtRightPlace, SourceBelieves, runnerVars, sourceVars, kernelVars
  <2>3. (at = "test" => Arranged(now)') /\ (at = "poll" => Arranged(pollStart)')
    BY <1>11 DEF vars, IndInv, Arranged, Linked, runnerVars, layerVars, sourceVars, kernelVars
  <2> QED
    BY <1>11, <2>1, <2>2, <2>3 DEF vars, IndInv, sourceVars
<1> QED
  BY <1>1, <1>2, <1>3, <1>4, <1>5, <1>6, <1>7, <1>8, <1>9, <1>10, <1>11 DEF Next

-----------------------------------------------------------------------------
(***************************************************************************)
(* The timerfd source.  Its signal() reads the expiration and goes on to   *)
(* believe that the timeout is set.  The belief is corrected by the next   *)
(* reschedule() if no timer has that time any more, which run() takes care *)
(* of unless a callback throws or sets a timer to that time again.         *)
(***************************************************************************)

\* A step of a program whose callbacks do not throw and which sets no timer to a time
\* the kernel timer was set to and that has passed.
OrderlyNext ==
  /\ Next /\ ~Throw
  /\ \A t \in Of("timer") :
       t \in linked' \ linked /\ timeout'[t] = sourceTimeout => now < sourceTimeout

\* run() is executing when process() is at these places.
RunnerPlace ==
  /\ active => at \in {"run", "v_run", "callback"}
  /\ at \in {"v_run", "callback"} => active

\* The expiration was read in this turn: every timer it was for will be called before
\* reschedule().
Owed(t) == IF active THEN t \in due \/ (at = "v_run" /\ t = current) ELSE runnable[t]
Seen ==
  /\ at \in {"run", "v_run", "callback", "resched"}
  /\ \A t \in Linked("timer") : timeout[t] = sourceTimeout => at # "resched" /\ Owed(t)

\* What a timerfd source believes is right, or it has expired and reschedule() will know.
TimerFDBelieves ==
  source = "timerfd" /\ timeoutEnabled =>
    armed = sourceTimeout \/ (sourceTimeout <= now /\ (readable \/ Seen))

TimerFDArranged ==
  source = "timerfd" =>
    \A t \in Linked("timer") : readable \/ (armed # None /\ armed <= Max({timeout[t], 1}))

TimerFDInv ==
  /\ IndInv /\ RunnerPlace /\ TimerFDBelieves
  /\ at \in {"test", "poll"} => TimerFDArranged

\* Only run() and its end change where the runner is.
LEMMA PlaceStep ==
  ASSUME IndInv, RunnerPlace, [Next]_vars
  PROVE  RunnerPlace'
<1>1. ASSUME NEW t \in Task, Enable(t) \/ Disable(t)
      PROVE  RunnerPlace'
  BY <1>1 DEF Enable, Disable, Runner!Enable, Runner!Disable, RunnerPlace
<1>2. CASE HiresTimers \/ LoresTimers \/ Restart
  BY <1>2 DEF HiresTimers, LoresTimers, TimerSource, Restart, RunnerPlace, runnerVars
<1>3. CASE Terminate \/ Process \/ Resched \/ Poll \/ Leave \/ Expire \/ Tick
  BY <1>3 DEF Terminate, Process, Resched, Poll, Leave, Expire, Tick, RunnerPlace, runnerVars
<1>4. CASE PollReturns \/ PollReady \/ PollInterrupted
  <2>1. at = "poll" /\ at' = "run" /\ active' = active
    BY <1>4 DEF PollReturns, PollReady, PollInterrupted, Wake, Runner!Signal
  <2> QED
    BY <2>1 DEF RunnerPlace
<1>5. ASSUME NEW t \in Task, Call(t)
      PROVE  RunnerPlace'
  BY <1>5 DEF Call, Runner!Dispatch, RunnerPlace
<1>6. CASE Run \/ TimerRun \/ Return \/ Throw \/ Finish
  BY <1>6 DEF Run, TimerRun, Return, Throw, Finish, Runner!Run, Runner!Disable,
              Runner!Return, Runner!Throw, Runner!Finish, RunnerPlace
<1>7. CASE UNCHANGED vars
  BY <1>7 DEF vars, runnerVars, RunnerPlace
<1> QED
  BY <1>1, <1>2, <1>3, <1>4, <1>5, <1>6, <1>7 DEF Next

\* The timers' times and the source's are numbers.
LEMMA TimerFDTypes ==
  ASSUME IndInv
  PROVE  /\ now \in Nat /\ sourceTimeout \in Nat /\ None \notin Nat
         /\ armed \in Nat \cup {None} /\ readable \in BOOLEAN
         /\ \A t \in Linked("timer") : timeout[t] \in Nat /\ t \in Task /\ t \in Of("timer")
<1>1. \A t \in Linked("timer") : timeout[t] \in Nat /\ t \in Task /\ t \in Of("timer")
  BY Times DEF IndInv, TypeOK, Linked, Of
<1> QED
  BY <1>1 DEF IndInv, TypeOK, None

\* Nobody but reschedule() sets the kernel timer, and what a read expiration was for
\* stays owed while callbacks run.
LEMMA BeliefKept ==
  ASSUME TimerFDInv, UNCHANGED <<source, timeoutEnabled, sourceTimeout, armed, readable>>,
         now' \in Nat, now <= now', Seen => sourceTimeout > now \/ Seen'
  PROVE  TimerFDBelieves'
<1>1. now \in Nat /\ sourceTimeout \in Nat
  BY TimerFDTypes DEF TimerFDInv
<1>2. sourceTimeout <= now => sourceTimeout' <= now' /\ ~(sourceTimeout > now)
  BY <1>1
<1> QED
  BY <1>2 DEF TimerFDInv, TimerFDBelieves

\* A step that leaves the source alone and ends outside of the poll.
LEMMA OutsidePoll ==
  ASSUME TimerFDInv, IndInv', RunnerPlace', UNCHANGED sourceVars, now' = now,
         at' \notin {"test", "poll"}, Seen => sourceTimeout > now \/ Seen'
  PROVE  TimerFDInv'
<1>1. UNCHANGED <<source, timeoutEnabled, sourceTimeout, armed, readable>>
  BY DEF sourceVars, kernelVars
<1>2. now \in Nat
  BY TimerFDTypes DEF TimerFDInv
<1>3. TimerFDBelieves'
  BY <1>1, <1>2, BeliefKept
<1> QED
  BY <1>3 DEF TimerFDInv

\* enable() of a timer for another time, and disable(), leave the debts of this turn.
LEMMA EnableTimerFD ==
  ASSUME TimerFDInv, IndInv', RunnerPlace', NEW t \in Task, Enable(t),
         \A u \in Of("timer") :
           u \in linked' \ linked /\ timeout'[u] = sourceTimeout => now < sourceTimeout
  PROVE  TimerFDInv'
<1>1. at \in {"out", "callback"} /\ at' = at /\ now' = now /\ UNCHANGED sourceVars
  BY DEF Enable, MayCall
<1>2. ASSUME Seen, ~(sourceTimeout > now)
      PROVE  Seen'
  <2>1. at = "callback" /\ active /\ active' = active /\ due' = due /\ sourceTimeout' = sourceTimeout
    BY <1>1, <1>2 DEF Seen, TimerFDInv, RunnerPlace, Enable, Runner!Enable, sourceVars, kernelVars
  <2>2. ASSUME NEW u \in Linked("timer")', timeout'[u] = sourceTimeout
        PROVE  u \in due
    <3>1. u \in linked' /\ u \in Of("timer")
      BY DEF Linked
    <3>2. u \in linked
      <4>1. now \in Nat /\ sourceTimeout \in Nat
        BY TimerFDTypes DEF TimerFDInv
      <4> QED
        BY <1>2, <2>2, <3>1, <4>1
    <3>3. u # t
      BY <3>2 DEF Enable, Runner!Enable
    <3>4. timeout'[u] = timeout[u]
      BY <3>1, <3>3 DEF Enable, TimerFDInv, IndInv, TypeOK
    <3> QED
      BY <2>1, <2>2, <3>1, <3>2, <3>4, <1>2 DEF Seen, Owed, Linked
  <2> QED
    BY <1>1, <2>1, <2>2 DEF Seen, Owed
<1> QED
  BY <1>1, <1>2, OutsidePoll

LEMMA DisableTimerFD ==
  ASSUME TimerFDInv, IndInv', RunnerPlace', NEW t \in Task, Disable(t)
  PROVE  TimerFDInv'
<1>1. /\ at \in {"out", "callback"} /\ at' = at /\ now' = now /\ UNCHANGED sourceVars
      /\ timeout' = timeout /\ linked' = linked \ {t} /\ due' = due \ {t}
      /\ active' = active /\ sourceTimeout' = sourceTimeout
  BY DEF Disable, MayCall, Runner!Disable, sourceVars, kernelVars
<1>2. ASSUME Seen
      PROVE  Seen'
  <2>1. at = "callback" /\ active
    BY <1>1, <1>2 DEF Seen, TimerFDInv, RunnerPlace
  <2>2. ASSUME NEW u \in Linked("timer")', timeout'[u] = sourceTimeout
        PROVE  u \in due'
    BY <1>1, <1>2, <2>1, <2>2 DEF Seen, Owed, Linked
  <2> QED
    BY <1>1, <2>1, <2>2 DEF Seen, Owed
<1> QED
  BY <1>1, <1>2, OutsidePoll

\* run() calls everybody who is owed a call; TimerEvent::v_run() disables the timer.
LEMMA RunnerTimerFD ==
  ASSUME TimerFDInv, IndInv', RunnerPlace',
         Run \/ (\E t \in Task : Call(t)) \/ TimerRun \/ Return \/ Finish
  PROVE  TimerFDInv'
<1>1. /\ UNCHANGED sourceVars /\ now' = now /\ timeout' = timeout /\ sourceTimeout' = sourceTimeout
      /\ at \in {"run", "v_run", "callback"} /\ at' \in {"run", "v_run", "callback", "resched"}
  BY DEF Run, Call, TimerRun, Return, Finish, sourceVars, kernelVars
<1>2. ASSUME Seen, NEW u \in Linked("timer")', timeout[u] = sourceTimeout
      PROVE  at' # "resched" /\ Owed(u)'
  <2>1. u \in Linked("timer") => Owed(u)
    BY <1>2 DEF Seen
  <2>2. u \in Of("timer") /\ u \in linked'
    BY <1>2 DEF Linked
  <2>3. CASE Run
    <3>1. /\ at' = "run" /\ u \in linked /\ ~active /\ active'
          /\ due' = {t \in linked : runnable[t]}
      BY <2>2, <2>3, <1>1 DEF Run, Runner!Run
    <3> QED
      BY <2>1, <2>2, <3>1 DEF Owed, Linked
  <2>4. ASSUME NEW t \in Task, Call(t)
        PROVE  at' # "resched" /\ Owed(u)'
    <3>1. /\ at = "run" /\ u \in linked /\ active /\ active' /\ due' = due \ {t} /\ current' = t
          /\ at' = IF Kind[t] = "timer" THEN "v_run" ELSE "callback"
      BY <2>2, <2>4 DEF Call, Runner!Dispatch
    <3>2. u \in due
      BY <2>1, <2>2, <3>1 DEF Owed, Linked
    <3>3. u = t => at' = "v_run"
      BY <2>2, <3>1 DEF Of
    <3> QED
      BY <3>1, <3>2, <3>3 DEF Owed
  <2>5. CASE TimerRun
    <3>1. /\ at = "v_run" /\ at' = "callback" /\ u \in linked /\ u # current
          /\ due' = due \ {current} /\ active' = active
      BY <2>2, <2>5 DEF TimerRun, Runner!Disable
    <3>2. active
      BY <3>1 DEF TimerFDInv, RunnerPlace
    <3> QED
      BY <2>1, <2>2, <3>1, <3>2 DEF Owed, Linked
  <2>6. CASE Return
    <3>1. at = "callback" /\ at' = "run" /\ u \in linked /\ due' = due /\ active' = active
      BY <2>2, <2>6 DEF Return, Runner!Return
    <3>2. active
      BY <3>1 DEF TimerFDInv, RunnerPlace
    <3> QED
      BY <2>1, <2>2, <3>1, <3>2 DEF Owed, Linked
  <2>7. CASE Finish
    <3>1. at = "run" /\ u \in linked /\ due = {} /\ active
      BY <2>2, <2>7 DEF Finish, Runner!Finish
    <3> QED
      BY <2>1, <2>2, <3>1 DEF Owed, Linked
  <2> QED
    BY <2>3, <2>4, <2>5, <2>6, <2>7
<1>3. ASSUME Seen
      PROVE  Seen'
  BY <1>1, <1>2, <1>3 DEF Seen
<1> QED
  BY <1>1, <1>3, OutsidePoll

\* epoll_wait() returns: the timers an expiration was for are marked runnable.
LEMMA WakeTimerFD ==
  ASSUME TimerFDInv, IndInv', RunnerPlace', PollReturns \/ PollReady \/ PollInterrupted
  PROVE  TimerFDInv'
<1>1. PICK R \in SUBSET linked : Wake(R) /\ (SourceSignal \/ UNCHANGED sourceVars)
  BY DEF PollReturns, PollReady, PollInterrupted, Linked
<1>2. /\ at = "poll" /\ at' = "run" /\ now' = now /\ timeout' = timeout /\ linked' = linked
      /\ active' = active /\ ~active
      /\ \A t \in Expired : t \in Task => runnable'[t]
  BY <1>1 DEF Wake, Runner!Signal
<1>3. /\ source' = source /\ armed' = armed /\ sourceTimeout' = sourceTimeout
      /\ source = "timerfd" => timeoutEnabled' = timeoutEnabled
  BY <1>1 DEF SourceSignal, sourceVars, kernelVars, TimerFDInv, IndInv, TypeOK
<1>4. ASSUME sourceTimeout <= now
      PROVE  Seen'
  <2>1. ASSUME NEW t \in Linked("timer")', timeout'[t] = sourceTimeout'
        PROVE  runnable'[t]
    <3>1. t \in Linked("timer") /\ timeout[t] <= now /\ t \in Task
      BY <1>2, <1>3, <1>4, <2>1 DEF Linked, Of
    <3> QED
      BY <1>2, <3>1 DEF Expired
  <2> QED
    BY <1>2, <2>1 DEF Seen, Owed
<1>5. TimerFDBelieves'
  BY <1>2, <1>3, <1>4 DEF TimerFDInv, TimerFDBelieves
<1> QED
  BY <1>2, <1>5 DEF TimerFDInv

\* reschedule(): no timer has the time of an expiration that was read.
LEMMA ReschedTimerFD ==
  ASSUME TimerFDInv, IndInv', RunnerPlace', Resched
  PROVE  TimerFDInv'
<1>1. /\ at = "resched" /\ at' = "test" /\ Reschedule
      /\ timeout' = timeout /\ now' = now /\ source' = source /\ linked' = linked
  BY DEF Resched, runnerVars
<1>2. CASE source # "timerfd"
  BY <1>1, <1>2 DEF TimerFDInv, TimerFDBelieves, TimerFDArranged
<1>3. CASE source = "timerfd" /\ Linked("timer") = {}
  <2>1. timeoutEnabled' = FALSE
    BY <1>1, <1>3 DEF Reschedule, SourceNoTimeout, kernelVars, TimerFDInv, IndInv, TypeOK
  <2>2. Linked("timer")' = {}
    BY <1>1, <1>3 DEF Linked
  <2> QED
    BY <2>1, <2>2 DEF TimerFDInv, TimerFDBelieves, TimerFDArranged
<1>4. CASE source = "timerfd" /\ Linked("timer") # {}
  <2>1. /\ Earliest \in Nat
        /\ \E u \in Linked("timer") : timeout[u] = Earliest
        /\ \A t \in Linked("timer") : timeout[t] \in Nat /\ Earliest <= timeout[t]
    BY <1>4, EarliestTimer DEF TimerFDInv, IndInv
  <2>2. SourceTimeout(Earliest)
    BY <1>1, <1>4 DEF Reschedule, Earliest
  <2> HIDE DEF Earliest
  <2>3. /\ Max({Earliest, 1}) = IF Earliest >= 1 THEN Earliest ELSE 1
        /\ \A t \in Linked("timer") :
             Max({timeout[t], 1}) = IF timeout[t] >= 1 THEN timeout[t] ELSE 1
    BY <2>1, MaxOfTwo
  <2>4. \A t \in Linked("timer") : Earliest <= Max({timeout[t], 1})
                                   /\ Max({Earliest, 1}) <= Max({timeout[t], 1})
    BY <2>1, <2>3
  <2>5. Earliest # None /\ Max({Earliest, 1}) # None
    BY <2>1, <2>3 DEF None
  <2>6. CASE timeoutEnabled /\ sourceTimeout = Earliest
    <3>1. UNCHANGED <<timeoutEnabled, sourceTimeout, armed, readable>>
      BY <1>4, <2>2, <2>6 DEF SourceTimeout, kernelVars
    <3>2. ~Seen
      BY <1>1, <2>1, <2>6 DEF Seen
    <3>3. armed = Earliest \/ (sourceTimeout <= now /\ readable)
      BY <1>4, <2>6, <3>2 DEF TimerFDInv, TimerFDBelieves
    <3>4. TimerFDBelieves'
      BY <1>1, <2>6, <3>1, <3>3 DEF TimerFDBelieves
    <3>5. TimerFDArranged'
      BY <1>1, <2>4, <2>5, <3>1, <3>3 DEF TimerFDArranged, Linked
    <3> QED
      BY <3>4, <3>5 DEF TimerFDInv
  <2>7. CASE ~(timeoutEnabled /\ sourceTimeout = Earliest)
    <3>1. sourceTimeout' = Max({Earliest, 1}) /\ armed' = Max({Earliest, 1})
      BY <1>4, <2>2, <2>7 DEF SourceTimeout, SetTime
    <3>2. TimerFDBelieves'
      BY <3>1 DEF TimerFDBelieves
    <3>3. TimerFDArranged'
      BY <1>1, <2>4, <2>5, <3>1 DEF TimerFDArranged, Linked
    <3> QED
      BY <3>2, <3>3 DEF TimerFDInv
  <2> QED
    BY <2>6, <2>7
<1> QED
  BY <1>2, <1>3, <1>4

\* The kernel timer expires.
LEMMA ExpireTimerFD ==
  ASSUME TimerFDInv, IndInv', RunnerPlace', Expire
  PROVE  TimerFDInv'
<1>1. /\ armed # None /\ now >= armed /\ at' = at /\ now' = now /\ source' = source
      /\ timeoutEnabled' = timeoutEnabled /\ sourceTimeout' = sourceTimeout
      /\ source = "timerfd" => readable'
  BY DEF Expire
<1>2. now \in Nat /\ sourceTimeout \in Nat
  BY TimerFDTypes DEF TimerFDInv
<1>3. armed = sourceTimeout => sourceTimeout <= now
  BY <1>1, <1>2
<1>4. TimerFDBelieves' /\ TimerFDArranged'
  BY <1>1, <1>3 DEF TimerFDInv, TimerFDBelieves, TimerFDArranged
<1> QED
  BY <1>4 DEF TimerFDInv

\* Every orderly step keeps the invariant.
LEMMA TimerFDStep == TimerFDInv /\ [OrderlyNext]_vars => TimerFDInv'
<1> SUFFICES ASSUME TimerFDInv, [OrderlyNext]_vars PROVE TimerFDInv'
  OBVIOUS
<1>1. IndInv' /\ RunnerPlace'
  <2>1. IndInv /\ RunnerPlace /\ [Next]_vars
    BY DEF TimerFDInv, OrderlyNext
  <2> QED
    BY <2>1, Step, PlaceStep
<1>2. CASE UNCHANGED vars
  <2>1. /\ UNCHANGED <<source, timeoutEnabled, sourceTimeout, armed, readable>>
        /\ UNCHANGED <<at, now, timeout, linked, runnable, active, current, due>>
    BY <1>2 DEF vars, sourceVars, kernelVars, runnerVars
  <2>2. Linked("timer")' = Linked("timer")
    BY <2>1 DEF Linked
  <2>3. Seen' = Seen
    BY <2>1, <2>2 DEF Seen, Owed
  <2>4. TimerFDBelieves' /\ (at' \in {"test", "poll"} => TimerFDArranged')
    BY <2>1, <2>2, <2>3 DEF TimerFDInv, TimerFDBelieves, TimerFDArranged
  <2> QED
    BY <1>1, <2>4 DEF TimerFDInv
<1>3. ASSUME NEW t \in Task, Enable(t),
             \A u \in Of("timer") :
               u \in linked' \ linked /\ timeout'[u] = sourceTimeout => now < sourceTimeout
      PROVE  TimerFDInv'
  BY <1>1, <1>3, EnableTimerFD
<1>4. ASSUME NEW t \in Task, Disable(t)
      PROVE  TimerFDInv'
  BY <1>1, <1>4, DisableTimerFD
<1>5. CASE Run \/ (\E t \in Task : Call(t)) \/ TimerRun \/ Return \/ Finish
  BY <1>1, <1>5, RunnerTimerFD
<1>6. CASE PollReturns \/ PollReady \/ PollInterrupted
  BY <1>1, <1>6, WakeTimerFD
<1>7. CASE Resched
  BY <1>1, <1>7, ReschedTimerFD
<1>8. CASE Expire
  BY <1>1, <1>8, ExpireTimerFD
<1>9. CASE HiresTimers \/ LoresTimers \/ Restart
  <2>1. timeoutEnabled' = FALSE /\ at' = "out"
    BY <1>9 DEF HiresTimers, LoresTimers, TimerSource, Restart, NewSource
  <2> QED
    BY <1>1, <2>1 DEF TimerFDInv, TimerFDBelieves
<1>10. CASE Terminate
  <2>1. /\ UNCHANGED sourceVars /\ now' = now /\ at' = at /\ at \in {"out", "callback"}
        /\ UNCHANGED <<timeout, linked, runnable, active, current, due, sourceTimeout>>
    BY <1>10 DEF Terminate, MayCall, runnerVars, sourceVars, kernelVars
  <2>2. Seen' = Seen
    BY <2>1 DEF Seen, Owed, Linked
  <2> QED
    BY <1>1, <2>1, <2>2, OutsidePoll
<1>11. CASE Leave
  <2>1. UNCHANGED sourceVars /\ now' = now /\ at = "test" /\ at' = "out"
    BY <1>11 DEF Leave
  <2>2. ~Seen
    BY <2>1 DEF Seen
  <2> QED
    BY <1>1, <2>1, <2>2, OutsidePoll
<1>12. CASE Process
  <2>1. /\ at = "out" /\ at' = "resched" /\ now' = now
        /\ UNCHANGED <<source, timeoutEnabled, sourceTimeout, armed>>
        /\ readable => readable'
    BY <1>12 DEF Process
  <2>2. ~Seen
    BY <2>1 DEF Seen
  <2>3. TimerFDBelieves'
    BY <2>1, <2>2 DEF TimerFDInv, TimerFDBelieves
  <2> QED
    BY <1>1, <2>1, <2>3 DEF TimerFDInv
<1>13. CASE Poll
  <2>1. /\ at = "test" /\ at' = "poll" /\ now' = now /\ linked' = linked /\ timeout' = timeout
        /\ UNCHANGED <<source, timeoutEnabled, sourceTimeout, armed, readable>>
    BY <1>13 DEF Poll, runnerVars, sourceVars, kernelVars
  <2>2. ~Seen
    BY <2>1 DEF Seen
  <2>3. TimerFDBelieves' /\ TimerFDArranged'
    BY <2>1, <2>2 DEF TimerFDInv, TimerFDBelieves, TimerFDArranged, Linked
  <2> QED
    BY <1>1, <2>3 DEF TimerFDInv
<1>14. CASE Tick
  <2>1. /\ at' = at /\ now' = now + 1 /\ at # "test"
        /\ UNCHANGED <<source, timeoutEnabled, sourceTimeout, armed, readable>>
        /\ UNCHANGED <<timeout, linked, runnable, active, current, due>>
    BY <1>14 DEF Tick, runnerVars, sourceVars, kernelVars
  <2>2. Linked("timer")' = Linked("timer")
    BY <2>1 DEF Linked
  <2>3. Seen' = Seen
    BY <2>1, <2>2 DEF Seen, Owed
  <2>4. now \in Nat /\ now' \in Nat /\ now <= now'
    BY <2>1, TimerFDTypes DEF TimerFDInv
  <2>5. TimerFDBelieves'
    BY <2>1, <2>3, <2>4, BeliefKept
  <2>6. at = "poll" => TimerFDArranged'
    BY <2>1, <2>2 DEF TimerFDInv, TimerFDArranged
  <2> QED
    BY <1>1, <2>1, <2>5, <2>6 DEF TimerFDInv
<1> QED
  BY <1>2, <1>3, <1>4, <1>5, <1>6, <1>7, <1>8, <1>9, <1>10, <1>11, <1>12, <1>13, <1>14
  DEF OrderlyNext, Next

-----------------------------------------------------------------------------
(***************************************************************************)
(* The theorems.                                                           *)
(***************************************************************************)

\* The invariant that reschedule(), the timer sources and the layers of the poll timeout
\* maintain together, for either kind of hires timers.
THEOREM Invariance == Spec => []IndInv
BY Start, Step, PTL DEF Spec

\* The three layers of the poll timeout always agree (IdleEventDispatcher::timeout(),
\* FileDispatcher::timeout(), enable() and disable() of idle and file events).
THEOREM TimeoutsAgree == Spec => []LayersAgree
<1>1. IndInv => LayersAgree
  BY DEF IndInv
<1> QED
  BY Invariance, <1>1, PTL

\* With the poll timer source a poll ends in time for every enabled timer if no timer is
\* overdue by more milliseconds than an int holds.
LEMMA PollSourceInTime ==
  ASSUME IndInv, source = "poll", MaxTime <= IntLimit * Ms
  PROVE  WakeUpInTime
<1> SUFFICES ASSUME at = "poll", NEW t \in Linked("timer")
             PROVE  /\ pollTimeout >= 0
                    /\ pollStart + pollTimeout * Ms <= Max({timeout[t], pollStart}) + Ms
  BY DEF WakeUpInTime
<1>1. Arranged(pollStart)
  BY DEF IndInv
<1>2. ASSUME NEW u \in Linked("timer")
      PROVE  pollStart <= timeout[u] + IntLimit * Ms
  <2>1. timeout[u] \in Nat /\ pollStart \in 0..MaxTime
    BY Times DEF IndInv, TypeOK, Linked, Of
  <2> QED
    BY <2>1
<1> QED
  BY <1>1, <1>2 DEF Arranged

\* A poll that process() begins ends in time for every enabled timer, with the poll timer
\* source and with POSIX timers, if hiresTimers() is not called twice and no timer is
\* overdue by more milliseconds than an int holds.
THEOREM PollsInTime ==
  ASSUME Hires = "posix", ~Again, MaxTime <= IntLimit * Ms
  PROVE  Spec => []WakeUpInTime
<1>1. IndInv => WakeUpInTime
  <2> SUFFICES ASSUME IndInv PROVE WakeUpInTime
    OBVIOUS
  <2>1. CASE source = "poll"
    BY <2>1, PollSourceInTime
  <2>2. CASE source # "poll"
    <3>1. source = "posix" /\ ~ignored
      BY <2>2 DEF IndInv, TypeOK
    <3> QED
      BY <3>1 DEF IndInv, Arranged, WakeUpInTime
  <2> QED
    BY <2>1, <2>2
<1> QED
  BY Invariance, <1>1, PTL

\* The same with timerfd timers, for a program whose callbacks do not throw and which sets
\* no timer to a time that the kernel timer was set to and that has passed.  Without either
\* condition the timerfd source takes a timeout for set that has expired.
THEOREM TimerFDPollsInTime ==
  ASSUME Hires = "timerfd", MaxTime <= IntLimit * Ms
  PROVE  Init /\ [][OrderlyNext]_vars => []WakeUpInTime
<1>1. Init => TimerFDInv
  BY Start DEF Init, Runner!Init, SourceInit, TimerFDInv, RunnerPlace, TimerFDBelieves
<1>2. TimerFDInv => WakeUpInTime
  <2> SUFFICES ASSUME TimerFDInv PROVE WakeUpInTime
    OBVIOUS
  <2>1. CASE source = "poll"
    BY <2>1, PollSourceInTime DEF TimerFDInv
  <2>2. CASE source # "poll"
    <3>1. source = "timerfd"
      BY <2>2 DEF TimerFDInv, IndInv, TypeOK
    <3> QED
      BY <3>1 DEF TimerFDInv, TimerFDArranged, WakeUpInTime
  <2> QED
    BY <2>1, <2>2
<1> QED
  BY <1>1, <1>2, TimerFDStep, PTL
=============================================================================
