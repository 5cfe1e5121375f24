---------------------------- MODULE PassiveInput ----------------------------
(***************************************************************************)
(* One PPI connection: a GenericPassiveInput with its packet queue, fed by *)
(* an active output (Connectors.cc, Connectors.cci), throttled by its      *)
(* ThresholdThrottling discipline, by its module and by the module's       *)
(* forwarding routes.  Everything is a chain of nested calls that may      *)
(* re-enter the connector: a write calls the module's handler, a read may  *)
(* unthrottle the input, which calls the source and then the handler.  The *)
(* calls in progress are the variable stack, innermost first.              *)
(***************************************************************************)
EXTENDS Naturals, Sequences, SequencesExt

CONSTANTS
  High, Low,      \* the thresholds of the throttling discipline
  Route,          \* forwarding routes from the module's active outputs
  ModuleThrottles,\* TRUE if the module calls throttle() and unthrottle() itself
  ReadsFirst,     \* TRUE if a handler reads a packet before it throttles anything
  HandlerUnthrottles, \* TRUE if code called from a handler ends a throttling, other
                      \* than the throttling discipline
  HandlersTake,   \* TRUE if a handler takes a packet whenever there is one
  OtherExceptions,\* TRUE if callbacks throw exceptions not derived from senf::Exception
  MaxPacket,      \* bound: packets written
  MaxDepth        \* bound: nested calls

ASSUME PassiveInputAssumption ==
  /\ High \in Nat /\ Low \in Nat
  /\ {ModuleThrottles, ReadsFirst, HandlerUnthrottles} \subseteq BOOLEAN
  /\ {HandlersTake, OtherExceptions} \subseteq BOOLEAN
  /\ MaxPacket \in Nat /\ MaxDepth \in Nat

VARIABLES
  queue,      \* queue_, the oldest packet first
  fastPacket, \* fastPacket_, None if there is none
  slowPacket, \* slowPacket_
  native,     \* nativeThrottled_
  remote,     \* remoteThrottled_
  routes,     \* the routes whose active output is throttled
  peer,       \* ActiveConnector::throttled_ of the source's output
  stack,      \* the calls in progress
  written,    \* history: packets written are 1..written
  delivered,  \* history: packets returned by reads
  lost,       \* history: packets held by reads an exception has ended
  left        \* history: since the queue was empty, an exception or a handler that
              \* took nothing has left packets in it

packetVars == <<queue, fastPacket, slowPacket>>
throttleVars == <<native, remote, routes, peer>>
history == <<written, delivered, lost, left>>
vars == <<packetVars, throttleVars, stack, history>>

None == 0

Init ==
  /\ queue = << >> /\ fastPacket = None /\ slowPacket = None
  /\ native = FALSE /\ remote = FALSE /\ routes = {} /\ peer = FALSE
  /\ stack = << >>
  /\ written = 0 /\ delivered = << >> /\ lost = {} /\ left = FALSE

-----------------------------------------------------------------------------
(***************************************************************************)
(* The calls in progress.                                                  *)
(***************************************************************************)

\* A call: where it is, the packet it is about and the queue size it has seen.
Call(at, p, n) == [at |-> at, p |-> p, n |-> n]

In(at) == stack # << >> /\ Head(stack).at = at

Reads == {"read_fast", "read_slow"}
Enqueues == {"enqueue_fast", "enqueue"}

\* Code of the module, and code of the source, is executing: an event handler or
\* one of the callbacks.
InModule == stack = << >> \/ In("callback_")
MayThrottle == stack = << >> \/ (In("callback_") /\ (ReadsFirst => Head(stack).n = 1))
MayUnthrottle == MayThrottle /\ (stack = << >> \/ HandlerUnthrottles)
InSource == stack = << >> \/ In("unthrottleCallback_")

QueueSize(q, f) == Len(q) + (IF f = None THEN 0 ELSE 1)
empty == queue = << >> /\ fastPacket = None
throttled == native \/ remote

\* emit(): the callback is called unless the input is throttled.
Emit(s) == IF throttled THEN s ELSE <<Call("callback_", None, 0)>> \o s

\* emitUnthrottle(), called from s: the peer is notified, then v_unthrottleEvent().
EmitUnthrottle(s) ==
  /\ LET loop == <<Call("v_unthrottleEvent", None, 0)>> \o s
     IN  stack' = IF peer THEN <<Call("unthrottleCallback_", None, 0)>> \o loop ELSE loop
  /\ peer' = FALSE

\* throttle()
SetThrottle ==
  /\ native' = TRUE
  /\ peer' = (peer \/ ~throttled)

\* unthrottle(), called from s.
SetUnthrottle(s) ==
  /\ native' = FALSE
  /\ IF native /\ ~remote THEN EmitUnthrottle(s) ELSE stack' = s /\ UNCHANGED peer

-----------------------------------------------------------------------------
(***************************************************************************)
(* Writing: OutputConnector::operator(), InputConnector::enqueue().        *)
(***************************************************************************)

\* Mutant: the fast path is taken although packets are queued.
WriteFast ==
  /\ InSource
  /\ written < MaxPacket /\ Len(stack) < MaxDepth
  /\ written' = written + 1
  /\ fastPacket' = written'
  /\ stack' = Emit(<<Call("enqueue_fast", written', 0)>> \o stack)
  /\ UNCHANGED <<queue, slowPacket, throttleVars, delivered, lost, left>>

Write ==
  /\ InSource
  /\ written < MaxPacket /\ Len(stack) < MaxDepth
  /\ written' = written + 1
  /\ IF queue = << >>
     THEN /\ fastPacket' = written'
          /\ stack' = Emit(<<Call("enqueue_fast", written', 0)>> \o stack)
          /\ UNCHANGED queue
     ELSE /\ queue' = Append(queue, written')
          /\ stack' = Emit(<<Call("enqueue", written', 0)>> \o stack)
          /\ UNCHANGED fastPacket
  /\ UNCHANGED <<slowPacket, throttleVars, delivered, lost, left>>

\* The callback has returned: update(ENQUEUE); a packet it left is queued.
Enqueued ==
  /\ In("enqueue_fast") \/ In("enqueue")
  /\ IF QueueSize(queue, fastPacket) >= High THEN SetThrottle ELSE UNCHANGED <<native, peer>>
  /\ IF In("enqueue_fast") /\ fastPacket # None
     THEN queue' = Append(queue, Head(stack).p) /\ fastPacket' = None
     ELSE UNCHANGED <<queue, fastPacket>>
  /\ stack' = Tail(stack)
  /\ UNCHANGED <<slowPacket, remote, routes, history>>

-----------------------------------------------------------------------------
(***************************************************************************)
(* Reading: InputConnector::operator().                                    *)
(***************************************************************************)

\* The handler that reads has taken a packet.
Taking == IF stack = << >> THEN stack ELSE <<[Head(stack) EXCEPT !.n = 1]>> \o Tail(stack)

\* Mutant: off by one, the source is told to go on while a packet is left.
DequeuedEarly(s) ==
  IF QueueSize(queue', fastPacket') <= Low + 1
  THEN SetUnthrottle(s)
  ELSE stack' = s /\ UNCHANGED <<native, peer>>

\* update(DEQUEUE), called from s.
Dequeued(s) ==
  IF QueueSize(queue', fastPacket') <= Low
  THEN SetUnthrottle(s)
  ELSE stack' = s /\ UNCHANGED <<native, peer>>

\* What fastPacket_ points to: the packet of the enqueue() that has set it, or, once an
\* exception has ended that call and not reset it, anything.
Dangling == \A i \in 1..Len(stack) : stack[i].at = "enqueue_fast" => stack[i].p # fastPacket
Referents == IF Dangling THEN 0..written ELSE {fastPacket}

ReadFast ==
  /\ InModule /\ Len(stack) < MaxDepth
  /\ fastPacket # None
  /\ fastPacket' = None
  /\ UNCHANGED <<queue, slowPacket>>
  /\ \E p \in Referents : Dequeued(<<Call("read_fast", p, 0)>> \o Taking)
  /\ UNCHANGED <<remote, routes, history>>

ReadSlow ==
  /\ InModule /\ Len(stack) < MaxDepth
  /\ fastPacket = None /\ queue # << >>
  /\ slowPacket' = Head(queue)
  /\ queue' = Tail(queue)
  /\ UNCHANGED fastPacket
  /\ Dequeued(<<Call("read_slow", Head(queue), 0)>> \o Taking)
  /\ UNCHANGED <<remote, routes, history>>

\* The read returns: a reference to the writer's packet, or to slowPacket_.
Returned == IF In("read_fast") THEN Head(stack).p ELSE slowPacket

ReadReturn ==
  /\ In("read_fast") \/ In("read_slow")
  /\ delivered' = Append(delivered, Returned)
  /\ stack' = Tail(stack)
  /\ left' = (left /\ ~empty)
  /\ UNCHANGED <<packetVars, throttleVars, written, lost>>

-----------------------------------------------------------------------------
(***************************************************************************)
(* Throttling.                                                             *)
(***************************************************************************)

Throttle ==
  /\ ModuleThrottles /\ MayThrottle
  /\ ~native
  /\ SetThrottle
  /\ UNCHANGED <<packetVars, remote, routes, stack, history>>

Unthrottle ==
  /\ ModuleThrottles /\ MayUnthrottle /\ Len(stack) < MaxDepth
  /\ native
  /\ SetUnthrottle(stack)
  /\ UNCHANGED <<packetVars, remote, routes, history>>

\* PassiveConnector::notifyThrottle(), forwarded by a route.
NotifyThrottle(r) ==
  /\ MayThrottle
  /\ r \notin routes
  /\ routes' = routes \cup {r}
  /\ remote' = TRUE
  /\ peer' = (peer \/ ~throttled)
  /\ UNCHANGED <<packetVars, native, stack, history>>

\* Mutant: nativeThrottled_ is not looked at.
NotifyUnthrottleAlways(r) ==
  /\ MayUnthrottle /\ Len(stack) < MaxDepth
  /\ r \in routes
  /\ routes' = routes \ {r}
  /\ remote' = (routes' # {})
  /\ IF routes' = {} THEN EmitUnthrottle(stack) ELSE UNCHANGED <<stack, peer>>
  /\ UNCHANGED <<packetVars, native, history>>

\* PassiveConnector::notifyUnthrottle(): the last throttled route is unthrottled.
NotifyUnthrottle(r) ==
  /\ MayUnthrottle /\ Len(stack) < MaxDepth
  /\ r \in routes
  /\ routes' = routes \ {r}
  /\ remote' = (routes' # {})
  /\ IF routes' = {} /\ ~native THEN EmitUnthrottle(stack) ELSE UNCHANGED <<stack, peer>>
  /\ UNCHANGED <<packetVars, native, history>>

\* Mutant: the handler is called once.
UnthrottleEventOnce ==
  /\ In("v_unthrottleEvent")
  /\ LET n == QueueSize(queue, fastPacket)
     IN  stack' = IF n = 0 THEN Tail(stack) ELSE Emit(Tail(stack))
  /\ UNCHANGED <<packetVars, throttleVars, history>>

\* One turn of the loop: stop if the queue is empty or nothing was taken from it.
UnthrottleEvent ==
  /\ In("v_unthrottleEvent")
  /\ LET n == QueueSize(queue, fastPacket)
     IN  stack' = IF n = 0 \/ n = Head(stack).n THEN Tail(stack)
                  ELSE Emit(<<Call("v_unthrottleEvent", None, n)>> \o Tail(stack))
  /\ UNCHANGED <<packetVars, throttleVars, history>>

-----------------------------------------------------------------------------
(***************************************************************************)
(* The callbacks.                                                          *)
(***************************************************************************)

\* The handler could take a packet and has not taken any.
TookNone == Head(stack).n = 0 /\ ~empty /\ ~throttled

\* The handler returns, after any number of reads; it need not take a packet.
CallbackReturn ==
  /\ In("callback_")
  /\ HandlersTake => ~TookNone
  /\ left' = (left \/ TookNone)
  /\ stack' = Tail(stack)
  /\ UNCHANGED <<packetVars, throttleVars, written, delivered, lost>>

UnthrottleCallbackReturn ==
  /\ In("unthrottleCallback_")
  /\ stack' = Tail(stack)
  /\ UNCHANGED <<packetVars, throttleVars, history>>

\* The packets the reads among the calls s have taken, and those of all reads in progress.
HeldBy(s) == {s[i].p : i \in {j \in 1..Len(s) : s[j].at \in Reads}}
Held == HeldBy(stack)

\* The innermost call of a kind.
Innermost(at) == SelectInSeq(stack, LAMBDA c : c.at = at)

\* Mutant: the packet is not queued.
ThrowDrops ==
  /\ In("callback_") \/ In("unthrottleCallback_")
  /\ fastPacket' = None
  /\ lost' = lost \cup Held
  /\ left' = (queue # << >>)
  /\ stack' = << >>
  /\ UNCHANGED <<queue, slowPacket, throttleVars, written, delivered>>

\* A callback throws through all calls.  enqueue() queues a packet nobody has taken if it
\* catches the exception, which it does if that is a senf::Exception; other exceptions
\* leave fastPacket_ set.
Throw ==
  /\ In("callback_") \/ In("unthrottleCallback_")
  /\ \E caught \in {TRUE, ~OtherExceptions} :
       IF caught /\ fastPacket # None /\ Innermost("enqueue_fast") # 0
       THEN /\ queue' = Append(queue, stack[Innermost("enqueue_fast")].p)
            /\ fastPacket' = None
       ELSE UNCHANGED <<queue, fastPacket>>
  /\ lost' = lost \cup Held
  /\ left' = (queue' # << >>)
  /\ stack' = << >>
  /\ UNCHANGED <<slowPacket, throttleVars, written, delivered>>

-----------------------------------------------------------------------------
Next ==
  \/ Write \/ Enqueued
  \/ ReadFast \/ ReadSlow \/ ReadReturn
  \/ Throttle \/ Unthrottle
  \/ \E r \in Route : NotifyThrottle(r) \/ NotifyUnthrottle(r)
  \/ UnthrottleEvent \/ CallbackReturn \/ UnthrottleCallbackReturn \/ Throw

Spec == Init /\ [][Next]_vars

-----------------------------------------------------------------------------
(***************************************************************************)
(* Properties.                                                             *)
(***************************************************************************)

Ats == Reads \cup Enqueues \cup {"callback_", "unthrottleCallback_", "v_unthrottleEvent"}

\* Type invariant.
TypeOK ==
  /\ queue \in Seq(Nat) /\ fastPacket \in Nat /\ slowPacket \in Nat
  /\ native \in BOOLEAN /\ remote \in BOOLEAN /\ peer \in BOOLEAN
  /\ routes \subseteq Route
  /\ stack \in Seq([at : Ats, p : Nat, n : Nat])
  /\ written \in Nat /\ delivered \in Seq(Nat) /\ left \in BOOLEAN

\* No packet is lost and none is read twice, however writes, reads, throttling and
\* exceptions nest ("The PPI will never loose a packet internally"): a packet is
\* queued, taken by a read in progress, was returned by exactly one read, or an
\* exception ended the read that had taken it.
NeverLost ==
  /\ IsInjective(delivered) /\ IsInjective(queue)
  /\ 1..written = ToSet(delivered) \cup ToSet(queue) \cup Held \cup lost
                  \cup ({fastPacket} \ {None})

\* Packets leave the input in the order they were written, on the fast path too:
\* whatever has been taken is older than what is left.
TakenInOrder ==
  /\ \A i, j \in 1..Len(queue) : i < j => queue[i] < queue[j]
  /\ \A p \in ToSet(delivered) \cup Held \cup lost, q \in ToSet(queue) : p < q
  /\ fastPacket # None => \A p \in ToSet(delivered) \cup Held \cup lost : p < fastPacket

\* The state the source was last notified of is the state of the input, whatever
\* calls are in progress: no notification is missing, or was overtaken by a nested one.
PeerAgrees == peer = throttled

\* An input that is not throttled has no packets left when no call is in progress,
\* unless an exception ended the call that would have handled them or a handler chose not
\* to take them: "Handlers of passive input connectors must be called repeatedly until
\* either the queue is empty or the handler does not take any packets from the queue"
\* (Mainpage.dox).
Drained == stack = << >> /\ ~throttled /\ ~left => queue = << >>

\* For a module that never throttles the input itself: once all its outputs are
\* unthrottled no packet is left in the queue, except for those an exception or a handler
\* that took nothing has left there.  Drained says this of the inputs that are not
\* throttled; here all handlers that had stopped taking packets may go on.
NotStuck == stack = << >> /\ routes = {} /\ ~left => queue = << >>

\* The connection hands packets over as PacketChannel says, on the fast path and from the
\* queue, whatever is nested: a packet on the fast path is the last of those that wait.
Waiting == IF fastPacket = None THEN queue ELSE Append(queue, fastPacket)
Channel == INSTANCE PacketChannel WITH waiting <- Waiting, taken <- Held
ImplementsChannel == Channel!Spec

-----------------------------------------------------------------------------
(***************************************************************************)
(* The inductive invariant of the four invariants above, for a discipline  *)
(* that unthrottles an empty queue, handlers that read first, nothing      *)
(* below a handler that ends a throttling, and exceptions enqueue()        *)
(* catches; with High > 1, for handlers that take what they can.           *)
(***************************************************************************)

\* Call i of s was made by a read, directly or not.
Nested(s, i) == \E j \in (i + 1)..Len(s) : s[j].at \in Reads

\* Call i of s is a handler that was called for a packet on the fast path.
OnFastPath(s, i) == i < Len(s) /\ s[i].at = "callback_" /\ s[i + 1].at = "enqueue_fast"

\* Who makes which call.
CalledBy(s, i) ==
  /\ s[i].at = "unthrottleCallback_" =>
       i < Len(s) /\ s[i + 1].at = "v_unthrottleEvent" /\ s[i + 1].n = 0
  /\ s[i].at \in Enqueues => i = Len(s) \/ s[i + 1].at = "unthrottleCallback_"
  /\ s[i].at = "callback_" =>
       /\ i < Len(s) /\ s[i].n \in {0, 1}
       /\ s[i + 1].at \in Enqueues \/ (s[i + 1].at = "v_unthrottleEvent" /\ s[i + 1].n # 0)
  /\ s[i].at \in Reads => i = Len(s) \/ (s[i + 1].at = "callback_" /\ s[i + 1].n = 1)
  /\ s[i].at = "v_unthrottleEvent" =>
       i = Len(s) \/ (s[i + 1].at \in Reads /\ ~OnFastPath(s, i + 2))

\* Whatever a read leads to is about packets on the fast path, and does not lead to
\* another read that unthrottles the input.
WellNested(s) ==
  \A i \in 1..Len(s) :
    /\ CalledBy(s, i)
    /\ Nested(s, i) => /\ s[i].at # "read_slow"
                       /\ s[i].at = "callback_" => OnFastPath(s, i)

\* The packets of the reads in progress.
HeldOnce ==
  \A i \in 1..Len(stack) : stack[i].at \in Reads =>
    /\ stack[i].p \notin ToSet(delivered)
    /\ stack[i].at = "read_slow" => stack[i].p = slowPacket
    /\ \A j \in 1..Len(stack) : j # i /\ stack[j].at \in Reads => stack[j].p # stack[i].p

\* A packet on the fast path is the only one, and its writer's call is in progress:
\* the handler has not read it yet, or was not called, or has left it.
FastAlone ==
  fastPacket # None =>
    /\ queue = << >> /\ stack # << >>
    /\ \/ stack[1].at = "enqueue_fast" /\ stack[1].p = fastPacket /\ (throttled \/ High <= 1)
       \/ OnFastPath(stack, 1) /\ stack[1].n = 0 /\ stack[2].p = fastPacket /\ ~throttled

\* A handler called for a packet on the fast path finds it, or has read it.
FastCallback ==
  \A i \in 1..Len(stack) : OnFastPath(stack, i) =>
    queue = << >> /\ (stack[i].n = 0 <=> fastPacket # None)

\* What is queued while a read is in progress is queued because the input is throttled.
NestedThrottled == Nested(stack, 1) => queue = << >> \/ throttled

\* The loop of v_unthrottleEvent() makes progress.
LoopProgress ==
  \A i \in 1..Len(stack) : stack[i].at = "v_unthrottleEvent" /\ stack[i].n # 0 =>
    \/ throttled \/ queue = << >> \/ left
    \/ QueueSize(queue, fastPacket) < stack[i].n
    \/ i = 2 /\ stack[1].n = 0 /\ QueueSize(queue, fastPacket) = stack[2].n

\* Packets that are left in the queue of an input that is not throttled are handled by
\* the v_unthrottleEvent() that called everything else.
Draining ==
  queue # << >> /\ ~throttled /\ ~left =>
    stack # << >> /\ stack[Len(stack)].at = "v_unthrottleEvent"

\* The calls, and what they say about the state of the input.
ControlInv ==
  /\ TypeOK
  /\ remote = (routes # {}) /\ PeerAgrees
  /\ WellNested(stack) /\ FastAlone /\ FastCallback /\ NestedThrottled
  /\ LoopProgress /\ Draining

\* Where the packets are.
DataInv == HeldOnce /\ NeverLost /\ TakenInOrder

IndInv == ControlInv /\ DataInv

=============================================================================
