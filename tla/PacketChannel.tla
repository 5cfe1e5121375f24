--------------------------- MODULE PacketChannel ----------------------------
(***************************************************************************)
(* What a PPI connection promises the two modules it connects, without its *)
(* calls: every packet that is written waits in the connection, is taken   *)
(* by a read in the order the packets were written, and is returned by     *)
(* that read and no other, unless an exception ends the read.  The source  *)
(* is told to stop and to go on; a read tells it to go on only when no     *)
(* more packets than the low threshold are left.                           *)
(***************************************************************************)
EXTENDS Naturals, Sequences

CONSTANT Low      \* the low threshold of the throttling discipline

VARIABLES
  written,    \* packets written are 1..written
  waiting,    \* packets in the connection, the oldest first
  taken,      \* packets of the reads in progress
  delivered,  \* packets returned by reads
  peer        \* the source has been told to stop

vars == <<written, waiting, taken, delivered, peer>>

Init ==
  /\ written = 0 /\ waiting = << >> /\ taken = {} /\ delivered = << >> /\ peer = FALSE

\* The source writes a packet, whether it has been told to stop or not.
Write ==
  /\ written' = written + 1
  /\ waiting' = Append(waiting, written')
  /\ UNCHANGED <<taken, delivered, peer>>

\* A read takes the oldest packet.
Read ==
  /\ waiting # << >>
  /\ waiting' = Tail(waiting)
  /\ taken' = taken \cup {Head(waiting)}
  /\ peer' = peer \/ (peer' = FALSE /\ Len(waiting') <= Low)
  /\ UNCHANGED <<written, delivered>>

\* A read returns the packet it has taken.
Return ==
  /\ \E p \in taken : taken' = taken \ {p} /\ delivered' = Append(delivered, p)
  /\ UNCHANGED <<written, waiting, peer>>

\* An exception ends all reads in progress.
Throw == taken' = {} /\ UNCHANGED <<written, waiting, delivered, peer>>

\* The source is told to stop, or to go on.
Notify == peer' = ~peer /\ UNCHANGED <<written, waiting, taken, delivered>>

Next == Write \/ Read \/ Return \/ Throw \/ Notify

Spec == Init /\ [][Next]_vars
=============================================================================
