---------------------------- MODULE TunnelProofs ----------------------------
(***************************************************************************)
(* The table of the tunnel server and its timer are right for every set of *)
(* clients and addresses, every timeout and every number of faults and     *)
(* datagrams in flight.                                                    *)
(***************************************************************************)
EXTENDS Tunnel, WellFoundedInduction, TLAPS

USE TunnelAssumption

\* A non-empty set of numbers up to n has a greatest element, which Max returns:
\* the client seen least recently, for which resetTimer() sets the timer.
LEMMA MaxBounded ==
  ASSUME NEW n \in Nat, NEW S \in SUBSET (0..n), S # {}
  PROVE  Max(S) \in S /\ \A x \in S : x <= Max(S)
<1> DEFINE T == {n - x : x \in S}
           R == {ss \in Nat \X Nat : ss[1] < ss[2]}
<1>1. T \subseteq Nat /\ T # {}
  OBVIOUS
<1>2. IsWellFoundedOn(R, Nat)
  BY NatLessThanWellFounded DEF OpToRel
<1> HIDE DEF T, R
<1>3. PICK t \in T : \A y \in T : <<y, t>> \notin R
  BY <1>1, <1>2, WFMin
<1>4. ASSUME NEW y \in T
      PROVE  t <= y
  <2>1. t \in Nat /\ y \in Nat
    BY <1>1
  <2>2. y < t => <<y, t>> \in R
    BY <2>1 DEF R
  <2>3. ~(y < t)
    BY <1>3, <2>2, Zenon
  <2> QED
    BY <2>1, <2>3
<1> USE DEF T
<1>5. PICK x \in S : t = n - x
  OBVIOUS
<1>6. \A y \in S : x >= y
  BY <1>4, <1>5
<1>7. \E z \in S : \A y \in S : z >= y
  BY <1>6
<1> QED
  BY <1>7 DEF Max

-----------------------------------------------------------------------------
Datagram == ToServer \cup ToClient

\* What the table of the server is at any time.
Table(clients) ==
  /\ DOMAIN clients \subseteq Client
  /\ \A c \in DOMAIN clients : clients[c] \in [addr : Addr, age : 0..Timeout]
  /\ \A c, d \in DOMAIN clients : clients[c].addr = clients[d].addr => c = d

\* What the timer is while those clients are on file.
Covers(clients, t) ==
  /\ t \in (0..Timeout) \cup {None}
  /\ \A c \in DOMAIN clients : t # None /\ t <= Timeout - clients[c].age

\* The invariant of the server.
ServerOK ==
  server \in {"up", "down", "crashed"} /\ Table(table) /\ Covers(table, timer)

\* The types of the clients.
ClientsOK ==
  /\ state \in [Client -> {"on", "off", "gone"}]
  /\ established \in [Client -> BOOLEAN] /\ age \in [Client -> 0..Timeout]
  /\ due \in [Client -> BOOLEAN] /\ addr \in [Client -> Addr]

FaultsOK == faults \in 0..MaxFaults /\ stable \in BOOLEAN

LEMMA IndInvParts ==
  /\ IndInv <=> ServerOK /\ ClientsOK /\ net \subseteq Datagram /\ FaultsOK
  /\ IndInv' <=> ServerOK' /\ ClientsOK' /\ net' \subseteq Datagram /\ FaultsOK'
BY DEF IndInv, TypeOK, AddrUnique, TimerCoversOldest, ServerOK, ClientsOK, FaultsOK, Table,
       Covers, Known, Datagram

LEMMA InitInv == Init => IndInv
<1> SUFFICES ASSUME Init PROVE IndInv
  OBVIOUS
<1>1. ServerOK
  BY DEF Init, ServerOK, Table, Covers
<1>2. ClientsOK
  BY DEF Init, ClientsOK
<1>3. net \subseteq Datagram
  BY DEF Init
<1>4. FaultsOK
  <2>1. faults \in 0..MaxFaults
    BY DEF Init
  <2>2. stable \in BOOLEAN
    BY DEF Init
  <2> QED
    BY <2>1, <2>2 DEF FaultsOK
<1> QED
  BY <1>1, <1>2, <1>3, <1>4, IndInvParts

\* resetTimer() sets the timer in time for every client on file.
LEMMA ResetTimerCovers ==
  ASSUME NEW clients, Table(clients), ResetTimer(clients)
  PROVE  Covers(clients, timer')
<1> DEFINE S == {clients[c].age : c \in DOMAIN clients}
<1>1. S \subseteq 0..Timeout /\ (DOMAIN clients # {} => S # {})
  BY DEF Table
<1>2. CASE DOMAIN clients = {}
  BY <1>2 DEF ResetTimer, Covers
<1>3. CASE DOMAIN clients # {}
  <2>1. Max(S) \in S /\ \A x \in S : x <= Max(S)
    <3> HIDE DEF S
    <3> QED
      BY <1>1, <1>3, MaxBounded
  <2>2. timer' = Timeout - Max(S) /\ Max(S) \in 0..Timeout
    BY <1>1, <1>3, <2>1 DEF ResetTimer
  <2> HIDE DEF S
  <2>3. timer' \in 0..Timeout /\ timer' # None
    BY <2>2
  <2>4. ASSUME NEW c \in DOMAIN clients
        PROVE  timer' <= Timeout - clients[c].age
    <3>1. clients[c].age \in S /\ clients[c].age \in 0..Timeout
      BY <1>1 DEF S
    <3> QED
      BY <2>1, <2>2, <3>1
  <2> QED
    BY <2>3, <2>4 DEF Covers
<1> QED
  BY <1>2, <1>3

\* Whatever is sent, lost or arrives twice, only datagrams are in flight.
LEMMA TransferNet ==
  ASSUME net \subseteq Datagram, NEW m, NEW sent \in SUBSET Datagram, Transfer(m, sent)
  PROVE  net' \subseteq Datagram
BY DEF Transfer, Send

LEMMA SendNet ==
  ASSUME net \subseteq Datagram, NEW sent \in SUBSET Datagram, Send(net, sent)
  PROVE  net' \subseteq Datagram
BY DEF Send

LEMMA ReplyNet ==
  ASSUME NEW clients, Table(clients), NEW c, NEW code \in ClientCode
  PROVE  Reply(clients, c, code) \subseteq Datagram
BY DEF Reply, Table, Datagram, ToClient

LEMMA RequestNet ==
  ASSUME ClientsOK, NEW c \in Client, NEW code \in ServerCode
  PROVE  Request(c, code) \in Datagram
BY DEF Request, ClientsOK, Datagram, ToServer

-----------------------------------------------------------------------------
\* The table with the entry of a client that was heard of just now: an address
\* that no other client has keeps the index by address unique.
LEMMA SeenTable ==
  ASSUME Table(table), NEW c \in Client, NEW a \in Addr,
         \A d \in Known \ {c} : table[d].addr # a
  PROVE  Table(Seen(c, a))
BY DEF Table, Seen, Known

\* So does the table without some clients.
LEMMA LessTable ==
  ASSUME Table(table), NEW K \in SUBSET Known
  PROVE  Table([d \in K |-> table[d]])
BY DEF Table, Known

\* A request that arrives at the server.
LEMMA ServerReceiveInv ==
  ASSUME IndInv, NEW m \in net, ServerReceive(m)
  PROVE  IndInv'
<1>1. ServerOK /\ ClientsOK /\ net \subseteq Datagram /\ FaultsOK /\ Table(table)
  BY IndInvParts DEF ServerOK
<1>2. m \in ToServer /\ m.mac \in Client /\ m.addr \in Addr
  BY <1>1 DEF ServerReceive, Datagram, ToServer, ToClient
<1>3. ClientsOK' /\ FaultsOK'
  BY <1>1 DEF ServerReceive, ClientsOK, FaultsOK, clientVars
<1>4. ASSUME SetupNew(m)
      PROVE  ServerOK' /\ net' \subseteq Datagram
  <2>1. Table(Seen(m.mac, m.addr))
    BY <1>1, <1>2, <1>4, SeenTable DEF SetupNew, KnownAddr
  <2>2. Reply(Seen(m.mac, m.addr), m.mac, "SetupAck") \subseteq Datagram
    BY <2>1, ReplyNet DEF ClientCode
  <2>3. net' \subseteq Datagram
    BY <1>1, <1>4, <2>2, TransferNet DEF SetupNew
  <2>4. Covers(Seen(m.mac, m.addr), timer')
    BY <1>4, <2>1, ResetTimerCovers DEF SetupNew
  <2> QED
    BY <1>1, <1>4, <2>1, <2>3, <2>4 DEF SetupNew, ServerOK
<1>5. ASSUME SetupRejected(m)
      PROVE  ServerOK' /\ net' \subseteq Datagram
  <2>1. Reply(table, m.mac, "SetupReject") \subseteq Datagram
    BY <1>1, ReplyNet DEF ClientCode
  <2>2. net' \subseteq Datagram
    BY <1>1, <1>5, <2>1, TransferNet DEF SetupRejected
  <2>3. ServerOK'
    BY <1>1, <1>5 DEF SetupRejected, Crash, serverVars, ServerOK, Table, Covers
  <2> QED
    BY <2>2, <2>3
<1>6. ASSUME NEW code \in ClientCode, Refresh(m, code)
      PROVE  ServerOK' /\ net' \subseteq Datagram
  <2> DEFINE a == IF m.addr \in KnownAddr THEN table[m.mac].addr ELSE m.addr
             clients == Seen(m.mac, a)
  <2>1. m.mac \in Known /\ a \in Addr /\ \A d \in Known \ {m.mac} : table[d].addr # a
    BY <1>1, <1>2, <1>6 DEF Refresh, Table, KnownAddr, Known
  <2>2. Table(clients)
    <3> HIDE DEF a
    <3> QED
      BY <1>1, <1>2, <2>1, SeenTable
  <2>3. table' = clients /\ ResetTimer(clients) /\ Transfer(m, Reply(clients, m.mac, code))
        /\ server' = server
    BY <1>6 DEF Refresh
  <2> HIDE DEF clients
  <2>4. Reply(clients, m.mac, code) \subseteq Datagram
    BY <1>6, <2>2, ReplyNet
  <2>5. net' \subseteq Datagram
    BY <1>1, <2>3, <2>4, TransferNet
  <2>6. Covers(clients, timer')
    BY <2>2, <2>3, ResetTimerCovers
  <2> QED
    BY <1>1, <2>2, <2>3, <2>5, <2>6 DEF ServerOK
<1>7. ASSUME Remove(m)
      PROVE  ServerOK' /\ net' \subseteq Datagram
  <2> DEFINE clients == [d \in Known \ {m.mac} |-> table[d]]
  <2>1. Table(clients)
    BY <1>1, LessTable
  <2>2. Covers(clients, timer)
    BY <1>1 DEF ServerOK, Covers, Known
  <2>3. Reply(clients, m.mac, "TerminateAck") \subseteq Datagram
    <3> HIDE DEF clients
    <3> QED
      BY <2>1, ReplyNet DEF ClientCode
  <2>4. table' = clients /\ Transfer(m, Reply(clients, m.mac, "TerminateAck"))
        /\ UNCHANGED <<server, timer>>
    BY <1>7 DEF Remove
  <2> HIDE DEF clients
  <2>5. net' \subseteq Datagram
    BY <1>1, <2>3, <2>4, TransferNet
  <2> QED
    BY <1>1, <2>1, <2>2, <2>4, <2>5 DEF ServerOK
<1>8. ASSUME Ignore(m)
      PROVE  ServerOK' /\ net' \subseteq Datagram
  BY <1>1, <1>8, TransferNet DEF Ignore, serverVars, ServerOK
<1>9. \/ SetupNew(m) \/ SetupRejected(m) \/ Refresh(m, "SetupAck")
      \/ Refresh(m, "EchoReply") \/ Remove(m) \/ Ignore(m)
  <2>1. m.code \in ServerCode
    BY <1>2 DEF ToServer
  <2> QED
    BY <2>1 DEF ServerReceive, ServerCode
<1>10. ServerOK' /\ net' \subseteq Datagram
  BY <1>4, <1>5, <1>6, <1>7, <1>8, <1>9 DEF ClientCode
<1> QED
  BY <1>3, <1>10, IndInvParts

\* processTimeout() of the server, and its being disabled, enabled, killed and started.
LEMMA ServerOtherInv ==
  ASSUME IndInv,
         ServerTimeout \/ ServerDisable \/ ServerEnable \/ ServerCrash \/ ServerRestart
  PROVE  IndInv'
<1>1. ServerOK /\ ClientsOK /\ net \subseteq Datagram /\ FaultsOK /\ Table(table)
  BY IndInvParts DEF ServerOK
<1>2. ASSUME ServerTimeout
      PROVE  IndInv'
  <2>1. ClientsOK' /\ net' \subseteq Datagram /\ FaultsOK'
    BY <1>1, <1>2 DEF ServerTimeout, ClientsOK, FaultsOK, clientVars
  <2>2. CASE Crash
    BY <2>1, <2>2, IndInvParts DEF Crash, ServerOK, Table, Covers
  <2>3. CASE \E c \in Known : /\ table' = [d \in Known \ {c} |-> table[d]]
                              /\ ResetTimer(table') /\ UNCHANGED server
    <3>1. Table(table')
      BY <1>1, <2>3, LessTable
    <3>2. Covers(table', timer')
      BY <2>3, <3>1, ResetTimerCovers
    <3> QED
      BY <1>1, <2>1, <2>3, <3>1, <3>2, IndInvParts DEF ServerOK
  <2> QED
    BY <1>2, <2>2, <2>3 DEF ServerTimeout
<1>3. ASSUME Fault
      PROVE  FaultsOK'
  BY <1>1, <1>3 DEF Fault, FaultsOK
<1>4. ASSUME ServerDisable
      PROVE  IndInv'
  <2>1. PICK heard \in SUBSET Known :
          Send(net, UNION {Reply(table, c, "TerminateRequest") : c \in heard})
    BY <1>4 DEF ServerDisable
  <2>2. \A c \in heard : Reply(table, c, "TerminateRequest") \subseteq Datagram
    BY <1>1, ReplyNet DEF ClientCode
  <2>3. UNION {Reply(table, c, "TerminateRequest") : c \in heard} \subseteq Datagram
    BY <2>2
  <2>4. net' \subseteq Datagram
    BY <1>1, <2>1, <2>3, SendNet
  <2>5. ServerOK' /\ ClientsOK'
    BY <1>1, <1>4 DEF ServerDisable, ServerOK, ClientsOK, clientVars
  <2> QED
    BY <1>3, <1>4, <2>4, <2>5, IndInvParts DEF ServerDisable
<1>5. ASSUME ServerEnable \/ ServerCrash
      PROVE  IndInv'
  <2>1. ServerOK' /\ ClientsOK' /\ net' \subseteq Datagram
    BY <1>1, <1>5 DEF ServerEnable, ServerCrash, Crash, ServerOK, Table, Covers, ClientsOK,
                      clientVars
  <2> QED
    BY <1>3, <1>5, <2>1, IndInvParts DEF ServerEnable, ServerCrash
<1>6. ASSUME ServerRestart
      PROVE  IndInv'
  BY <1>1, <1>6, IndInvParts DEF ServerRestart, ServerOK, ClientsOK, clientVars, FaultsOK
<1> QED
  BY <1>2, <1>4, <1>5, <1>6

\* The steps of a client, and a datagram that arrives at it.
LEMMA ClientInv ==
  ASSUME IndInv, NEW c \in Client,
         \/ ClientReset(c) \/ ClientDisable(c) \/ ClientCrash(c) \/ ClientMove(c)
         \/ ClientTimeout(c) \/ \E m \in net : ClientReceive(c, m)
  PROVE  IndInv'
<1>1. ServerOK /\ ClientsOK /\ net \subseteq Datagram /\ FaultsOK
  BY IndInvParts
<1>2. UNCHANGED serverVars
  BY DEF ClientReset, ClientDisable, ClientCrash, ClientMove, ClientTimeout, ClientReceive
<1>3. ServerOK'
  BY <1>1, <1>2 DEF serverVars, ServerOK
<1>4. ASSUME NEW to \in {"on", "off", "gone"}, Forget(c, to), addr' = addr
      PROVE  ClientsOK'
  BY <1>1, <1>4 DEF Forget, ClientsOK
<1>5. ClientsOK'
  <2>1. CASE ClientReset(c) \/ ClientDisable(c) \/ ClientCrash(c)
    BY <1>4, <2>1 DEF ClientReset, ClientDisable, ClientCrash
  <2>2. CASE ClientMove(c)
    BY <1>1, <2>2 DEF ClientMove, ClientsOK
  <2>3. CASE ClientTimeout(c)
    BY <1>1, <2>3 DEF ClientTimeout, ClientsOK
  <2>4. CASE \E m \in net : ClientReceive(c, m)
    BY <1>1, <2>4 DEF ClientReceive, ClientsOK
  <2> QED
    BY <2>1, <2>2, <2>3, <2>4
<1>6. FaultsOK'
  BY <1>1 DEF ClientReset, ClientDisable, ClientCrash, ClientMove, ClientTimeout,
              ClientReceive, Fault, FaultsOK
<1>7. net' \subseteq Datagram
  <2>1. \A code \in ServerCode : {Request(c, code)} \subseteq Datagram
    BY <1>1, RequestNet
  <2>2. CASE ClientReset(c) \/ ClientDisable(c) \/ ClientTimeout(c)
    <3>1. \E sent \in SUBSET Datagram : Send(net, sent)
      BY <2>1, <2>2 DEF ClientReset, ClientDisable, ClientTimeout, ServerCode
    <3> QED
      BY <1>1, <3>1, SendNet
  <2>3. CASE ClientCrash(c) \/ ClientMove(c)
    BY <1>1, <2>3 DEF ClientCrash, ClientMove
  <2>4. CASE \E m \in net : ClientReceive(c, m)
    <3>1. PICK m \in net : Transfer(m, {})
      BY <2>4 DEF ClientReceive
    <3> QED
      BY <1>1, <3>1, TransferNet
  <2> QED
    BY <2>2, <2>3, <2>4
<1> QED
  BY <1>3, <1>5, <1>6, <1>7, IndInvParts

\* A datagram that nobody gets, and the end of all faults.
LEMMA OtherInv ==
  ASSUME IndInv, Stabilise \/ \E m \in net : Vanish(m)
  PROVE  IndInv'
<1>1. ServerOK /\ ClientsOK /\ net \subseteq Datagram /\ FaultsOK
  BY IndInvParts
<1>2. ServerOK' /\ ClientsOK' /\ net' \subseteq Datagram /\ FaultsOK'
  BY <1>1 DEF Stabilise, Vanish, serverVars, clientVars, ServerOK, ClientsOK, FaultsOK
<1> QED
  BY <1>2, IndInvParts

\* While time passes the timer of the server keeps up with the clients: it does not
\* pass an expired timer, so that no client on file is older than the timeout.
LEMMA TickInv ==
  ASSUME IndInv, Tick
  PROVE  IndInv'
<1>1. ServerOK /\ ClientsOK /\ net \subseteq Datagram /\ FaultsOK
  BY IndInvParts
<1>2. \A n \in 0..Timeout : Older(n) \in 0..Timeout
  BY DEF Older
<1>3. ClientsOK'
  BY <1>1, <1>2 DEF Tick, ClientsOK
<1>4. net' \subseteq Datagram /\ FaultsOK'
  BY <1>1 DEF Tick, FaultsOK
<1>5. Table(table')
  BY <1>1, <1>2 DEF Tick, ServerOK, Table, Known
<1>6. timer' \in (0..Timeout) \cup {None}
  <2>1. CASE timer = None
    BY <2>1 DEF Tick
  <2>2. CASE timer # None
    <3>1. timer \in 0..Timeout /\ timer # 0 /\ timer' = timer - 1
      BY <1>1, <2>2 DEF Tick, ServerOK, Covers
    <3> QED
      BY <3>1
  <2> QED
    BY <2>1, <2>2
<1>7. ASSUME NEW d \in DOMAIN table'
      PROVE  timer' # None /\ timer' <= Timeout - table'[d].age
  <2>1. d \in Known /\ table'[d].age = Older(table[d].age)
    BY <1>1, <1>7 DEF Tick, Known, ServerOK, Table
  <2>2. table[d].age \in 0..Timeout /\ timer # None /\ timer <= Timeout - table[d].age
    BY <1>1, <2>1 DEF ServerOK, Table, Covers, Known
  <2>3. timer \in 1..Timeout /\ timer' = timer - 1
    BY <1>1, <2>2 DEF Tick, ServerOK, Covers
  <2> QED
    BY <2>1, <2>2, <2>3 DEF Older
<1>8. ServerOK'
  BY <1>1, <1>5, <1>6, <1>7 DEF Tick, ServerOK, Covers
<1> QED
  BY <1>3, <1>4, <1>8, IndInvParts

LEMMA NextInv == IndInv /\ [Next]_vars => IndInv'
<1> SUFFICES ASSUME IndInv, [Next]_vars PROVE IndInv'
  OBVIOUS
<1>1. CASE Next
  BY <1>1, ServerReceiveInv, ServerOtherInv, ClientInv, OtherInv, TickInv DEF Next, Deliver
<1>2. CASE UNCHANGED vars
  BY <1>2, IndInvParts DEF vars, serverVars, clientVars, ServerOK, ClientsOK, FaultsOK
<1> QED
  BY <1>1, <1>2

\* The table and the timer of the server are right in every reachable state, however
\* datagrams, timeouts and faults interleave.
THEOREM Invariance == Spec => []IndInv
BY InitInv, NextInv, PTL DEF Spec

\* No two clients are ever on file with the same address (v_handleCtrlPacket()).
THEOREM AddressesUnique == Spec => []AddrUnique
<1>1. IndInv => AddrUnique
  BY DEF IndInv
<1> QED
  BY <1>1, Invariance, PTL

\* resetTimer() and processTimeout() keep the timer ahead of every client on file.
THEOREM TimerInTime == Spec => []TimerCoversOldest
<1>1. IndInv => TimerCoversOldest
  BY DEF IndInv
<1> QED
  BY <1>1, Invariance, PTL

=============================================================================
