------------------------------- MODULE Tunnel -------------------------------
(***************************************************************************)
(* The control protocol of the point-to-point tunnel of NetEmu             *)
(* (Ext/NetEmu/P2PTunnel): one server and several clients that exchange    *)
(* UDP datagrams, which may be lost, duplicated and reordered.  A client   *)
(* sets up the tunnel, then sends an echo request every second; the server *)
(* files clients by MAC and by internet address and forgets those it has   *)
(* not heard of for the timeout.  Clients and server crash and are         *)
(* restarted, are enabled and disabled, and clients change their address.  *)
(*                                                                         *)
(* Time is counted in echo intervals.  After Stabilise there are no more   *)
(* faults, and a datagram arrives within the interval it is sent in.       *)
(***************************************************************************)
EXTENDS Integers, FiniteSets, FiniteSetsExt

CONSTANTS
  Client,    \* clients, by MAC address
  Foreign,   \* those of another implementation, which can be disabled when established
  Addr,      \* internet addresses of clients
  Home,      \* the addresses a client may get while the others are there
  None,
  Timeout,   \* timeout() in echo intervals, set once before the interfaces are enabled
  MaxNet,    \* bound of the datagrams in flight
  MaxFaults  \* bound of the crashes, restarts, changes of address, ...

ASSUME TunnelAssumption ==
  /\ Foreign \subseteq Client /\ None \notin Addr /\ None \notin Nat
  /\ Timeout \in Nat /\ Timeout > 1    \* v_timeoutChanged() does not check this
  /\ MaxNet \in Nat /\ MaxFaults \in Nat
  /\ Home \in [Client -> (SUBSET Addr) \ {{}}]
  /\ \A c, d \in Client : c # d => Home[c] \cap Home[d] = {}

VARIABLES
  server,       \* "up"; "down": disabled; "crashed"
  table,        \* clients_: address and time since last seen, of the clients on file
  timer,        \* timer_ of the server: time that is left, or None
  state,        \* of a client: "on"; "off"; "gone" for good
  established,  \* established_
  age,          \* time since serverLastSeen_; Timeout: longer, or not established
  due,          \* the timer of the client has expired
  addr,         \* its internet address
  net,          \* datagrams in flight
  faults,       \* number of faults so far
  stable        \* no more faults

serverVars == <<server, table, timer>>
clientVars == <<state, established, age, due, addr>>
vars == <<serverVars, clientVars, net, faults, stable>>

\* The codes of the control protocol, by the direction they are sent in.
ServerCode == {"SetupRequest", "TerminateRequest", "EchoRequest"}
ClientCode == {"SetupAck", "SetupReject", "TerminateRequest", "TerminateAck", "EchoReply"}

\* Datagrams to the server carry MAC and address of the sender.
ToServer == [to : {"server"}, mac : Client, addr : Addr, code : ServerCode]
ToClient == [to : {"client"}, addr : Addr, code : ClientCode]

Request(c, code) == [to |-> "server", mac |-> c, addr |-> addr[c], code |-> code]

\* The clients have been enabled, and their timers are about to expire.
Init ==
  /\ server = "up" /\ table = [c \in {} |-> None] /\ timer = None
  /\ state = [c \in Client |-> "on"]
  /\ established = [c \in Client |-> FALSE]
  /\ age = [c \in Client |-> Timeout]
  /\ due = [c \in Client |-> TRUE]
  /\ addr = [c \in Client |-> CHOOSE a \in Home[c] : TRUE]
  /\ net = {} /\ faults = 0 /\ stable = FALSE

Fault == ~stable /\ faults < MaxFaults /\ faults' = faults + 1 /\ UNCHANGED stable

\* sendPkt(): what is sent joins what is in flight, or is lost.
Send(flying, sent) ==
  \/ /\ stable \/ Cardinality(flying \cup sent) <= MaxNet
     /\ net' = flying \cup sent
  \/ ~stable /\ net' = flying

\* The arrival of a datagram, which may arrive again later, and the answers to it.
Transfer(m, sent) == Send(net \ {m}, sent) \/ (~stable /\ Send(net, sent))

-----------------------------------------------------------------------------
(***************************************************************************)
(* The server.                                                             *)
(***************************************************************************)

Known == DOMAIN table
KnownAddr == {table[c].addr : c \in Known}

\* resetTimer(): the timer expires when the client seen least recently times out.
ResetTimer(clients) ==
  timer' = IF DOMAIN clients = {} THEN None
           ELSE Timeout - Max({clients[c].age : c \in DOMAIN clients})

\* The entry of a client that was heard of just now at some address.
Seen(c, a) ==
  [d \in Known \cup {c} |-> IF d = c THEN [addr |-> a, age |-> 0] ELSE table[d]]

\* sendCtrlPacket() to a client: the address is looked up, after the table was changed.
\* What is sent to a client that is not on file goes nowhere.
Reply(clients, c, code) ==
  IF c \in DOMAIN clients
  THEN {[to |-> "client", addr |-> clients[c].addr, code |-> code]} ELSE {}

\* Mutant: the address is updated without looking whether another client has it.
RefreshAlways(m, code) ==
  LET clients == Seen(m.mac, m.addr)
  IN  /\ m.mac \in Known
      /\ table' = clients /\ ResetTimer(clients)
      /\ Transfer(m, Reply(clients, m.mac, code))
      /\ UNCHANGED server

\* A known client: its address is updated unless the new one is on file already.
Refresh(m, code) ==
  LET clients == Seen(m.mac, IF m.addr \in KnownAddr THEN table[m.mac].addr ELSE m.addr)
  IN  /\ m.mac \in Known
      /\ table' = clients /\ ResetTimer(clients)
      /\ Transfer(m, Reply(clients, m.mac, code))
      /\ UNCHANGED server

\* Mutant: a new client does not set the timer.
SetupNewNoTimer(m) ==
  LET clients == Seen(m.mac, m.addr)
  IN  /\ m.mac \notin Known /\ m.addr \notin KnownAddr
      /\ table' = clients
      /\ Transfer(m, Reply(clients, m.mac, "SetupAck"))
      /\ UNCHANGED <<server, timer>>

\* A new client.
SetupNew(m) ==
  LET clients == Seen(m.mac, m.addr)
  IN  /\ m.mac \notin Known /\ m.addr \notin KnownAddr
      /\ table' = clients /\ ResetTimer(clients)
      /\ Transfer(m, Reply(clients, m.mac, "SetupAck"))
      /\ UNCHANGED server

Crash == server' = "crashed" /\ table' = [c \in {} |-> None] /\ timer' = None

\* Mutant: the client on file is taken for the one that asks.
SetupRejectedSeen(m) ==
  /\ m.mac \notin Known /\ m.addr \in KnownAddr
  /\ table' = [c \in Known |-> IF table[c].addr = m.addr THEN [table[c] EXCEPT !.age = 0]
                                                       ELSE table[c]]
  /\ ResetTimer(table')
  /\ Transfer(m, Reply(table, m.mac, "SetupReject"))
  /\ UNCHANGED server

\* A new client at the address of another one is rejected; then the capacity of
\* clients_by_macAddr_.end() is modified, which may have no effect or crash.
SetupRejected(m) ==
  /\ m.mac \notin Known /\ m.addr \in KnownAddr
  /\ Crash \/ UNCHANGED serverVars
  /\ Transfer(m, Reply(table, m.mac, "SetupReject"))

\* A client that terminates the tunnel is removed; the timer is left as it is.
Remove(m) ==
  LET clients == [d \in Known \ {m.mac} |-> table[d]]
  IN  /\ m.mac \in Known /\ m.addr \in KnownAddr
      /\ table' = clients
      /\ Transfer(m, Reply(clients, m.mac, "TerminateAck"))
      /\ UNCHANGED <<server, timer>>

\* Echo and terminate requests of unknown clients.
Ignore(m) ==
  /\ Transfer(m, {})
  /\ UNCHANGED serverVars

\* v_handleCtrlPacket() of the server, for what clients send to it: all set-up requests
\* have a capacity, and no client sends a code that is an answer.
ServerReceive(m) ==
  /\ server = "up" /\ m.to = "server"
  /\ CASE m.code = "SetupRequest" ->
            SetupNew(m) \/ SetupRejected(m) \/ Refresh(m, "SetupAck")
       [] m.code = "EchoRequest" ->
            Refresh(m, "EchoReply") \/ (m.mac \notin Known /\ Ignore(m))
       [] m.code = "TerminateRequest" ->
            Remove(m) \/ (~(m.mac \in Known /\ m.addr \in KnownAddr) /\ Ignore(m))
  /\ UNCHANGED <<clientVars, faults, stable>>

\* processTimeout() of the server removes the client seen least recently.  There is
\* none if the last one has terminated: SENF_ASSERT(!clients_.empty()).
ServerTimeout ==
  /\ timer = 0
  /\ \/ Known = {} /\ Crash
     \/ \E c \in Known :
          /\ \A d \in Known : table[d].age <= table[c].age
          /\ table' = [d \in Known \ {c} |-> table[d]]
          /\ ResetTimer(table') /\ UNCHANGED server
  /\ UNCHANGED <<clientVars, net, faults, stable>>

\* v_disable(): terminateAllClients(); the clients stay on file.
ServerDisable ==
  /\ server = "up" /\ Fault
  /\ server' = "down"
  /\ \E heard \in SUBSET Known :
       Send(net, UNION {Reply(table, c, "TerminateRequest") : c \in heard})
  /\ UNCHANGED <<table, timer, clientVars>>

\* v_enable()
ServerEnable ==
  /\ server = "down" /\ Fault
  /\ server' = "up"
  /\ UNCHANGED <<table, timer, clientVars, net>>

ServerCrash ==
  /\ server # "crashed" /\ Fault
  /\ Crash
  /\ UNCHANGED <<clientVars, net>>

\* The program of the server is started again.
ServerRestart ==
  /\ server = "crashed"
  /\ server' = "up"
  /\ UNCHANGED <<table, timer, clientVars, net, faults, stable>>

-----------------------------------------------------------------------------
(***************************************************************************)
(* A client.                                                               *)
(***************************************************************************)

\* Nothing is left of the tunnel.
Forget(c, to) ==
  /\ state' = [state EXCEPT ![c] = to]
  /\ established' = [established EXCEPT ![c] = FALSE]
  /\ age' = [age EXCEPT ![c] = Timeout]
  /\ due' = [due EXCEPT ![c] = FALSE]

\* v_enable() and reset(), also when serverAddress() is called; the program may have
\* been started again.
ClientReset(c) ==
  /\ state[c] # "gone" /\ Fault
  /\ Forget(c, "on")
  /\ Send(net, {Request(c, "SetupRequest")})
  /\ UNCHANGED <<serverVars, addr>>

\* v_disable(): the socket is released before reset(), which sends a TerminateRequest
\* through it if the tunnel is established; this ends the program.  Another
\* implementation sends it.
ClientDisable(c) ==
  /\ state[c] = "on" /\ Fault
  /\ Forget(c, "off")
  /\ Send(net, IF established[c] /\ c \in Foreign THEN {Request(c, "TerminateRequest")} ELSE {})
  /\ UNCHANGED <<serverVars, addr>>

ClientCrash(c) ==
  /\ state[c] = "on" /\ Fault
  /\ Forget(c, "gone")
  /\ UNCHANGED <<serverVars, addr, net>>

\* A client gets another address.
ClientMove(c) ==
  /\ state[c] = "on" /\ Fault
  /\ \E a \in Addr \ {addr[c]} :
       /\ \A d \in Client \ {c} : a \in Home[d] => state[d] = "gone"
       /\ addr' = [addr EXCEPT ![c] = a]
  /\ UNCHANGED <<serverVars, state, established, age, due, net>>

\* Mutant: an established client goes on for ever.
ClientTimeoutTrusting(c) ==
  /\ state[c] = "on" /\ due[c]
  /\ due' = [due EXCEPT ![c] = FALSE]
  /\ Send(net, {Request(c, IF established[c] THEN "EchoRequest" ELSE "SetupRequest")})
  /\ UNCHANGED <<serverVars, state, established, age, addr, faults, stable>>

\* processTimeout() of a client.
ClientTimeout(c) ==
  /\ state[c] = "on" /\ due[c]
  /\ due' = [due EXCEPT ![c] = FALSE]
  /\ established' = [established EXCEPT ![c] = @ /\ age[c] < Timeout]
  /\ Send(net, {Request(c, IF established'[c] THEN "EchoRequest" ELSE "SetupRequest")})
  /\ UNCHANGED <<serverVars, state, age, addr, faults, stable>>

\* v_handleCtrlPacket() of a client.
ClientReceive(c, m) ==
  /\ state[c] = "on" /\ m.to = "client" /\ m.addr = addr[c]
  /\ established' = [established EXCEPT ![c] =
                       \/ m.code = "SetupAck"
                       \/ @ /\ m.code \notin {"SetupReject", "TerminateRequest", "TerminateAck"}]
  /\ age' = [age EXCEPT ![c] = IF established'[c] THEN 0 ELSE Timeout]
  /\ Transfer(m, {})
  /\ UNCHANGED <<serverVars, state, due, addr, faults, stable>>

-----------------------------------------------------------------------------
\* A datagram arrives where no socket is open.
Vanish(m) ==
  /\ \/ m.to = "server" /\ server # "up"
     \/ m.to = "client" /\ \A c \in Client : addr[c] = m.addr => state[c] # "on"
  /\ net' = net \ {m}
  /\ UNCHANGED <<serverVars, clientVars, faults, stable>>

\* A time, in a range that ends at the timeout.
Older(n) == IF n = Timeout THEN n ELSE n + 1

\* An echo interval passes.
Tick ==
  /\ timer # 0 /\ \A c \in Client : ~due[c]
  /\ stable => net = {} /\ server # "crashed"
  /\ age' = [c \in Client |-> Older(age[c])]
  /\ table' = [c \in Known |-> [table[c] EXCEPT !.age = Older(@)]]
  /\ timer' = IF timer = None THEN None ELSE timer - 1
  /\ due' = [c \in Client |-> state[c] = "on"]
  /\ UNCHANGED <<server, state, established, addr, net, faults, stable>>

Stabilise ==
  /\ ~stable
  /\ stable' = TRUE
  /\ UNCHANGED <<serverVars, clientVars, net, faults>>

Deliver == \E m \in net : ServerReceive(m) \/ Vanish(m) \/ \E c \in Client : ClientReceive(c, m)

Next ==
  \/ Deliver \/ ServerTimeout \/ ServerDisable \/ ServerEnable \/ ServerCrash \/ ServerRestart
  \/ \E c \in Client : \/ ClientReset(c) \/ ClientDisable(c) \/ ClientCrash(c) \/ ClientMove(c)
                       \/ ClientTimeout(c)
  \/ Tick \/ Stabilise

Spec == Init /\ [][Next]_vars

\* Timers expire, datagrams are delivered, a crashed server is started again, and there
\* are no more faults in the end.
FairSpec ==
  /\ Spec
  /\ WF_vars(Deliver) /\ WF_vars(ServerTimeout) /\ WF_vars(ServerRestart)
  /\ \A c \in Client : WF_vars(ClientTimeout(c))
  /\ WF_vars(Tick) /\ WF_vars(Stabilise)

-----------------------------------------------------------------------------
(***************************************************************************)
(* Properties.                                                             *)
(***************************************************************************)

\* Type invariant.
TypeOK ==
  /\ server \in {"up", "down", "crashed"}
  /\ Known \subseteq Client
  /\ \A c \in Known : table[c] \in [addr : Addr, age : 0..Timeout]
  /\ timer \in (0..Timeout) \cup {None}
  /\ state \in [Client -> {"on", "off", "gone"}]
  /\ established \in [Client -> BOOLEAN] /\ age \in [Client -> 0..Timeout]
  /\ due \in [Client -> BOOLEAN] /\ addr \in [Client -> Addr]
  /\ net \subseteq ToServer \cup ToClient
  /\ faults \in 0..MaxFaults /\ stable \in BOOLEAN

\* No two clients are on file with the same address: the indices of the table are
\* unique, and a modification that made two alike would remove one of the clients.
AddrUnique == \A c, d \in Known : table[c].addr = table[d].addr => c = d

\* While a client is on file the timer is set, and early enough for each of them.
TimerCoversOldest ==
  \A c \in Known : timer # None /\ timer <= Timeout - table[c].age

\* The assertion of processTimeout(): when the timer of the server expires there is a
\* client on file that it has expired for.
ExpiresForClient == timer = 0 => Known # {}

\* The two invariants of the table are inductive with the type invariant.
IndInv == TypeOK /\ AddrUnique /\ TimerCoversOldest

\* However datagrams were lost, duplicated and reordered, and whoever crashed or got
\* another address: in the end every client that is enabled has its tunnel, and
\* the server has its address.
Recovers ==
  <>[](server = "up" => \A c \in Client : state[c] = "on" =>
         established[c] /\ c \in Known /\ table[c].addr = addr[c])

\* In the end the server has forgotten every client that is gone, even while it is
\* disabled.
Forgets == <>[](\A c \in Known : state[c] = "on")

=============================================================================
