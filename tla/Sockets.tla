------------------------------ MODULE Sockets ------------------------------
(***************************************************************************)
(* The socket layer (src/kernel/net/socket.cpp): a table of sockets with   *)
(* generations, bounded queues of datagrams, and a smaller table of TCP    *)
(* sessions.  Calls are serialised; between them the network brings        *)
(* datagrams and moves the connections (what tcp_client::progress() does   *)
(* to a client is summarised by ClientSteps, see Tcp).                     *)
(***************************************************************************)
EXTENDS Integers, FiniteSets, Sequences, FiniteSetsExt

CONSTANTS
  SocketOwners,      \* process identifiers
  MAX_SOCKETS, MAX_TCP_SESSIONS, MAX_RX_DATAGRAMS,
  BindPorts,         \* ports applications bind to
  EphemeralPorts,    \* the ephemeral range
  RemoteHosts,       \* addresses of other hosts
  TCP_CONNECT_TRANSMISSION_LIMIT,
  MaxSocketCalls     \* bound: calls in a behaviour

VARIABLES
  socks,             \* g_slots
  sessions,          \* g_tcp_sessions
  next_ephemeral,    \* g_next_ephemeral
  inbox,             \* the stack's UDP inbox
  closed_handles,    \* history: handles whose socket was closed
  socket_calls       \* bound
sock_vars == <<socks, sessions, next_ephemeral, inbox, closed_handles, socket_calls>>

-------------------------------------------------------------------------------
SockIds == 1..MAX_SOCKETS
SessionIds == 1..MAX_TCP_SESSIONS
NoSession == 0
AnyHost == "any"
Loopback == "loopback"
Addresses == {AnyHost, Loopback} \cup RemoteHosts
Endpoint(a, p) == [addr |-> a, port |-> p]
NoEndpoint == Endpoint(AnyHost, 0)
FreeSlot(gen) == [active |-> FALSE, owner |-> 0, gen |-> gen, proto |-> "udp", local |-> NoEndpoint, remote |-> NoEndpoint,
                  bound |-> FALSE, connected |-> FALSE, rx |-> <<>>, session |-> NoSession]
NoTcp == [state |-> "Closed", connected |-> FALSE, port |-> 0, peer_closed |-> FALSE]
FreeSession == [active |-> FALSE, client |-> NoTcp, terminal |-> "Ok", was |-> FALSE, transmissions |-> 0]

SocketCall == socket_calls < MaxSocketCalls /\ socket_calls' = socket_calls + 1
\* A call that resolve() accepts.
Resolved(s, owner) == SocketCall /\ socks[s].active /\ socks[s].owner = owner

EndpointsOverlap(l, r) == l.port = r.port /\ (AnyHost \in {l.addr, r.addr} \/ l.addr = r.addr)
EndpointInUse(e, proto, except) ==
  \E o \in SockIds \ {except} :
    socks[o].active /\ socks[o].bound /\ socks[o].proto = proto /\ EndpointsOverlap(socks[o].local, e)

\* allocate_ephemeral_port(): the first free one from the cursor on, around the range.
FollowingPort(p) == IF p = Max(EphemeralPorts) THEN Min(EphemeralPorts) ELSE p + 1
PortAfter(n) == LET port[i \in 0..n] == IF i = 0 THEN next_ephemeral ELSE FollowingPort(port[i - 1]) IN port[n]
FreePorts(s) == {n \in 0..Cardinality(EphemeralPorts) - 1 :
                   ~EndpointInUse(Endpoint(AnyHost, PortAfter(n)), socks[s].proto, s)}

-------------------------------------------------------------------------------
\* What begin_connect() and progress() can make of a client.
BegunClients(port) == {[NoTcp EXCEPT !.state = "SynSent", !.port = port], [NoTcp EXCEPT !.state = "Error", !.port = port]}
Reached(c, states) == {[c EXCEPT !.state = st, !.connected = st \notin {"Reset", "Closed"} /\ @,
                                 !.peer_closed = @ \/ st = "CloseWait"] : st \in states}
ClientSteps(c) ==
  CASE c.state = "SynSent" -> {c, [c EXCEPT !.state = "Established", !.connected = TRUE]} \cup Reached(c, {"Reset", "Error"})
    [] c.state = "Established" -> {c} \cup Reached(c, {"CloseWait", "Reset"})
    [] c.state = "CloseWait" -> {c} \cup Reached(c, {"Reset"})
    [] c.state = "FinWait1" -> {c, NoTcp} \cup Reached(c, {"Reset"})
    [] OTHER -> {c}

\* tcp_progress_status(): the first terminal state is kept; blocked is a WouldBlock of the
\* transport.
Terminal(se, c, blocked) ==
  CASE se.terminal # "Ok" -> se.terminal
    [] se.terminal = "Ok" /\ c.state = "Reset" -> IF se.was THEN "ConnectionReset" ELSE "ConnectionRefused"
    [] se.terminal = "Ok" /\ c.state = "Error" /\ ~blocked -> "TransportError"
    [] OTHER -> "Ok"

\* progress_tcp_connection(): the client moves; a connection that is not up is given up
\* after its time, or its SYN is sent again from the socket's present port.
SocketProgressed(s, se, c, late, due) ==
  LET moved == [se EXCEPT !.client = c, !.was = @ \/ c.connected, !.terminal = Terminal([se EXCEPT !.was = @ \/ c.connected], c, FALSE)]
      waiting == moved.terminal = "Ok" /\ ~c.connected /\ c.state = "SynSent"
  IN  IF se.terminal # "Ok" THEN {se}
      ELSE IF ~waiting THEN {moved}
      ELSE IF late THEN {[moved EXCEPT !.client.state = "Error", !.terminal = "TimedOut"]}
      ELSE IF due /\ se.transmissions < TCP_CONNECT_TRANSMISSION_LIMIT
      THEN {[moved EXCEPT !.client = b, !.transmissions = @ + 1, !.terminal = Terminal(moved, b, b.state = "SynSent")] :
            b \in BegunClients(socks[s].local.port)}
      ELSE {moved}
\* The sessions a call to progress_tcp_connection() on socket s may leave behind.
ProgressOutcomes(s) ==
  LET se == sessions[socks[s].session] IN
  UNION {SocketProgressed(s, se, c, late, due) : c \in ClientSteps(se.client), late \in BOOLEAN, due \in BOOLEAN}
\* slot.connected follows the client, unless the session had ended already.
Follow(s, se) == [socks[s] EXCEPT !.connected = IF sessions[socks[s].session].terminal # "Ok" THEN @ ELSE se.client.connected]
Usable(se) == se.terminal = "Ok" /\ se.client.connected

-------------------------------------------------------------------------------
\* create().
CreateSocket(s, owner, proto) ==
  /\ SocketCall /\ ~socks[s].active /\ \A o \in 1..s - 1 : socks[o].active
  /\ socks' = [socks EXCEPT ![s] = [FreeSlot(@.gen + 1) EXCEPT !.active = TRUE, !.owner = owner, !.proto = proto]]
  /\ UNCHANGED <<sessions, next_ephemeral, inbox, closed_handles>>

\* bind(), on a bound or connected socket too.
BindSocket(s, owner, e) ==
  /\ Resolved(s, owner) /\ ~EndpointInUse(e, socks[s].proto, s)
  /\ socks' = [socks EXCEPT ![s].local = e, ![s].bound = TRUE]
  /\ UNCHANGED <<sessions, next_ephemeral, inbox, closed_handles>>

\* The automatic bind of connect(): the slot and the cursor after it.
AutoBound(s) == IF socks[s].bound THEN socks[s]
                ELSE [socks[s] EXCEPT !.local = Endpoint(AnyHost, PortAfter(Min(FreePorts(s)))), !.bound = TRUE]
AutoBind(s) == IF socks[s].bound THEN UNCHANGED next_ephemeral
               ELSE FreePorts(s) # {} /\ next_ephemeral' = FollowingPort(PortAfter(Min(FreePorts(s))))
ConnectUdp(s, owner, e) ==
  /\ Resolved(s, owner) /\ socks[s].proto = "udp" /\ AutoBind(s)
  /\ socks' = [socks EXCEPT ![s] = [AutoBound(s) EXCEPT !.remote = e, !.connected = TRUE]]
  /\ UNCHANGED <<sessions, inbox, closed_handles>>
\* connect() of a stream: a session is reserved, or none is left (the socket stays bound).
ConnectTcp(s, owner, e) ==
  LET free == {i \in SessionIds : ~sessions[i].active}
      slot == AutoBound(s)
  IN
  /\ Resolved(s, owner) /\ socks[s].proto = "tcp" /\ socks[s].session = NoSession /\ AutoBind(s)
  /\ IF free = {} THEN socks' = [socks EXCEPT ![s] = slot] /\ UNCHANGED sessions
     ELSE LET i == Min(free) IN
          \E c \in BegunClients(slot.local.port) :
            LET failed == c.state = "Error" IN
            /\ sessions' = [sessions EXCEPT ![i] = IF failed THEN FreeSession
                              ELSE [FreeSession EXCEPT !.active = TRUE, !.client = c, !.transmissions = 1]]
            /\ socks' = [socks EXCEPT ![s] = [slot EXCEPT !.remote = e, !.session = IF failed THEN NoSession ELSE i]]
  /\ UNCHANGED <<inbox, closed_handles>>
\* connect() again, readiness(), and the wait for a connection in send() and receive().
ProgressSocket(s, owner) ==
  /\ Resolved(s, owner) /\ socks[s].session # NoSession
  /\ \E se \in ProgressOutcomes(s) :
       /\ sessions' = [sessions EXCEPT ![socks[s].session] = se]
       /\ socks' = [socks EXCEPT ![s] = Follow(s, se)]
  /\ UNCHANGED <<next_ephemeral, inbox, closed_handles>>

\* send() of a stream: try_send() may fail, which ends the connection.
SendTcp(s, owner) ==
  LET i == socks[s].session IN
  /\ Resolved(s, owner) /\ socks[s].bound /\ i # NoSession
  /\ \E se \in IF socks[s].connected THEN {sessions[i]} ELSE ProgressOutcomes(s) :
     \E broken \in BOOLEAN :
       LET ready == socks[s].connected \/ Usable(se)
           c == IF broken /\ ready /\ se.client.state = "Established"
                THEN [se.client EXCEPT !.connected = FALSE, !.state = "Error"] ELSE se.client
       IN  /\ sessions' = [sessions EXCEPT ![i] = IF ready THEN [se EXCEPT !.client = c, !.terminal = Terminal(se, c, FALSE)] ELSE se]
           /\ socks' = [socks EXCEPT ![s] = IF socks[s].connected THEN @ ELSE Follow(s, se)]
  /\ UNCHANGED <<next_ephemeral, inbox, closed_handles>>
\* receive() of a stream: try_receive() makes progress.
ReceiveTcp(s, owner) ==
  LET i == socks[s].session IN
  /\ Resolved(s, owner) /\ socks[s].bound /\ i # NoSession /\ sessions[i].client.state # "Closed"
  /\ \E se \in IF socks[s].connected THEN {sessions[i]} ELSE ProgressOutcomes(s) :
       IF ~socks[s].connected /\ ~Usable(se)
       THEN sessions' = [sessions EXCEPT ![i] = se] /\ socks' = [socks EXCEPT ![s] = Follow(s, se)]
       ELSE \E c \in ClientSteps(se.client) :
              /\ sessions' = [sessions EXCEPT ![i] = [se EXCEPT !.client = c, !.terminal = Terminal(se, c, FALSE)]]
              /\ socks' = [socks EXCEPT ![s].connected = c.connected]
  /\ UNCHANGED <<next_ephemeral, inbox, closed_handles>>

-------------------------------------------------------------------------------
\* Datagrams: [src, dst].  slot_accepts_datagram() and enqueue_payload().
Accepts(slot, d) ==
  /\ slot.active /\ slot.bound /\ slot.proto = "udp" /\ slot.local.port = d.dst.port
  /\ slot.local.addr \in {AnyHost, d.dst.addr}
  /\ ~slot.connected \/ slot.remote = d.src
Enqueued(slot, d) == IF Len(slot.rx) < MAX_RX_DATAGRAMS THEN [slot EXCEPT !.rx = Append(@, d)] ELSE slot
\* The first socket that accepts a datagram gets it, or it is dropped when that is full.
Routed(table, d) ==
  LET takers == {s \in SockIds : Accepts(table[s], d)} IN
  IF takers = {} THEN table ELSE [table EXCEPT ![Min(takers)] = Enqueued(@, d)]
\* pump(): what the interface holds, in the order it came.
Pumped(table, frames) ==
  LET after[n \in 0..Len(frames)] == IF n = 0 THEN table ELSE Routed(after[n - 1], frames[n]) IN after[Len(frames)]
Pump ==
  /\ SocketCall /\ inbox # <<>>
  /\ socks' = Pumped(socks, inbox) /\ inbox' = <<>>
  /\ UNCHANGED <<sessions, next_ephemeral, closed_handles>>

\* send() of a datagram; send_loopback() delivers at once and never uses the interface.
SendUdp(s, owner) ==
  LET from == [socks[s].local EXCEPT !.addr = IF @ = AnyHost THEN Loopback ELSE @] IN
  /\ Resolved(s, owner) /\ socks[s].bound /\ socks[s].proto = "udp" /\ socks[s].connected
  /\ socks' = IF socks[s].remote.addr = Loopback THEN Routed(socks, [src |-> from, dst |-> socks[s].remote]) ELSE socks
  /\ UNCHANGED <<sessions, next_ephemeral, inbox, closed_handles>>
\* receive() of a datagram: the oldest, after a pump() when there is none.
ReceiveUdp(s, owner) ==
  LET table == IF socks[s].rx = <<>> THEN Pumped(socks, inbox) ELSE socks IN
  /\ Resolved(s, owner) /\ socks[s].bound /\ socks[s].proto = "udp"
  /\ socks' = IF table[s].rx = <<>> THEN table ELSE [table EXCEPT ![s].rx = Tail(@)]
  /\ inbox' = IF socks[s].rx = <<>> THEN <<>> ELSE inbox
  /\ UNCHANGED <<sessions, next_ephemeral, closed_handles>>

-------------------------------------------------------------------------------
\* clear_slot(): the slot keeps its generation, its session is released.
Cleared(S) == [s \in SockIds |-> IF s \in S THEN FreeSlot(socks[s].gen) ELSE socks[s]]
\* A mutant that leaves the sessions of an ended process reserved.
Released_keeps(S) == sessions
Released(S) == [i \in SessionIds |-> IF \E s \in S : socks[s].session = i THEN FreeSession ELSE sessions[i]]
Clear(S) ==
  /\ socks' = Cleared(S) /\ sessions' = Released(S)
  /\ closed_handles' = closed_handles \cup {<<s, socks[s].gen>> : s \in S}
\* begin_close() of a client: at once, FIN sent, not now, or failed.
ClosingClients(c) ==
  CASE ~c.connected \/ c.state = "Reset" -> {NoTcp}
    [] c.connected /\ c.state \in {"Established", "CloseWait"} ->
         {c, [c EXCEPT !.state = "FinWait1"], [c EXCEPT !.state = "Error"]}
    [] OTHER -> {c}
\* close(): a stream is gone when its connection is closed; until then the call is made
\* again.
CloseSocket(s, owner) ==
  LET i == socks[s].session
      se == sessions[i]
  IN
  /\ Resolved(s, owner)
  /\ IF i = NoSession THEN Clear({s})
     ELSE IF se.terminal # "Ok" \/ se.client.state = "Closed" THEN Clear({s})
     ELSE \E b \in ClosingClients(se.client) :
            LET begun == Terminal(se, b, b.state = "FinWait1") IN
            IF begun # "Ok" \/ b.state = "Closed"
            THEN IF begun = "Ok" THEN Clear({s})
                 ELSE /\ sessions' = [sessions EXCEPT ![i].client = b, ![i].terminal = begun]
                      /\ UNCHANGED <<socks, closed_handles>>
            ELSE \E c \in ClientSteps(b) :
                   IF c.state = "Closed" THEN Clear({s})
                   ELSE /\ sessions' = [sessions EXCEPT ![i].client = c, ![i].terminal = Terminal(se, c, FALSE)]
                        /\ UNCHANGED <<socks, closed_handles>>
  /\ UNCHANGED <<next_ephemeral, inbox>>
\* release_process(): every socket of a process that ended, connections included.
ReleaseSockets(owner) ==
  LET mine == {s \in SockIds : socks[s].active /\ socks[s].owner = owner} IN
  /\ SocketCall /\ mine # {} /\ Clear(mine)
  /\ UNCHANGED <<next_ephemeral, inbox>>

\* A datagram reaches the interface, which holds two.
DatagramArrives ==
  /\ Len(inbox) < 2 /\ SocketCall
  /\ \E h \in RemoteHosts, sp \in BindPorts, dp \in BindPorts \cup EphemeralPorts :
       inbox' = Append(inbox, [src |-> Endpoint(h, sp), dst |-> Endpoint("self", dp)])
  /\ UNCHANGED <<socks, sessions, next_ephemeral, closed_handles>>

SocketsInit ==
  /\ socks = [s \in SockIds |-> FreeSlot(0)]
  /\ sessions = [i \in SessionIds |-> FreeSession]
  /\ next_ephemeral = Min(EphemeralPorts) /\ inbox = <<>> /\ closed_handles = {} /\ socket_calls = 0
SocketsNext ==
  \/ \E s \in SockIds, owner \in SocketOwners :
       \/ \E proto \in {"udp", "tcp"} : CreateSocket(s, owner, proto)
       \/ \E a \in {AnyHost, Loopback}, p \in BindPorts \cup EphemeralPorts : BindSocket(s, owner, Endpoint(a, p))
       \/ \E a \in RemoteHosts \cup {Loopback}, p \in BindPorts :
            ConnectUdp(s, owner, Endpoint(a, p)) \/ ConnectTcp(s, owner, Endpoint(a, p))
       \/ ProgressSocket(s, owner) \/ SendTcp(s, owner) \/ ReceiveTcp(s, owner)
       \/ SendUdp(s, owner) \/ ReceiveUdp(s, owner) \/ CloseSocket(s, owner)
  \/ \E owner \in SocketOwners : ReleaseSockets(owner)
  \/ Pump \/ DatagramArrives
SocketsSpec == SocketsInit /\ [][SocketsNext]_sock_vars

-------------------------------------------------------------------------------
\* The two tables agree: a session is active exactly while one stream socket holds it, and
\* no close(), failed connect() or exit of a process leaves one behind; no two sockets of a
\* protocol are bound to endpoints that overlap; a handle that was closed names no socket
\* again; and two connections leave from one local port only when a socket was bound anew
\* after its connection began (connect(), release_tcp_session(), bind(), resolve()).
SocketsExact ==
  /\ socks \in [SockIds -> [active : BOOLEAN, owner : SocketOwners \cup {0}, gen : Nat, proto : {"udp", "tcp"},
                            local : [addr : Addresses, port : Nat], remote : [addr : Addresses, port : Nat],
                            bound : BOOLEAN, connected : BOOLEAN, rx : Seq([src : [addr : Addresses, port : Nat],
                              dst : [addr : Addresses \cup {"self"}, port : Nat]]), session : {NoSession} \cup SessionIds]]
  /\ \A i \in SessionIds :
       LET holders == {s \in SockIds : socks[s].session = i} IN
       IF sessions[i].active THEN Cardinality(holders) = 1 /\ \A s \in holders : socks[s].active /\ socks[s].proto = "tcp"
       ELSE holders = {} /\ sessions[i] = FreeSession
  /\ \A s, o \in SockIds :
       s # o /\ socks[s].active /\ socks[o].active /\ socks[s].bound /\ socks[o].bound /\ socks[s].proto = socks[o].proto
         => ~EndpointsOverlap(socks[s].local, socks[o].local)
  /\ \A h \in closed_handles : ~(socks[h[1]].active /\ socks[h[1]].gen = h[2])
  /\ \A s, o \in SockIds :
       LET a == sessions[socks[s].session].client
           b == sessions[socks[o].session].client
       IN  s # o /\ NoSession \notin {socks[s].session, socks[o].session} /\ a.port = b.port /\ a.state # "Closed" /\ b.state # "Closed"
             => socks[s].local.port # a.port \/ socks[o].local.port # b.port

\* The tables agree after every call of several processes, and an error that ended
\* a connection is what every later call on the socket reports until it is closed:
\* no late segment, retry or timeout turns it into another or revives the
\* connection (terminal_status, progress_tcp_connection(), close()).
ErrorsStick ==
  \A s \in SockIds :
    LET i == socks[s].session IN
    (i # NoSession /\ socks'[s].session = i /\ sessions[i].terminal # "Ok") =>
      (sessions'[i].terminal = sessions[i].terminal /\ (sessions'[i].client.connected => sessions[i].client.connected))
SocketsKeepWord == [][SocketsExact' /\ ErrorsStick]_sock_vars
===============================================================================
