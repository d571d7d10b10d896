------------------------------- MODULE MCNetwork -------------------------------
(***************************************************************************)
(* An instance for TLC of the network: TCP, the stack below it, the cards  *)
(* and the sockets of processes.  Each part is explored while the others   *)
(* rest in one of their initial states.                                    *)
(***************************************************************************)
EXTENDS Tcp, NetStack, NetCards, Sockets

\* The client sends and the server answers nothing, or the other way round.
OneSends == {<<3, 0>>, <<0, 2>>}
DhcpOptions ==
  {{"mask", "gateway", "dns", "server"}, {"mask", "server"}, {}, {"gateway", "dns"}}

-------------------------------------------------------------------------------
Parts == {"tcp", "net", "service", "cards", "sockets"}

\* A part is in one chosen initial state.
Resting(part) ==
  CASE part = "tcp" -> app.connects = 0 /\ app.mode = "calls" /\ app.len = <<3, 0>> /\ call = NoTcpCall
    [] part = "net" -> requests = 0 /\ unasked = 0
    [] part = "service" -> service = DownService
    [] part = "cards" -> nic = NoNic /\ hw = "virtio"
    [] part = "sockets" -> socket_calls = 0
Only(part) == \A other \in Parts \ {part} : Resting(other)

NetworkVars == <<tcp_vars, net_vars, service_vars, card_vars, sock_vars>>

BenchInit ==
  /\ TcpInit /\ NetInit /\ ServiceInit /\ CardsInit /\ SocketsInit
  /\ \E part \in Parts : Only(part)

BenchNext ==
  \/ Only("tcp") /\ TcpNext /\ UNCHANGED <<net_vars, service_vars, card_vars, sock_vars>>
  \/ Only("net") /\ NetNext /\ UNCHANGED <<tcp_vars, service_vars, card_vars, sock_vars>>
  \/ Only("service") /\ ServiceNext /\ UNCHANGED <<tcp_vars, net_vars, card_vars, sock_vars>>
  \/ Only("cards") /\ CardsNext /\ UNCHANGED <<tcp_vars, net_vars, service_vars, sock_vars>>
  \/ Only("sockets") /\ SocketsNext /\ UNCHANGED <<tcp_vars, net_vars, service_vars, card_vars>>

BenchSpec == BenchInit /\ [][BenchNext]_NetworkVars
===============================================================================
