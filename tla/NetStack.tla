------------------------------- MODULE NetStack -------------------------------
(***************************************************************************)
(* The network stack (src/kernel/net/network.cpp) with the two requests of *)
(* the network service that wait for an answer, ping and name resolution   *)
(* (service.cpp), on a local network whose hosts answer late, twice or not *)
(* at all.  A frame is a record of what the parsers read from it; a frame  *)
(* that does not parse has a defect.                                       *)
(***************************************************************************)
EXTENDS Integers, Sequences, FiniteSets

CONSTANTS
  NEIGHBOR_TABLE_CAPACITY,
  HostNames,             \* host names
  Transactions,      \* DNS transaction identifiers are 0..Transactions-1
  FirstPort, LastPort,  \* ephemeral ports of the service
  PollBudget,        \* frames one poll takes
  MaxFrames,         \* bound: frames waiting at the interface
  MaxRequests,       \* bound: requests in a behaviour
  MaxUnasked         \* bound: frames nobody asked for

VARIABLES
  net,               \* the NetworkStack
  rx,                \* frames waiting at the interface
  request,           \* the ping or resolution in progress
  ports,             \* g_dns_transaction and g_ephemeral_port
  asked,             \* history: requests that reached a host, and so may be answered
  requests, unasked  \* bounds
net_vars == <<net, rx, request, ports, asked, requests, unasked>>

-------------------------------------------------------------------------------
\* The network: we, the gateway, the name server, and a host behind the gateway.
Ips == {"me", "gw", "dns", "far"}
MacOf(ip) == CASE ip = "me" -> "m0" [] ip = "gw" -> "m1" [] ip = "dns" -> "m2" [] ip = "far" -> "m1"
SameNetwork(ip) == ip # "far"
AddressOf(name) == <<"address of", name>>

Frame(kind, smac, sip, dmac, tip) ==
  [kind |-> kind, defect |-> "none", smac |-> smac, sip |-> sip, dmac |-> dmac, tip |-> tip,
   id |-> 0, port |-> 0, name |-> "none"]
NoFrame == Frame("none", "none", "none", "none", "none")
NeighborSlots == 0..NEIGHBOR_TABLE_CAPACITY - 1
EmptyNeighbor == [ip |-> "none", mac |-> "none"]

\* configure_ipv4(): our own entry first, nothing else known.
Configured ==
  [neighbors |-> [i \in NeighborSlots |-> IF i = 0 THEN [ip |-> "me", mac |-> MacOf("me")] ELSE EmptyNeighbor],
   cursor |-> 1, ping |-> NoFrame, udp |-> NoFrame, tcp |-> NoFrame]
FindNeighbor(n, ip) == {i \in NeighborSlots : n.neighbors[i].ip = ip}

\* update_neighbor(): the known entry, a free one, or the next in turn; entry 0 is ours.
UpdateNeighbor(n, ip, mac) ==
  LET known == FindNeighbor(n, ip)
      free == {i \in NeighborSlots : n.neighbors[i] = EmptyNeighbor}
      i == IF known # {} THEN CHOOSE k \in known : TRUE
           ELSE IF free # {} THEN CHOOSE k \in free : \A j \in free : k <= j ELSE n.cursor
      turn == IF n.cursor + 1 >= NEIGHBOR_TABLE_CAPACITY THEN 1 ELSE n.cursor + 1
  IN  IF ip = "me" /\ mac # MacOf("me") THEN [ok |-> FALSE, net |-> n]
      ELSE [ok |-> TRUE, net |-> [n EXCEPT !.neighbors[i] = [ip |-> ip, mac |-> mac],
                                           !.cursor = IF known = {} /\ free = {} THEN turn ELSE @]]

\* What a frame comes to: the stack, poll()'s status, and the frames sent in answer.
Result(n, status, out) == [net |-> n, status |-> status, out |-> out]
\* handle_arp().
HandleArp(n, f) ==
  LET u == UpdateNeighbor(n, f.sip, f.smac)
      reply == Frame("arp_reply", MacOf("me"), "me", f.smac, f.sip)
  IN  CASE f.kind = "arp_reply" /\ (f.tip # "me" \/ f.dmac # MacOf("me")) -> Result(n, "NotForUs", {})
        [] f.kind = "arp_reply" /\ f.tip = "me" /\ f.dmac = MacOf("me") ->
             Result(u.net, IF u.ok THEN "Ok" ELSE "MalformedPacket", {})
        [] f.kind = "arp_request" ->
             IF ~u.ok THEN Result(n, "MalformedPacket", {})
             ELSE IF f.tip # "me" THEN Result(u.net, "NotForUs", {}) ELSE Result(u.net, "Ok", {reply})
\* handle_ipv4(): the inboxes hold one packet each, the latest.
HandleIpv4(n, f) ==
  LET u == UpdateNeighbor(n, f.sip, f.smac)
      reply == [Frame("echo_reply", MacOf("me"), "me", f.smac, f.sip) EXCEPT !.id = f.id]
  IN  IF f.tip # "me" THEN Result(n, "NotForUs", {})
      ELSE IF ~u.ok THEN Result(n, "MalformedPacket", {})
      ELSE CASE f.kind = "udp" -> Result([u.net EXCEPT !.udp = f], "Ok", {})
             [] f.kind = "tcp" -> Result([u.net EXCEPT !.tcp = f], "Ok", {})
             [] f.kind = "echo" -> Result(u.net, "Ok", {reply})
             [] f.kind = "echo_reply" -> Result([u.net EXCEPT !.ping = f], "Ok", {})
             [] f.kind = "other" -> Result(u.net, "UnsupportedProtocol", {})
\* receive().
ReceiveFrame(n, f) ==
  IF f.defect # "none" THEN Result(n, f.defect, {})
  ELSE IF f.dmac \notin {MacOf("me"), "broadcast"} THEN Result(n, "NotForUs", {})
  ELSE IF f.kind \in {"arp_request", "arp_reply"} THEN HandleArp(n, f) ELSE HandleIpv4(n, f)
\* poll(): up to the budget, and the first status that is not Ok.
NetPolled(n, frames) ==
  LET count == IF Len(frames) < PollBudget THEN Len(frames) ELSE PollBudget
      r[k \in 0..count] ==
        IF k = 0 THEN Result(n, "Ok", {})
        ELSE LET one == ReceiveFrame(r[k - 1].net, frames[k]) IN
             Result(one.net, IF r[k - 1].status # "Ok" THEN r[k - 1].status ELSE one.status, r[k - 1].out \cup one.out)
  IN  [r |-> r[count], rest |-> SubSeq(frames, count + 1, Len(frames))]
AcceptablePoll(status) == status \in {"Ok", "NotForUs", "UnsupportedProtocol"}

\* resolve_destination() and the send functions: to the next hop when it is known, or an
\* ARP request for it.
NextHop(ip) == IF SameNetwork(ip) THEN ip ELSE "gw"
SendTo(n, f) ==
  LET hop == NextHop(f.tip)
      known == FindNeighbor(n, hop)
  IN  IF known = {} THEN [status |-> "pending", out |-> {Frame("arp_request", MacOf("me"), "me", "broadcast", hop)}]
      ELSE [status |-> "Ok", out |-> {[f EXCEPT !.dmac = n.neighbors[CHOOSE i \in known : TRUE].mac]}]
\* Requests that reach the host whose address they carry may be answered from then on.
AskedFor(out) == asked \cup {f \in out : f.kind \in {"arp_request", "echo", "udp"} /\ f.dmac \in {MacOf(f.tip), "broadcast"}}

-------------------------------------------------------------------------------
\* The requests.  request.phase: "arp" and "send" wait for the neighbour, "reply" for the
\* answer; result is what the last request returned.
NoRequestYet == [op |-> "none", phase |-> "idle", dst |-> "none", id |-> 0, port |-> 0, name |-> "none", result |-> "none"]
Echo(dst, id) == [Frame("echo", MacOf("me"), "me", "none", dst) EXCEPT !.id = id]
Query(r) == [Frame("udp", MacOf("me"), "me", "none", "dns") EXCEPT !.id = r.id, !.port = r.port, !.name = r.name]
Returned(result) == [request EXCEPT !.phase = "idle", !.result = result]

\* send_ping() and wait_for_ping(); the interface may refuse a frame.
Ping(dst, id) ==
  LET sent == SendTo(net, Echo(dst, id)) IN
  /\ request.phase = "idle" /\ requests < MaxRequests /\ requests' = requests + 1
  /\ \/ /\ asked' = AskedFor(sent.out)
        /\ request' = [NoRequestYet EXCEPT !.op = "ping", !.dst = dst, !.id = id,
                         !.phase = IF sent.status = "pending" THEN "arp" ELSE "reply"]
     \/ request' = [NoRequestYet EXCEPT !.op = "ping", !.dst = dst, !.id = id, !.result = "InterfaceError"] /\ UNCHANGED asked
  /\ UNCHANGED <<net, rx, ports, unasked>>
PingPolls ==
  LET p == NetPolled(net, rx)
      sent == SendTo(p.r.net, Echo(request.dst, request.id))
      answer == p.r.net.ping
  IN
  /\ request.op = "ping" /\ request.phase \in {"arp", "reply"} /\ rx # <<>>
  /\ net' = p.r.net /\ rx' = p.rest
  /\ CASE ~AcceptablePoll(p.r.status) -> request' = Returned(p.r.status) /\ asked' = AskedFor(p.r.out)
       [] AcceptablePoll(p.r.status) /\ request.phase = "arp" ->
            IF FindNeighbor(p.r.net, request.dst) = {} THEN UNCHANGED request /\ asked' = AskedFor(p.r.out)
            ELSE /\ asked' = AskedFor(p.r.out \cup sent.out)
                 /\ request' = IF sent.status = "pending" THEN Returned("pending") ELSE [request EXCEPT !.phase = "reply"]
       [] AcceptablePoll(p.r.status) /\ request.phase = "reply" ->
            /\ asked' = AskedFor(p.r.out)
            /\ request' = IF answer.kind = "echo_reply" /\ answer.sip = request.dst /\ answer.id = request.id
                          THEN Returned("Ok") ELSE request
  /\ UNCHANGED <<ports, requests, unasked>>

\* resolve_a(): a fresh transaction and port, and an empty inbox to begin with.
Resolve(name) ==
  /\ request.phase = "idle" /\ requests < MaxRequests /\ requests' = requests + 1
  /\ request' = [NoRequestYet EXCEPT !.op = "resolve", !.phase = "send", !.id = ports.transaction, !.port = ports.next, !.name = name]
  /\ ports' = [transaction |-> (ports.transaction + 1) % Transactions,
               next |-> IF ports.next = LastPort THEN FirstPort ELSE ports.next + 1]
  /\ net' = [net EXCEPT !.udp = NoFrame]
  /\ UNCHANGED <<rx, asked, unasked>>
ResolveSends ==
  LET sent == SendTo(net, Query(request))
      p == NetPolled(net, rx)
  IN
  /\ request.op = "resolve" /\ request.phase = "send"
  /\ \/ /\ sent.status = "Ok" /\ asked' = AskedFor(sent.out)
        /\ request' = [request EXCEPT !.phase = "reply"] /\ UNCHANGED <<net, rx>>
     \/ /\ sent.status = "pending" /\ asked' = AskedFor(sent.out \cup p.r.out)
        /\ net' = p.r.net /\ rx' = p.rest
        /\ request' = IF AcceptablePoll(p.r.status) THEN request ELSE Returned(p.r.status)
     \/ request' = Returned("InterfaceError") /\ UNCHANGED <<net, rx, asked>>
  /\ UNCHANGED <<ports, requests, unasked>>
\* The datagram is the server's answer to this query.
AnswersQuery(d) == d.kind = "udp" /\ d.sip = "dns" /\ d.port = request.port /\ d.id = request.id
ResolvePolls ==
  LET p == NetPolled(net, rx)
      d == p.r.net.udp
  IN
  /\ request.op = "resolve" /\ request.phase = "reply" /\ rx # <<>>
  /\ rx' = p.rest /\ asked' = AskedFor(p.r.out)
  /\ IF ~AcceptablePoll(p.r.status) THEN net' = p.r.net /\ request' = Returned(p.r.status)
     ELSE /\ net' = [p.r.net EXCEPT !.udp = NoFrame]
          /\ request' = IF AnswersQuery(d) THEN Returned(AddressOf(d.name)) ELSE request
  /\ UNCHANGED <<ports, requests, unasked>>
RequestTimesOut ==
  /\ request.phase # "idle" /\ request' = Returned("WouldBlock")
  /\ UNCHANGED <<net, rx, ports, asked, requests, unasked>>
\* service::poll() and the socket layer's pump, which takes the UDP inbox.
PollForSockets ==
  LET p == NetPolled(net, rx) IN
  /\ request.phase = "idle" /\ rx # <<>>
  /\ net' = [p.r.net EXCEPT !.udp = NoFrame, !.tcp = NoFrame] /\ rx' = p.rest /\ asked' = AskedFor(p.r.out)
  /\ UNCHANGED <<request, ports, requests, unasked>>

-------------------------------------------------------------------------------
\* The other hosts: an answer to anything that was ever asked, and traffic of their own.
AnswerTo(f) ==
  LET back == Frame("none", MacOf(f.tip), f.tip, MacOf("me"), "me") IN
  CASE f.kind = "arp_request" -> [back EXCEPT !.kind = "arp_reply"]
    [] f.kind = "echo" -> [back EXCEPT !.kind = "echo_reply", !.id = f.id]
    [] f.kind = "udp" -> [back EXCEPT !.kind = "udp", !.id = f.id, !.port = f.port, !.name = f.name]
Unasked ==
  {Frame("arp_request", MacOf(ip), ip, "broadcast", tip) : ip \in {"gw", "dns"}, tip \in {"me", "far"}}
  \cup {Frame("arp_request", MacOf("dns"), "me", "broadcast", "gw")}
  \cup {Frame(kind, MacOf("far"), "far", MacOf("me"), "me") : kind \in {"udp", "tcp", "echo", "other"}}
  \cup {[Frame("udp", MacOf("gw"), "gw", MacOf("me"), "me") EXCEPT !.defect = "ChecksumMismatch"]}
  \cup {Frame("udp", MacOf("gw"), "gw", MacOf("dns"), "dns")}
FrameArrives ==
  /\ Len(rx) < MaxFrames
  /\ \/ \E q \in asked : rx' = Append(rx, AnswerTo(q)) /\ UNCHANGED unasked
     \/ \E f \in Unasked : rx' = Append(rx, f) /\ unasked < MaxUnasked /\ unasked' = unasked + 1
  /\ UNCHANGED <<net, request, ports, asked, requests>>

NetInit ==
  /\ net = Configured /\ rx = <<>> /\ request = NoRequestYet
  /\ ports = [transaction |-> 0, next |-> FirstPort] /\ asked = {} /\ requests = 0 /\ unasked = 0
NetNext ==
  \/ \E dst \in {"gw", "far"}, id \in {1, 2} : Ping(dst, id)
  \/ \E name \in HostNames : Resolve(name)
  \/ PingPolls \/ ResolveSends \/ ResolvePolls \/ RequestTimesOut \/ PollForSockets \/ FrameArrives
NetSpec == NetInit /\ [][NetNext]_net_vars

-------------------------------------------------------------------------------
\* The neighbour table stays right whatever arrives: entry 0 is this machine, no address
\* has two entries, and an address maps to the host (or the gateway) that answers for it,
\* also when another host claims our address (update_neighbor(), handle_arp(),
\* handle_ipv4()).
NeighborsRight ==
  /\ net.neighbors \in [NeighborSlots -> [ip : Ips \cup {"none"}, mac : {"m0", "m1", "m2", "none"}]] /\ net.cursor \in NeighborSlots \ {0}
  /\ net.neighbors[0] = [ip |-> "me", mac |-> MacOf("me")]
  /\ \A i \in NeighborSlots : net.neighbors[i] # EmptyNeighbor =>
       /\ net.neighbors[i].mac = MacOf(net.neighbors[i].ip)
       /\ \A j \in NeighborSlots : net.neighbors[j].ip = net.neighbors[i].ip => j = i

\* A request returns its own answer: resolve_a() the address of the name it was asked for,
\* never that of an earlier query whose answer came late, and ping Ok only for a host that
\* was sent that sequence number.
AnswersOwnQuestion ==
  request.phase = "idle" =>
    /\ request.op = "resolve" /\ request.result \in {AddressOf(n) : n \in HostNames} => request.result = AddressOf(request.name)
    /\ request.op = "ping" /\ request.result = "Ok" =>
         \E f \in asked : f.kind = "echo" /\ f.tip = request.dst /\ f.id = request.id

-------------------------------------------------------------------------------
(***************************************************************************)
(* Bringing the network up and fetching pages: the choice of a network     *)
(* card (src/kernel/net/physical.cpp), DHCP (dhcp.cpp), the service's      *)
(* start with its loopback fallback, and the HTTP and HTTPS requests       *)
(* (service.cpp, tls/client.cpp).  The TLS library and the remote servers  *)
(* are external; TCP and name resolution have modules of their own and are *)
(* here only what they return.                                             *)
(***************************************************************************)

CONSTANTS
  DhcpServers,
  OptionSets,        \* the sets of options a DHCP message may carry
  ATTEMPTS,          \* transmissions of a DHCP message
  BodyUnits,         \* units of the page
  OutputCapacity,    \* units the caller's buffer holds
  MaxFetches         \* bound: requests in a behaviour

VARIABLES
  service,           \* g_ready, g_physical, g_dhcp, g_lease, g_trust_store_size
  card,              \* physical.cpp: g_driver, g_detected
  dhcp,              \* acquire(): phase, attempt, offer
  replies,           \* DHCP messages on the network
  requested,         \* history: the servers asked, by an accepted offer, for a lease
  cache,             \* the TLS client's trust store was parsed
  fetch,             \* the request in progress
  remote,            \* the web server: what it sent and how it ended
  held,              \* history: TLS sessions and open TCP clients
  fetches            \* bound
service_vars == <<service, card, dhcp, replies, requested, cache, fetch, remote, held, fetches>>

-------------------------------------------------------------------------------
\* physical::initialize(): the first driver, in order, that comes up.
Drivers == <<"virtio", "e1000", "pcnet">>
ChooseCard(state) ==
  LET up == {i \in 1..3 : state[i] = "up"}
      first == CHOOSE i \in up : \A j \in up : i <= j
      tried == IF up = {} THEN 1..3 ELSE 1..first
  IN  [driver |-> IF up = {} THEN "none" ELSE Drivers[first], detected |-> \E i \in tried : state[i] # "absent"]

NoLease == [address |-> "none", options |-> [o \in {"mask", "gateway", "dns", "server"} |-> "none"]]
DownService == [state |-> "off", physical |-> FALSE, dhcp |-> FALSE, lease |-> NoLease, trust |-> FALSE]
\* initialize_loopback_fallback().
Fallback == [service EXCEPT !.state = "ready", !.physical = FALSE, !.dhcp = FALSE]
NoDhcp == [phase |-> "idle", attempt |-> 0, offer |-> "none"]

\* service::initialize().
InitializeService ==
  /\ service.state = "off"
  /\ \E state \in [1..3 -> {"absent", "failed", "up"}] : card' = ChooseCard(state)
  /\ IF card'.driver = "none"
     THEN service' = Fallback /\ UNCHANGED dhcp
     ELSE service' = [DownService EXCEPT !.state = "dhcp"] /\ dhcp' = [NoDhcp EXCEPT !.phase = "discover"]
  /\ UNCHANGED <<replies, requested, cache, fetch, remote, held, fetches>>

\* The messages of the DHCP servers: each offers and grants its own values.
DhcpMessage(type, server, options) == [type |-> type, server |-> server, options |-> options]
\* transmit_message(): a DISCOVER any server may answer, or a REQUEST for the offer's server.
Transmit_dhcp ==
  /\ dhcp.phase \in {"discover", "request"}
  /\ \/ /\ dhcp.phase = "discover"
        /\ \E answering \in SUBSET DhcpServers, options \in OptionSets :
             replies' = replies \cup {DhcpMessage("offer", s, options) : s \in answering}
        /\ dhcp' = [dhcp EXCEPT !.phase = "await_offer"] /\ UNCHANGED <<service, requested>>
     \/ /\ dhcp.phase = "request" /\ requested' = requested \cup {dhcp.offer.server}
        /\ \E type \in {"ack", "nak"}, options \in OptionSets, lost \in BOOLEAN :
             replies' = IF lost THEN replies ELSE replies \cup {DhcpMessage(type, dhcp.offer.server, options)}
        /\ dhcp' = [dhcp EXCEPT !.phase = "await_ack"] /\ UNCHANGED service
     \/ dhcp' = NoDhcp /\ service' = Fallback /\ UNCHANGED <<replies, requested>>
  /\ UNCHANGED <<card, cache, fetch, remote, held, fetches>>

\* inherit_offer_configuration(): the acknowledgement's values, the offer's where it has none.
Inherited(offer, ack) ==
  [address |-> ack.server,
   options |-> [o \in DOMAIN NoLease.options |->
                  IF o \in ack.options THEN ack.server ELSE IF o \in offer.options THEN offer.server ELSE "none"]]
Complete(lease) == \A o \in {"mask", "gateway", "dns"} : lease.options[o] # "none"

\* wait_for_reply() takes a message of this transaction; it may come again.  An unexpected
\* type is passed over (a mutant takes it), a NAK ends the attempt.  Later replies meet no client.
Expected_any(m) == m.type # "nak"
Expected(m) == m.type = IF dhcp.phase = "await_offer" THEN "offer" ELSE "ack"
TakeReply(m) ==
  LET lease == Inherited(dhcp.offer, m) IN
  /\ \/ m.type = "nak" /\ dhcp.phase \in {"await_offer", "await_ack"} /\ dhcp' = NoDhcp /\ service' = Fallback
     \/ /\ dhcp.phase = "await_offer" /\ Expected(m)
        /\ IF "server" \in m.options
           THEN dhcp' = [phase |-> "request", attempt |-> 0, offer |-> m] /\ UNCHANGED service
           ELSE dhcp' = NoDhcp /\ service' = Fallback
     \/ /\ dhcp.phase = "await_ack" /\ Expected(m) /\ dhcp' = NoDhcp
        /\ service' = IF Complete(lease)
                      THEN [service EXCEPT !.state = "ready", !.physical = TRUE, !.dhcp = TRUE, !.lease = lease]
                      ELSE Fallback
  /\ replies' \in IF dhcp'.phase = "idle" THEN {{}} ELSE {replies, replies \ {m}}
  /\ UNCHANGED <<card, requested, cache, fetch, remote, held, fetches>>
\* The wait runs out: again, or no lease.
DhcpTimesOut ==
  /\ dhcp.phase \in {"await_offer", "await_ack"}
  /\ IF dhcp.attempt + 1 < ATTEMPTS
     THEN /\ dhcp' = [dhcp EXCEPT !.attempt = @ + 1, !.phase = IF @ = "await_offer" THEN "discover" ELSE "request"]
          /\ UNCHANGED service
     ELSE dhcp' = NoDhcp /\ service' = Fallback
  /\ UNCHANGED <<card, replies, requested, cache, fetch, remote, held, fetches>>

-------------------------------------------------------------------------------
\* Fetching.  fetch.phase: "resolve", "setup" (the TLS session), "open", "handshake", "write",
\* "read"; written counts the units stored.
NoFetch == [phase |-> "idle", op |-> "none", written |-> 0, result |-> "none"]
NoServer == [sent |-> 0, ended |-> "no", certificate |-> "good", whole |-> FALSE]
\* Every return of the request: what it held is released.
EndFetch(result) ==
  fetch' = [fetch EXCEPT !.phase = "idle", !.result = result] /\ held' = [sessions |-> 0, clients |-> 0]

\* Requests are made only over a leased card.  load_trust_store() may fail; the next request
\* tries again.
BeginRequest ==
  /\ fetch.phase = "idle" /\ service.state = "ready" /\ service.physical /\ service.dhcp
  /\ fetches < MaxFetches /\ fetches' = fetches + 1
  /\ \E certificate \in {"good", "untrusted", "expired"} : remote' = [NoServer EXCEPT !.certificate = certificate]
  /\ UNCHANGED <<card, dhcp, replies, requested, cache, held>>
Started(op, phase) == [NoFetch EXCEPT !.op = op, !.phase = phase]
LoadTrustStore(ok) == service' = [service EXCEPT !.trust = @ \/ ok]
BeginHttp == BeginRequest /\ fetch' = Started("http", "resolve") /\ UNCHANGED service
BeginProbe == BeginRequest /\ fetch' = Started("probe", "open") /\ UNCHANGED service
BeginHttps ==
  /\ BeginRequest
  /\ \E ok \in BOOLEAN :
       /\ LoadTrustStore(ok)
       /\ fetch' = IF service.trust \/ ok THEN Started("https", "resolve")
                   ELSE [NoFetch EXCEPT !.op = "https", !.result = "NotConfigured"]
ResolveHost(ok) ==
  /\ fetch.phase = "resolve"
  /\ IF ok THEN fetch' = [fetch EXCEPT !.phase = IF fetch.op = "https" THEN "setup" ELSE "open"] /\ UNCHANGED held
     ELSE EndFetch("unresolved")
  /\ UNCHANGED <<service, card, dhcp, replies, requested, cache, remote, fetches>>
\* ensure_cached_trust_store(): parsed once and kept; a failed parse is not kept.
EnsureTrust(step) ==
  /\ step = "parse" => ~cache
  /\ cache' = IF cache \/ step = "memory" THEN cache ELSE step # "parse"
\* setup_tls(), in a session that may not be allocated: trust store, entropy, configuration.
SetupTls(step) ==
  /\ fetch.phase = "setup" /\ EnsureTrust(step)
  /\ IF step = "ok" THEN fetch' = [fetch EXCEPT !.phase = "open"] /\ held' = [held EXCEPT !.sessions = 1]
     ELSE EndFetch("SetupFailure")
  /\ UNCHANGED <<service, card, dhcp, replies, requested, remote, fetches>>
ConnectHost(ok) ==
  /\ fetch.phase = "open"
  /\ IF ok THEN /\ fetch' = [fetch EXCEPT !.phase = IF fetch.op = "https" THEN "handshake" ELSE "write"]
                /\ held' = [held EXCEPT !.clients = 1]
     ELSE EndFetch("TcpFailure")
  /\ UNCHANGED <<service, card, dhcp, replies, requested, cache, remote, fetches>>
\* The library verifies the chain, with web_pki_verify_callback() refusing SHA-1 below the root.
ChainVerifies == remote.certificate # "untrusted"
\* peer_certificate_times_valid(): the clock can be read and lies within every certificate.
TimesValid(clock) == clock /\ remote.certificate # "expired"
PerformHandshake ==
  /\ fetch.phase = "handshake"
  /\ \/ ~ChainVerifies /\ EndFetch("HandshakeFailure")
     \/ \E clock \in BOOLEAN :
          /\ ChainVerifies
          /\ IF TimesValid(clock) THEN fetch' = [fetch EXCEPT !.phase = "write"] /\ UNCHANGED held
             ELSE EndFetch("CertificateTimeFailure")
     \/ EndFetch("Timeout")
  /\ UNCHANGED <<service, card, dhcp, replies, requested, cache, remote, fetches>>
\* The request is built and written, by tcp_client::send() or write_all().
WriteRequest(status) ==
  /\ fetch.phase = "write"
  /\ IF status = "Ok" THEN fetch' = [fetch EXCEPT !.phase = "read"] /\ UNCHANGED held ELSE EndFetch(status)
  /\ UNCHANGED <<service, card, dhcp, replies, requested, cache, remote, fetches>>

\* The web server sends the page and closes: with the TLS notice, or only the connection,
\* possibly before all of the page was sent.
ServerSends ==
  /\ fetch.phase = "read" /\ remote.ended = "no"
  /\ \/ remote.sent < BodyUnits /\ remote' = [remote EXCEPT !.sent = @ + 1]
     \/ \E how \in {"notice", "bare"} :
          /\ how = "notice" => fetch.op = "https" /\ remote.sent = BodyUnits
          /\ remote' = [remote EXCEPT !.ended = how, !.whole = (remote.sent = BodyUnits)]
  /\ UNCHANGED <<service, card, dhcp, replies, requested, cache, fetch, held, fetches>>

StoreUnit ==
  /\ fetch.written < OutputCapacity /\ fetch.written < remote.sent
  /\ fetch' = [fetch EXCEPT !.written = @ + 1] /\ UNCHANGED held
\* The loop of http_request_over_tcp(): a full buffer ends it, the server's close, or its
\* silence, and then what came before is kept as a partial response.
ReadHttp ==
  LET taken == fetch.written < OutputCapacity /\ fetch.written = remote.sent IN
  /\ fetch.phase = "read" /\ fetch.op = "http"
  /\ \/ fetch.written = OutputCapacity /\ EndFetch("BufferTooSmall")
     \/ StoreUnit
     \/ taken /\ remote.ended # "no" /\ EndFetch(IF fetch.written = 0 THEN "WouldBlock" ELSE "Ok")
     \/ taken /\ EndFetch(IF fetch.written = 0 THEN "WouldBlock" ELSE "BufferTooSmall")
  /\ UNCHANGED <<service, card, dhcp, replies, requested, cache, remote, fetches>>
\* read_response(): only the TLS notice ends a response well.
EndStatus(how) == IF how = "notice" /\ fetch.written # 0 THEN "Ok" ELSE "IoFailure"
ReadHttps ==
  LET taken == fetch.written = remote.sent IN
  /\ fetch.phase = "read" /\ fetch.op = "https"
  /\ \/ fetch.written = OutputCapacity /\ remote.sent > fetch.written /\ EndFetch("ResponseTooLarge")
     \/ StoreUnit
     \/ taken /\ remote.ended # "no" /\ EndFetch(EndStatus(remote.ended))
     \/ taken /\ EndFetch("Timeout")
  /\ UNCHANGED <<service, card, dhcp, replies, requested, cache, remote, fetches>>
\* tcp_connect_probe(): one receive, and its status.
ReadProbe ==
  /\ fetch.phase = "read" /\ fetch.op = "probe"
  /\ EndFetch(IF remote.sent > 0 \/ remote.ended # "no" THEN "Ok" ELSE "WouldBlock")
  /\ UNCHANGED <<service, card, dhcp, replies, requested, cache, remote, fetches>>

ServiceInit ==
  /\ service = DownService /\ card = [driver |-> "none", detected |-> FALSE] /\ dhcp = NoDhcp /\ replies = {} /\ requested = {}
  /\ cache = FALSE /\ fetch = NoFetch /\ remote = NoServer
  /\ held = [sessions |-> 0, clients |-> 0] /\ fetches = 0
ServiceNext ==
  \/ InitializeService \/ Transmit_dhcp \/ (\E m \in replies : TakeReply(m)) \/ DhcpTimesOut
  \/ BeginHttp \/ BeginProbe \/ BeginHttps
  \/ \E ok \in BOOLEAN : ResolveHost(ok) \/ ConnectHost(ok)
  \/ \E step \in {"memory", "parse", "entropy", "ok"} : SetupTls(step)
  \/ PerformHandshake \/ ServerSends \/ ReadHttp \/ ReadHttps \/ ReadProbe
  \/ \E status \in {"Ok", "PayloadTooLarge", "WouldBlock"} : WriteRequest(status)
ServiceSpec == ServiceInit /\ [][ServiceNext]_service_vars

-------------------------------------------------------------------------------
\* The service says it is configured by DHCP only with a working card and a complete lease
\* that one server, which was asked for it, granted; otherwise it is ready on loopback
\* (acquire(), inherit_offer_configuration(), initialize()).
LeaseGranted ==
  /\ service.state \in {"off", "dhcp", "ready"} /\ dhcp.attempt \in 0..ATTEMPTS - 1 /\ fetch.written \in 0..OutputCapacity
  /\ service.dhcp =>
       /\ service.state = "ready" /\ service.physical /\ card.driver # "none" /\ Complete(service.lease)
       /\ service.lease.address \in requested
       /\ \A o \in DOMAIN NoLease.options : service.lease.options[o] \in {service.lease.address, "none"}
  /\ service.state = "ready" => dhcp = NoDhcp

\* A request that returns Ok has the whole response: over HTTPS all of the page, ended by the
\* server's authenticated notice, from a server whose chain and dates were verified against a
\* parsed trust store; over HTTP all that came before the server closed.  Every return has
\* freed the TLS session and closed the connection.
FetchWhole ==
  fetch.phase = "idle" =>
    /\ held.sessions = 0 /\ held.clients = 0
    /\ fetch.result = "Ok" /\ fetch.op # "probe" =>
         /\ fetch.written = remote.sent /\ remote.ended # "no"
         /\ fetch.op = "https" => remote.whole /\ remote.certificate = "good" /\ cache /\ service.trust

\* The stack and the service answer with what they were asked for, from tables and a
\* lease that are right.
NetworkExact == NeighborsRight /\ AnswersOwnQuestion /\ LeaseGranted /\ FetchWhole
===============================================================================
