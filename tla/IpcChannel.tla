------------------------------ MODULE IpcChannel ------------------------------
(***************************************************************************)
(* Named endpoints and message channels (src/kernel/ipc/channel.cpp).      *)
(* Every public function runs under g_state_lock, so it is one step.       *)
(*                                                                         *)
(* A service is bound to an endpoint slot, a client connects to it by name *)
(* and gets the client side of a channel slot, the slot waits in the       *)
(* endpoint's pending queue until the server accepts it.  Slots are reused *)
(* and handles carry the generation of the slot.  Service names, versions  *)
(* and the bytes of a message are abstract; a message keeps its sender and *)
(* the generation of the channel it was sent on.  service and taken are    *)
(* history: the service a channel was connected to and the one whose       *)
(* endpoint accepted it.                                                   *)
(***************************************************************************)
EXTENDS Integers, Sequences, FiniteSets, FiniteSetsExt

CONSTANTS
  Pids,           \* process identifiers
  NoPid,          \* INVALID_PROCESS_ID
  Names,          \* service names that pass validate_name()
  Versions,       \* service and client versions, a set of positive integers ({}: no service is versioned)
  NEndpoints,     \* MAX_ENDPOINTS
  NChannels,      \* MAX_CHANNELS
  MaxPending,     \* MAX_PENDING_CONNECTIONS
  MaxMessages,    \* MAX_MESSAGES_PER_DIRECTION
  MaxBinds,       \* bound: bind() succeeds this often in all
  MaxConnects     \* bound: a channel slot is used this often

ASSUME NoPidIsNone == NoPid \notin Pids
ASSUME Capacities ==
  /\ {NEndpoints, NChannels, MaxPending, MaxMessages, MaxBinds, MaxConnects} \subseteq Nat \ {0}
  /\ Versions \subseteq Nat \ {0}

VARIABLES
  endpoints,      \* g_endpoints
  channels,       \* g_channels
  exited,         \* processes that went through KU_SYS_EXIT
  issued          \* every handle returned so far

Live == Pids \ exited

vars == <<endpoints, channels, exited, issued>>

Endpoints == 1..NEndpoints
Channels == 1..NChannels

\* ServiceMetadata; Unversioned is a bind() without metadata.
Unversioned == [service |-> 0, minimum |-> 0]
Metadata == {Unversioned} \cup
  {m \in [service : Versions, minimum : Versions] : m.minimum <= m.service}

FreeEndpoint(g) ==
  [active |-> FALSE, generation |-> g, owner |-> NoPid, name |-> "", pending |-> <<>>,
   metadata |-> Unversioned]
FreeChannel(g) ==
  [active |-> FALSE, generation |-> g, client |-> NoPid, server |-> NoPid,
   client_open |-> FALSE, server_open |-> FALSE, accepted |-> FALSE,
   to_server |-> <<>>, to_client |-> <<>>, service |-> "", taken |-> ""]

Init ==
  /\ endpoints = [e \in Endpoints |-> FreeEndpoint(0)]
  /\ channels = [c \in Channels |-> FreeChannel(0)]
  /\ exited = {} /\ issued = {}

-------------------------------------------------------------------------------
EndpointHandle(e, g) == [kind |-> "endpoint", index |-> e, generation |-> g, server |-> FALSE]
ChannelHandle(c, g, s) == [kind |-> "channel", index |-> c, generation |-> g, server |-> s]

\* decode_endpoint() accepts handle h from process p.
DecodesEndpoint(p, h) ==
  /\ h.kind = "endpoint"
  /\ endpoints[h.index].active
  /\ endpoints[h.index].generation = h.generation
  /\ endpoints[h.index].owner = p

Side(ch, server) == IF server THEN ch.server ELSE ch.client
SideOpen(ch, server) == IF server THEN ch.server_open ELSE ch.client_open

\* decode_channel() accepts handle h from process p.
DecodesChannel(p, h) ==
  /\ h.kind = "channel"
  /\ LET ch == channels[h.index] IN
       /\ ch.active /\ ch.generation = h.generation
       /\ Side(ch, h.server) = p
       /\ SideOpen(ch, h.server)

FirstFree(slots) ==
  CHOOSE i \in DOMAIN slots :
    /\ ~slots[i].active
    /\ \A j \in DOMAIN slots : ~slots[j].active => i <= j
HasFree(slots) == \E i \in DOMAIN slots : ~slots[i].active

\* maybe_free_channel() and reset_channel(): only the generation survives.
\* ResetForgets is a mutant that clears the generation with the rest.
ResetForgets(ch) ==
  IF ~ch.client_open /\ ~ch.server_open THEN FreeChannel(0) ELSE ch
MaybeFree(ch) ==
  IF ~ch.client_open /\ ~ch.server_open THEN FreeChannel(ch.generation) ELSE ch

\* PendingLiveAccepted is a mutant that forgets the accepted flag.
PendingLiveAccepted(chs, owner, c) ==
  /\ chs[c].active /\ chs[c].client_open /\ chs[c].server_open
  /\ chs[c].server = owner
PendingLive(chs, owner, c) ==
  /\ chs[c].active /\ ~chs[c].accepted
  /\ chs[c].client_open /\ chs[c].server_open
  /\ chs[c].server = owner

\* The entries of s at the positions in kept, in their order.
Retained(s, kept) ==
  LET Nth(k) == CHOOSE i \in kept : Cardinality({j \in kept : j <= i}) = k
  IN  [k \in 1..Cardinality(kept) |-> s[Nth(k)]]

\* compact_pending(); the ring always starts at 0 afterwards.
Compact(ep) ==
  [ep EXCEPT !.pending =
     Retained(@, {i \in 1..Len(@) : PendingLive(channels, ep.owner, ep.pending[i])})]

\* cancel_pending() of the endpoints in S.  What one of them cancels is no longer
\* pending at another, so their order does not matter.
CancelPending(S) ==
  [c \in Channels |->
     IF \E e \in S : /\ c \in Range(endpoints[e].pending)
                     /\ PendingLive(channels, endpoints[e].owner, c)
     THEN MaybeFree([channels[c] EXCEPT !.server_open = FALSE])
     ELSE channels[c]]

\* The version connect() selects for a client that speaks lo..hi, 0 for VersionMismatch.
Negotiate(m, lo, hi) ==
  LET lower == IF lo > m.minimum THEN lo ELSE m.minimum
      upper == IF hi < m.service THEN hi ELSE m.service
  IN  IF m = Unversioned \/ lower > upper THEN 0 ELSE upper

-------------------------------------------------------------------------------
Binds == Cardinality({h \in issued : h.kind = "endpoint"})
Bind(p, n, m) ==
  /\ \A e \in Endpoints : ~(endpoints[e].active /\ endpoints[e].name = n)
  /\ HasFree(endpoints)
  /\ LET e == FirstFree(endpoints)
         g == endpoints[e].generation + 1
     IN  /\ Binds < MaxBinds
         /\ endpoints' = [endpoints EXCEPT ![e] =
              [FreeEndpoint(g) EXCEPT !.active = TRUE, !.owner = p, !.name = n,
                                      !.metadata = m]]
         /\ issued' = issued \cup {EndpointHandle(e, g)}
  /\ UNCHANGED <<channels, exited>>

Bound(n) == {e \in Endpoints : endpoints[e].active /\ endpoints[e].name = n}

\* connect(), with a version range or without one (<<>>).
VersionAccepted(ep, range) ==
  range # <<>> => Negotiate(ep.metadata, range[1], range[2]) # 0

Occupy(g, p, ep) ==
  [FreeChannel(g) EXCEPT
     !.active = TRUE, !.client = p, !.server = ep.owner,
     !.client_open = TRUE, !.server_open = TRUE, !.service = ep.name]

\* The pending queue is compacted even when the call then fails.
Connect(p, n, range) ==
  \E e \in Bound(n) :
    LET ep == Compact(endpoints[e]) IN
    /\ VersionAccepted(ep, range)
    /\ IF Len(ep.pending) < MaxPending /\ HasFree(channels)
       THEN LET c == FirstFree(channels)
                g == channels[c].generation + 1
            IN  /\ g <= MaxConnects
                /\ channels' = [channels EXCEPT ![c] = Occupy(g, p, ep)]
                /\ endpoints' = [endpoints EXCEPT ![e] =
                     [ep EXCEPT !.pending = Append(@, c)]]
                /\ issued' = issued \cup {ChannelHandle(c, g, FALSE)}
       ELSE /\ endpoints' = [endpoints EXCEPT ![e] = ep]
            /\ UNCHANGED <<channels, issued>>
    /\ UNCHANGED exited

\* accept(): compaction leaves only live entries, so the head is taken at once.
Accept(p, h) ==
  /\ DecodesEndpoint(p, h)
  /\ LET ep == Compact(endpoints[h.index]) IN
     IF ep.pending # <<>>
     THEN LET c == Head(ep.pending) IN
          /\ channels' = [channels EXCEPT ![c] = [@ EXCEPT !.accepted = TRUE, !.taken = ep.name]]
          /\ endpoints' = [endpoints EXCEPT ![h.index] =
               [ep EXCEPT !.pending = Tail(@)]]
          /\ issued' = issued \cup {ChannelHandle(c, channels[c].generation, TRUE)}
     ELSE /\ endpoints' = [endpoints EXCEPT ![h.index] = ep]
          /\ UNCHANGED <<channels, issued>>
  /\ UNCHANGED exited

\* send(): PeerClosed and WouldBlock change nothing.
Send(p, h) ==
  /\ DecodesChannel(p, h)
  /\ LET ch == channels[h.index]
         m  == [sender |-> p, generation |-> ch.generation]
     IN  /\ SideOpen(ch, ~h.server)
         /\ IF h.server
            THEN /\ Len(ch.to_client) < MaxMessages
                 /\ channels' = [channels EXCEPT ![h.index].to_client = Append(@, m)]
            ELSE /\ Len(ch.to_server) < MaxMessages
                 /\ channels' = [channels EXCEPT ![h.index].to_server = Append(@, m)]
  /\ UNCHANGED <<endpoints, exited, issued>>

\* receive(): messages that were queued before the peer closed are delivered.
Receive(p, h) ==
  /\ DecodesChannel(p, h)
  /\ IF h.server
     THEN /\ channels[h.index].to_server # <<>>
          /\ channels' = [channels EXCEPT ![h.index].to_server = Tail(@)]
     ELSE /\ channels[h.index].to_client # <<>>
          /\ channels' = [channels EXCEPT ![h.index].to_client = Tail(@)]
  /\ UNCHANGED <<endpoints, exited, issued>>

\* The endpoint part of close(), also run for every endpoint of a process that
\* exits.
CloseEndpoint(p, h) ==
  /\ DecodesEndpoint(p, h)
  /\ channels' = CancelPending({h.index})
  /\ endpoints' = [endpoints EXCEPT ![h.index] = FreeEndpoint(@.generation)]
  /\ UNCHANGED <<exited, issued>>

CloseClient(ch) ==
  [ch EXCEPT !.client_open = FALSE,
             !.server_open = @ /\ ch.accepted]

CloseChannel(p, h) ==
  /\ DecodesChannel(p, h)
  /\ LET ch == channels[h.index] IN
     channels' = [channels EXCEPT ![h.index] =
       MaybeFree(IF h.server THEN [ch EXCEPT !.server_open = FALSE]
                             ELSE CloseClient(ch))]
  /\ UNCHANGED <<endpoints, exited, issued>>

\* release_process(): endpoints first, then every channel side.
ReleaseSide(ch, p) ==
  LET c1 == IF ch.client = p THEN CloseClient(ch) ELSE ch
      c2 == IF ch.server = p THEN [c1 EXCEPT !.server_open = FALSE] ELSE c1
  IN  IF ch.active THEN MaybeFree(c2) ELSE ch

Owned(p) == {e \in Endpoints : endpoints[e].active /\ endpoints[e].owner = p}

ReleaseChannels(p) ==
  /\ exited' = exited \cup {p}
  /\ channels' =
       LET cancelled == CancelPending(Owned(p))
       IN  [c \in Channels |-> ReleaseSide(cancelled[c], p)]
  /\ endpoints' = [e \in Endpoints |->
       IF e \in Owned(p) THEN FreeEndpoint(endpoints[e].generation) ELSE endpoints[e]]
  /\ UNCHANGED issued

Ranges == {<<>>} \cup {r \in Versions \X Versions : r[1] <= r[2]}

Next ==
  \E p \in Live :
    \/ \E n \in Names, m \in Metadata : Bind(p, n, m)
    \/ \E n \in Names, r \in Ranges : Connect(p, n, r)
    \/ \E h \in issued : Accept(p, h)
    \/ \E h \in issued : Send(p, h)
    \/ \E h \in issued : Receive(p, h)
    \/ \E h \in issued : CloseEndpoint(p, h)
    \/ \E h \in issued : CloseChannel(p, h)
    \/ ReleaseChannels(p)

Spec == Init /\ [][Next]_vars

-------------------------------------------------------------------------------
\* The tables hold slots of the declared shape and their queues keep within
\* their capacities.
TypeOK ==
  /\ \A e \in Endpoints :
       /\ endpoints[e].generation \in Nat
       /\ endpoints[e].owner \in Pids \cup {NoPid}
       /\ endpoints[e].pending \in Seq(Channels)
       /\ Len(endpoints[e].pending) <= MaxPending
       /\ endpoints[e].metadata \in Metadata
  /\ \A c \in Channels :
       /\ channels[c].generation \in 0..MaxConnects
       /\ {channels[c].client, channels[c].server} \subseteq Pids \cup {NoPid}
       /\ Len(channels[c].to_server) <= MaxMessages
       /\ Len(channels[c].to_client) <= MaxMessages
  /\ exited \subseteq Pids

\* No channel slot leaks and no connection is lost: an active slot has an open
\* side, its client side is open while it waits to be accepted, and while it
\* waits it is queued exactly once at the endpoint of its own service.  And
\* release_process() leaves nothing behind: whoever has an endpoint or an open
\* side has not exited, however its calls were interleaved with its peers'.
EveryOpenSideReachable ==
  /\ TypeOK
  /\ \A e \in Endpoints : endpoints[e].active => endpoints[e].owner \notin exited
  /\ \A c \in Channels : channels[c].active =>
       /\ channels[c].client_open \/ channels[c].server_open
       /\ channels[c].client_open => channels[c].client \notin exited
       /\ channels[c].server_open => channels[c].server \notin exited
       /\ channels[c].server_open /\ ~channels[c].accepted =>
            /\ channels[c].client_open
            /\ \E e \in Bound(channels[c].service) :
                 /\ endpoints[e].owner = channels[c].server
                 /\ Cardinality({i \in 1..Len(endpoints[e].pending) :
                                   endpoints[e].pending[i] = c}) = 1

\* A message can only come from the other side of the connection.  A queued
\* message was sent by it, on the present incarnation of the slot; and no handle
\* ever given out is newer than its slot, so the next incarnation, one above,
\* cannot be used through a handle of an earlier one.
MessagesFromPeer ==
  /\ \A c \in Channels :
       LET ch == channels[c] IN
       /\ Range(ch.to_server) \subseteq {[sender |-> ch.client, generation |-> ch.generation]}
       /\ Range(ch.to_client) \subseteq {[sender |-> ch.server, generation |-> ch.generation]}
  /\ \A h \in issued : h.generation <=
       IF h.kind = "channel" THEN channels[h.index].generation ELSE endpoints[h.index].generation

\* connect() selects the newest version both sides speak, and refuses exactly
\* when there is none.
NegotiationIsNewestCommon ==
  \A e \in Endpoints : endpoints[e].active /\ endpoints[e].metadata # Unversioned =>
    \A lo, hi \in Versions : lo <= hi =>
      LET m == endpoints[e].metadata
          common == {v \in lo..hi : m.minimum <= v /\ v <= m.service}
      IN  Negotiate(m, lo, hi) = IF common = {} THEN 0 ELSE Max(common)

\* "accepted channels survive closure of the listening endpoint"
\* (docs/DEVELOPERS/API_REFERENCE.md): closing an endpoint changes no channel
\* that was accepted.
AcceptedSurviveEndpointClose ==
  [][(\E e \in Endpoints : endpoints[e].active /\ ~endpoints'[e].active)
        /\ exited' = exited =>
       \A c \in Channels : channels[c].accepted => channels'[c] = channels[c]]_vars

\* "clients connect by name, and the server accepts each pending connection"
\* (docs/DEVELOPERS/API_REFERENCE.md): accept() on the endpoint of a service
\* returns a channel that was connected to that service.
AcceptedByItsService ==
  \A c \in Channels : channels[c].accepted => channels[c].taken = channels[c].service

\* What every process may rely on in the tables of endpoints and channels, in
\* whatever order the others bind, connect, accept, send, close and exit: who
\* can be reached, whose messages arrive and which version is spoken.
ChannelsExact == EveryOpenSideReachable /\ MessagesFromPeer /\ NegotiationIsNewestCommon
===============================================================================
