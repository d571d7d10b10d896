-------------------------------- MODULE Tcp --------------------------------
(***************************************************************************)
(* The TCP client (src/kernel/net/tcp_client.cpp) and the TLS transport    *)
(* that writes through it (bio_send of tls/client.cpp), against a peer     *)
(* that follows TCP and a network that loses, repeats and reorders.        *)
(* A client is used either with the blocking calls or with the calls that  *)
(* make one step.  Bytes are labels: the peer's stream is 1, 2, 3...; so   *)
(* is ours, and a segment carries the labels it was cut from.  Sequence    *)
(* numbers are taken modulo SeqSpace.                                      *)
(***************************************************************************)
EXTENDS Integers, FiniteSets, SequencesExt

CONSTANTS
  SeqSpace,          \* sequence numbers are 0..SeqSpace-1, 2^32 in the code
  ClientIsn, PeerIsn,
  MaxSegment,        \* MAX_SEGMENT_PAYLOAD
  Capacity,          \* STREAM_RECEIVE_CAPACITY
  Depth,             \* OUT_OF_ORDER_QUEUE_DEPTH
  Transmissions,     \* kDataTransmissionLimit
  PeerWindows,       \* windows the peer announces
  Streams,           \* pairs: how many bytes the application and the peer have to send
  MaxFlight,         \* bound: segments in each direction of the network
  MaxTimeouts        \* bound: waits that run out

VARIABLES
  tcp,               \* the Client
  call,              \* the blocking call in progress
  app,               \* the user: mode, accepted and received bytes, close result
  tcp_peer,          \* the other end
  to_peer, to_client \* segments on the network
tcp_vars == <<tcp, call, app, tcp_peer, to_peer, to_client>>

-------------------------------------------------------------------------------
AppLen == app.len[1]
PeerLen == app.len[2]

\* Sequence numbers and segments.
Plus(a, n) == (a + n) % SeqSpace
SequenceBefore(a, b) == (a - b) % SeqSpace >= SeqSpace \div 2
SequenceAfter(a, b) == SequenceBefore(b, a)
Labels(from, n) == [i \in 1..n |-> from + i - 1]
Segment(flags, seq, ack, wnd, data) ==
  [flags |-> flags, seq |-> seq, ack |-> ack, wnd |-> wnd, data |-> data]
EndSequence(s) == Plus(s.seq, Len(s.data) + (IF "FIN" \in s.flags THEN 1 ELSE 0))

Initialized == [state |-> "Closed", connected |-> FALSE, una |-> 0, nxt |-> 0, rcv |-> 0, wnd |-> 0,
                pending |-> <<>>, ooo |-> {}, peer_closed |-> FALSE]
SynSent == [Initialized EXCEPT !.state = "SynSent", !.una = ClientIsn, !.nxt = ClientIsn]

\* The locals of a blocking call: transmissions made, bytes wanted and acknowledged, and
\* the segment being sent.
NoTcpCall == [op |-> "none", tries |-> 0, want |-> 0, offset |-> 0, seq |-> 0, chunk |-> 0, committed |-> FALSE]
TcpAt(op) == app.mode = "calls" /\ call.op = op

\* The network takes a segment when it has room; a full network is a loss.
Sent(net, s) == IF s \in net \/ Cardinality(net) < MaxFlight THEN net \cup {s} ELSE net
\* What send_tcp() comes to: sent, no descriptor or neighbour at the moment, or an error.
Outcomes == {"sent", "busy", "failed"}

-------------------------------------------------------------------------------
\* Receiving.
RecordAck(c, s) ==
  IF "ACK" \in s.flags /\ ~SequenceAfter(s.ack, c.nxt) /\ SequenceAfter(s.ack, c.una)
  THEN [c EXCEPT !.una = s.ack] ELSE c

\* append_pending() and ingest_contiguous() of a segment that starts at or before
\* receive_next; ok is FALSE for QueueFull.
Fits(c, n) == Len(c.pending) + n <= Capacity
\* A mutant that takes a repeated prefix for new bytes.
Ingest_repeats(c, s) ==
  [ok |-> Fits(c, Len(s.data)),
   c |-> [c EXCEPT !.pending = @ \o s.data, !.rcv = EndSequence(s),
                   !.peer_closed = @ \/ "FIN" \in s.flags]]
Ingest(c, s) ==
  LET skip == Min({Len(s.data), (c.rcv - s.seq) % SeqSpace})
      fresh == IF s.data = <<>> THEN <<>> ELSE SubSeq(s.data, skip + 1, Len(s.data))
      fed == [c EXCEPT !.pending = @ \o fresh, !.rcv = Plus(@, Len(fresh))]
      fin == "FIN" \in s.flags /\ Plus(s.seq, Len(s.data)) = fed.rcv
  IN  IF ~Fits(c, Len(fresh)) THEN [ok |-> FALSE, c |-> c]
      ELSE [ok |-> TRUE, c |-> IF ~fin THEN fed
                               ELSE [fed EXCEPT !.rcv = Plus(@, 1), !.peer_closed = TRUE,
                                       !.state = IF @ = "FinWait1" THEN @ ELSE "CloseWait"]]

\* queue_out_of_order(): the longer of two that start together; when full, the
\* segments nearest receive_next.
Distance(c, s) == (s.seq - c.rcv) % SeqSpace
QueueOutOfOrder(c, s) ==
  LET same == {b \in c.ooo : b.seq = s.seq}
      farthest == CHOOSE b \in c.ooo : \A d \in c.ooo : Distance(c, d) <= Distance(c, b)
      kept == [seq |-> s.seq, flags |-> s.flags, data |-> s.data]
      Replace(b) == [c EXCEPT !.ooo = (@ \ {b}) \cup {kept}]
  IN  CASE s.data = <<>> /\ "FIN" \notin s.flags -> c
        [] same # {} -> LET b == CHOOSE x \in same : TRUE IN
                        IF SequenceAfter(EndSequence(s), EndSequence(b)) THEN Replace(b) ELSE c
        [] same = {} /\ Cardinality(c.ooo) < Depth -> [c EXCEPT !.ooo = @ \cup {kept}]
        [] OTHER -> IF Distance(c, s) < Distance(c, farthest) THEN Replace(farthest) ELSE c

\* flush_out_of_order(): one buffered segment that now fits, until none does.
FlushOne(c) ==
  LET live == {b \in c.ooo : SequenceAfter(EndSequence(b), c.rcv)}
      ready == {b \in live : ~SequenceAfter(b.seq, c.rcv)}
      first == CHOOSE b \in ready : \A d \in ready : ~SequenceBefore(d.seq, b.seq)
      ingested == Ingest(c, first)
  IN  IF ready = {} THEN [c EXCEPT !.ooo = live]
      ELSE IF ~ingested.ok THEN [c EXCEPT !.ooo = live]
      ELSE [ingested.c EXCEPT !.ooo = IF ingested.c.peer_closed THEN {} ELSE live \ {first}]
FlushOutOfOrder(c) ==
  LET flushed[n \in 0..Depth] == IF n = 0 THEN c ELSE FlushOne(flushed[n - 1]) IN flushed[Depth]

\* process_incoming(): the client after a segment, whether it failed, and whether it
\* answers with an ACK.
ProcessIncoming(c0, s) ==
  LET c == RecordAck([c0 EXCEPT !.wnd = s.wnd], s)
      ingested == Ingest(c, s)
      Reply(d) == [c |-> d, failed |-> FALSE, reply |-> TRUE]
  IN  CASE "RST" \in s.flags ->
             [c |-> [c0 EXCEPT !.wnd = s.wnd, !.connected = FALSE, !.state = "Reset"],
              failed |-> TRUE, reply |-> FALSE]
        [] "RST" \notin s.flags /\ s.data = <<>> /\ "FIN" \notin s.flags ->
             [c |-> c, failed |-> FALSE, reply |-> FALSE]
        [] OTHER ->
             IF ~SequenceAfter(EndSequence(s), c.rcv) THEN Reply(c)
             ELSE IF SequenceAfter(s.seq, c.rcv) THEN Reply(QueueOutOfOrder(c, s))
             ELSE IF ingested.ok THEN Reply(FlushOutOfOrder(ingested.c)) ELSE Reply(c)

\* A segment leaves the network, or a copy of it stays.
Taken(s) == \E copy \in BOOLEAN : to_client' = IF copy THEN to_client ELSE to_client \ {s}
Transmit(s, out) == IF out = "sent" THEN Sent(to_peer, s) ELSE to_peer
\* acknowledge_or_defer(), when an ACK is wanted: the peer may send again what it was told
\* of and so our bare ACKs are left out, but not that sending one may fail.
AckOutcomes(wanted) == IF wanted THEN {"sent", "failed"} ELSE {"none"}

-------------------------------------------------------------------------------
\* The calls that make one step.
Nonblocking == app.mode = "steps"
Syn == Segment({"SYN"}, ClientIsn, 0, 0, <<>>)
\* begin_connect(), again by the socket layer while there is no answer.
BeginConnect ==
  /\ Nonblocking /\ tcp.state \in {"Closed", "SynSent"} /\ app.connects < Transmissions
  /\ app' = [app EXCEPT !.connects = @ + 1]
  /\ \E out \in Outcomes :
       /\ tcp' = CASE out = "sent" -> [SynSent EXCEPT !.nxt = Plus(ClientIsn, 1)]
                   [] out = "busy" -> SynSent
                   [] out = "failed" -> [SynSent EXCEPT !.state = "Error"]
       /\ to_peer' = Transmit(Syn, out)
  /\ UNCHANGED <<call, tcp_peer, to_client>>

\* The answer to our SYN, in progress() and in connect().
AnswersSyn(s) == {"SYN", "ACK"} \subseteq s.flags /\ s.ack = Plus(ClientIsn, 1)
Established(c, s) == [c EXCEPT !.rcv = Plus(s.seq, 1), !.una = s.ack, !.nxt = Plus(ClientIsn, 1),
                               !.wnd = s.wnd, !.connected = TRUE, !.state = "Established"]
Errored(c) == [c EXCEPT !.connected = FALSE, !.state = "Error"]

\* What progress() makes of one segment: the client, whether it failed, and its ACK.
Handshake(c, s) ==
  CASE "RST" \in s.flags -> [c |-> [c EXCEPT !.state = "Reset"], failed |-> TRUE, reply |-> FALSE]
    [] "RST" \notin s.flags /\ AnswersSyn(s) -> [c |-> Established(c, s), failed |-> FALSE, reply |-> TRUE]
    [] OTHER -> [c |-> c, failed |-> FALSE, reply |-> FALSE]
Progressed(c, s, out) ==
  LET r == IF c.state = "SynSent" THEN Handshake(c, s) ELSE ProcessIncoming(c, s)
  IN  CASE r.failed -> r.c
        [] ~r.failed /\ out = "failed" -> IF c.state = "SynSent" THEN Errored(r.c) ELSE r.c
        [] ~r.failed /\ out # "failed" ->
             IF c.state # "FinWait1" THEN r.c
             ELSE IF r.c.peer_closed /\ ~SequenceBefore(r.c.una, r.c.nxt) THEN Initialized
             ELSE [r.c EXCEPT !.state = "FinWait1"]
Replies(c, s) == IF c.state = "SynSent" THEN Handshake(c, s) ELSE ProcessIncoming(c, s)

\* progress() with a segment at hand.
Progress(s) ==
  /\ Nonblocking /\ tcp.state \notin {"Closed", "Reset", "Error"}
  /\ tcp.state = "SynSent" => tcp.nxt # tcp.una
  /\ Taken(s)
  /\ LET r == Replies(tcp, s) IN
     \E out \in AckOutcomes(r.reply) :
       /\ tcp' = Progressed(tcp, s, out)
       /\ app' = IF tcp.state = "FinWait1" /\ tcp' = Initialized THEN [app EXCEPT !.closed = "graceful"] ELSE app
  /\ UNCHANGED <<call, tcp_peer, to_peer>>
\* progress() that first sends the SYN begin_connect() could not send; no answer to it
\* can be waiting.
ProgressSyn ==
  /\ Nonblocking /\ tcp.state = "SynSent" /\ tcp.nxt = tcp.una
  /\ \E out \in {"sent", "failed"} :
       /\ tcp' = IF out = "sent" THEN [tcp EXCEPT !.nxt = Plus(@, 1)] ELSE [tcp EXCEPT !.state = "Error"]
       /\ to_peer' = Transmit(Syn, out)
  /\ UNCHANGED <<call, app, tcp_peer, to_client>>

\* try_send(): as much as the window has room for, once.
TrySend ==
  LET flight == (tcp.nxt - tcp.una) % SeqSpace
      chunk == Min({AppLen - app.accepted, MaxSegment, tcp.wnd - flight})
      data == Labels(app.accepted + 1, chunk)
  IN  /\ Nonblocking /\ tcp.connected /\ tcp.state = "Established" /\ ~tcp.peer_closed
      /\ app.accepted < AppLen /\ flight < tcp.wnd
      /\ \E out \in {"sent", "failed"} :
           /\ to_peer' = Transmit(Segment({"ACK"}, tcp.nxt, tcp.rcv, 0, data), out)
           /\ tcp' = IF out = "sent" THEN [tcp EXCEPT !.nxt = Plus(@, chunk)] ELSE Errored(tcp)
           /\ app' = IF out = "sent" THEN [app EXCEPT !.accepted = @ + chunk] ELSE app
      /\ UNCHANGED <<call, tcp_peer, to_client>>

\* drain_pending() into a buffer of one byte or a large one, and the ACK that tells the
\* peer of the room (its failure is ignored).
Drained(c, n) == [c EXCEPT !.pending = SubSeq(@, n + 1, Len(@))]
Given(c, n) == [app EXCEPT !.received = @ \o SubSeq(c.pending, 1, n)]
Buffers(c) == {1, Len(c.pending)} \ {0}
\* try_receive(); without pending bytes it is progress() and a second drain.
TryReceive ==
  /\ Nonblocking /\ tcp.pending # <<>>
  /\ \E n \in Buffers(tcp) :
       /\ tcp' = Drained(tcp, n) /\ app' = Given(tcp, n)
  /\ UNCHANGED <<call, tcp_peer, to_peer, to_client>>

\* begin_close().
BeginClose ==
  /\ Nonblocking /\ tcp.state # "Closed"
  /\ IF ~tcp.connected \/ tcp.state = "Reset"
     THEN tcp' = Initialized /\ app' = [app EXCEPT !.closed = "lost"] /\ UNCHANGED to_peer
     ELSE /\ tcp.state \in {"Established", "CloseWait"} /\ tcp.una = tcp.nxt
          /\ \E out \in {"sent", "failed"} :
               /\ tcp' = IF out = "sent" THEN [tcp EXCEPT !.nxt = Plus(@, 1), !.state = "FinWait1"]
                         ELSE [tcp EXCEPT !.state = "Error"]
               /\ to_peer' = Transmit(Segment({"FIN", "ACK"}, tcp.nxt, tcp.rcv, 0, <<>>), out)
          /\ UNCHANGED app
  /\ UNCHANGED <<call, tcp_peer, to_client>>

-------------------------------------------------------------------------------
\* The blocking calls.  A call waits in one of "syn", "handshake", "transmit", "ack",
\* "receive", "fin" and "abort"; the end of its wait is an action of its own.
TimeOut == app.waits < MaxTimeouts /\ app' = [app EXCEPT !.waits = @ + 1]

\* connect(): up to kDataTransmissionLimit SYNs, each with its share of the time.
Connect ==
  /\ TcpAt("none") /\ tcp.state = "Closed" /\ app.connects = 0
  /\ tcp' = SynSent /\ call' = [NoTcpCall EXCEPT !.op = "syn"]
  /\ app' = [app EXCEPT !.connects = 1]
  /\ UNCHANGED <<tcp_peer, to_peer, to_client>>
ConnectTransmit ==
  /\ TcpAt("syn")
  /\ \E out \in Outcomes :
       /\ tcp' = CASE out = "sent" -> [tcp EXCEPT !.nxt = Plus(ClientIsn, 1)]
                   [] out = "busy" -> tcp
                   [] out = "failed" -> [tcp EXCEPT !.state = "Error"]
       /\ call' = IF out = "failed" THEN NoTcpCall ELSE [call EXCEPT !.op = "handshake"]
       /\ to_peer' = Transmit(Syn, out)
  /\ UNCHANGED <<app, tcp_peer, to_client>>
ConnectTake(s) ==
  LET r == Handshake(tcp, s) IN
  /\ TcpAt("handshake") /\ Taken(s)
  /\ \E out \in AckOutcomes(r.reply) :
       /\ tcp' = IF out = "failed" THEN Errored(r.c) ELSE r.c
       /\ call' = IF r.failed \/ r.reply THEN NoTcpCall ELSE call
  /\ UNCHANGED <<app, tcp_peer, to_peer>>
ConnectTimeOut ==
  /\ TcpAt("handshake") /\ TimeOut
  /\ IF call.tries + 1 < Transmissions
     THEN call' = [call EXCEPT !.op = "syn", !.tries = @ + 1] /\ UNCHANGED tcp
     ELSE call' = NoTcpCall /\ tcp' = Errored(tcp)
  /\ UNCHANGED <<tcp_peer, to_peer, to_client>>

\* The loop head of send(): done, no window, or the next chunk.
TcpChunk(c, want, offset) ==
  IF offset = want \/ c.wnd = 0 THEN NoTcpCall
  ELSE [op |-> "transmit", tries |-> 0, want |-> want, offset |-> offset, seq |-> c.nxt,
        chunk |-> Min({want - offset, MaxSegment, c.wnd}), committed |-> FALSE]
\* bio_send() hands send() one segment's worth of what it has not accepted yet.
Send ==
  LET want == Min({AppLen - app.accepted, MaxSegment}) IN
  /\ TcpAt("none") /\ tcp.connected /\ tcp.state = "Established" /\ ~tcp.peer_closed /\ want > 0
  /\ call' = TcpChunk(tcp, want, 0)
  /\ UNCHANGED <<tcp, app, tcp_peer, to_peer, to_client>>
\* A mutant that keeps the sequence numbers of a segment it reports as not accepted.
SendOver_advances ==
  /\ call' = NoTcpCall /\ app' = [app EXCEPT !.waits = @ + 1] /\ UNCHANGED tcp
\* Every transmission of the chunk made: nothing queued, nothing acknowledged, or part.
SendOver ==
  /\ call' = NoTcpCall /\ app' = [app EXCEPT !.waits = @ + 1, !.rewound = @ \/ call.committed]
  /\ tcp' = CASE ~call.committed -> tcp
              [] call.committed /\ tcp.una = call.seq -> [tcp EXCEPT !.nxt = call.seq]
              [] OTHER -> Errored(tcp)
SendAgain ==
  IF call.tries + 1 < Transmissions
  THEN TimeOut /\ call' = [call EXCEPT !.op = "transmit", !.tries = @ + 1] /\ UNCHANGED tcp
  ELSE app.waits < MaxTimeouts /\ SendOver
SendTransmit ==
  LET expected == Plus(call.seq, call.chunk)
      data == Labels(app.accepted + call.offset + 1, call.chunk)
  IN
  /\ TcpAt("transmit")
  /\ \/ /\ tcp' = [tcp EXCEPT !.nxt = IF call.committed THEN @ ELSE expected]
        /\ call' = [call EXCEPT !.op = "ack", !.committed = TRUE]
        /\ to_peer' = Transmit(Segment({"ACK"}, call.seq, tcp.rcv, 0, data), "sent")
        /\ UNCHANGED app
     \/ SendAgain /\ UNCHANGED to_peer
     \/ tcp' = Errored(tcp) /\ call' = NoTcpCall /\ UNCHANGED <<app, to_peer>>
  /\ UNCHANGED <<tcp_peer, to_client>>
SendTake(s) ==
  LET r == ProcessIncoming(tcp, s)
      acknowledged == ~SequenceBefore(r.c.una, Plus(call.seq, call.chunk))
      next == TcpChunk(r.c, call.want, call.offset + call.chunk)
  IN
  /\ TcpAt("ack") /\ Taken(s)
  /\ \E out \in AckOutcomes(r.reply) :
       /\ IF r.failed \/ out = "failed"
          THEN /\ tcp' = IF r.c.state = "Reset" THEN r.c ELSE Errored(r.c)
               /\ call' = NoTcpCall /\ UNCHANGED app
          ELSE /\ tcp' = r.c
               /\ call' = IF acknowledged THEN next ELSE call
               /\ app' = IF acknowledged /\ call.offset + call.chunk = call.want
                         THEN [app EXCEPT !.accepted = @ + call.want] ELSE app
  /\ UNCHANGED <<tcp_peer, to_peer>>
SendTimeOut == TcpAt("ack") /\ SendAgain /\ UNCHANGED <<tcp_peer, to_peer, to_client>>

\* receive(): what is pending, or what the next segments bring.
Receive ==
  /\ TcpAt("none") /\ tcp.state \notin {"Reset", "Error"}
  /\ IF tcp.pending # <<>>
     THEN /\ \E n \in Buffers(tcp) :
               /\ tcp' = Drained(tcp, n) /\ app' = Given(tcp, n)
          /\ UNCHANGED <<call, to_peer>>
     ELSE /\ ~tcp.peer_closed /\ tcp.connected
          /\ call' = [NoTcpCall EXCEPT !.op = "receive"]
          /\ UNCHANGED <<tcp, app, to_peer>>
  /\ UNCHANGED <<tcp_peer, to_client>>
ReceiveTake(s) ==
  LET r == ProcessIncoming(tcp, s) IN
  /\ TcpAt("receive") /\ Taken(s)
  /\ \E out \in AckOutcomes(r.reply), n \in Buffers(r.c) \cup {0} :
       /\ (r.failed \/ out = "failed" \/ r.c.pending = <<>>) <=> n = 0
       /\ tcp' = Drained(r.c, n) /\ app' = Given(r.c, n)
       /\ call' = IF r.failed \/ out = "failed" \/ n > 0 \/ r.c.peer_closed THEN NoTcpCall ELSE call
  /\ UNCHANGED <<tcp_peer, to_peer>>
ReceiveTimeOut ==
  TcpAt("receive") /\ TimeOut /\ call' = NoTcpCall /\ UNCHANGED <<tcp, tcp_peer, to_peer, to_client>>

\* close(): FIN and its answer, or RST.
Close ==
  /\ TcpAt("none") /\ tcp.state # "Closed"
  /\ CASE ~tcp.connected \/ tcp.state = "Reset" \/ tcp.state = "Error" ->
            tcp' = Initialized /\ app' = [app EXCEPT !.closed = "lost"] /\ UNCHANGED <<call, to_peer>>
       [] tcp.connected /\ tcp.state = "FinWait1" ->
            call' = [NoTcpCall EXCEPT !.op = "abort"] /\ UNCHANGED <<tcp, app, to_peer>>
       [] tcp.connected /\ tcp.state \in {"Established", "CloseWait"} ->
            /\ tcp.una = tcp.nxt
            /\ to_peer' = Transmit(Segment({"FIN", "ACK"}, tcp.nxt, tcp.rcv, 0, <<>>), "sent")
            /\ tcp' = [tcp EXCEPT !.state = "FinWait1", !.nxt = Plus(@, 1)]
            /\ call' = [NoTcpCall EXCEPT !.op = "fin"] /\ UNCHANGED app
  /\ UNCHANGED <<tcp_peer, to_client>>
CloseTake(s) ==
  LET r == ProcessIncoming(tcp, s)
      over == r.c.peer_closed /\ ~SequenceBefore(r.c.una, r.c.nxt)
  IN
  /\ TcpAt("fin") /\ Taken(s)
  /\ \E out \in AckOutcomes(r.reply) :
       /\ tcp' = CASE r.failed \/ (over /\ out # "failed") -> Initialized
                   [] ~r.failed /\ (~over \/ out = "failed") -> [r.c EXCEPT !.state = "FinWait1"]
       /\ app' = CASE r.failed -> [app EXCEPT !.closed = "lost"]
                   [] ~r.failed /\ over /\ out # "failed" -> [app EXCEPT !.closed = "graceful"]
                   [] OTHER -> app
       /\ call' = IF r.failed \/ over \/ out = "failed" THEN NoTcpCall ELSE call
  /\ UNCHANGED <<tcp_peer, to_peer>>
CloseTimeOut ==
  TcpAt("fin") /\ TimeOut /\ call' = [call EXCEPT !.op = "abort"] /\ UNCHANGED <<tcp, tcp_peer, to_peer, to_client>>
CloseAbort ==
  /\ TcpAt("abort") /\ call' = NoTcpCall
  /\ \/ /\ to_peer' = Transmit(Segment({"RST", "ACK"}, tcp.nxt, tcp.rcv, 0, <<>>), "sent")
        /\ tcp' = Initialized /\ app' = [app EXCEPT !.closed = "aborted"]
     \/ UNCHANGED <<tcp, app, to_peer>>
  /\ UNCHANGED <<tcp_peer, to_client>>

-------------------------------------------------------------------------------
\* The peer and the network.
PeerNext == Plus(ClientIsn, 1 + Len(tcp_peer.got) + (IF tcp_peer.fin THEN 1 ELSE 0))
PeerPosition(p) == Plus(PeerIsn, p)
Answer(s) == \E w \in PeerWindows : to_client' = Sent(to_client, [s EXCEPT !.wnd = w])
\* The peer takes what follows what it has, and acknowledges it.
PeerTakes(s) ==
  LET old == (PeerNext - s.seq) % SeqSpace
      fresh == IF old < Len(s.data) /\ ~tcp_peer.fin THEN SubSeq(s.data, old + 1, Len(s.data)) ELSE <<>>
  IN
  /\ s \in to_peer /\ tcp_peer.up # "reset"
  /\ to_peer' = to_peer \ {s}
  /\ CASE "RST" \in s.flags -> tcp_peer' = [tcp_peer EXCEPT !.up = "reset"] /\ UNCHANGED to_client
       [] "SYN" \in s.flags -> /\ tcp_peer' = [tcp_peer EXCEPT !.up = "open"]
                               /\ Answer(Segment({"SYN", "ACK"}, PeerIsn, Plus(ClientIsn, 1), 0, <<>>))
       [] {"RST", "SYN"} \cap s.flags = {} /\ (s.data # <<>> \/ "FIN" \in s.flags) ->
            /\ tcp_peer.up = "open" /\ ~SequenceAfter(s.seq, PeerNext)
            /\ tcp_peer' = [tcp_peer EXCEPT !.got = @ \o fresh,
                              !.fin = @ \/ ("FIN" \in s.flags /\ ~SequenceBefore(EndSequence(s), Plus(PeerNext, 1)))]
            /\ Answer(Segment({"ACK"}, PeerPosition(1), PeerNext', 0, <<>>))
  /\ UNCHANGED <<tcp, call, app>>
\* Any part of its stream, sent for the first time or again, FIN after the last byte.
PeerSends ==
  /\ tcp_peer.up = "open" /\ Cardinality(to_client) < MaxFlight
  /\ \E p \in 1..PeerLen + 1, n \in 0..MaxSegment, fin \in BOOLEAN :
       /\ p + n - 1 <= PeerLen /\ (fin => p + n - 1 = PeerLen) /\ (n > 0 \/ fin)
       /\ Answer(Segment({"ACK"} \cup (IF fin THEN {"FIN"} ELSE {}), PeerPosition(p), PeerNext, 0, Labels(p, n)))
  /\ UNCHANGED <<tcp, call, app, tcp_peer, to_peer>>
PeerResets ==
  /\ tcp_peer.up = "open" /\ tcp_peer' = [tcp_peer EXCEPT !.up = "reset"]
  /\ Answer(Segment({"RST"}, PeerPosition(1), PeerNext, 0, <<>>))
  /\ UNCHANGED <<tcp, call, app, to_peer>>
Lose ==
  /\ \/ \E s \in to_peer : to_peer' = to_peer \ {s} /\ UNCHANGED to_client
     \/ \E s \in to_client : to_client' = to_client \ {s} /\ UNCHANGED to_peer
  /\ UNCHANGED <<tcp, call, app, tcp_peer>>

\* An instance in which only the application sends.
OneWay == {<<2, 0>>}
TcpInit ==
  /\ tcp = Initialized /\ call = NoTcpCall
  /\ app \in {[mode |-> m, len |-> n, connects |-> 0, waits |-> 0, accepted |-> 0, received |-> <<>>,
                rewound |-> FALSE, closed |-> "no"] :
              m \in {"calls", "steps"}, n \in Streams}
  /\ tcp_peer = [up |-> "listen", got |-> <<>>, fin |-> FALSE]
  /\ to_peer = {} /\ to_client = {}
TcpNext ==
  /\ app.closed = "no" \/ tcp.state # "Closed"
  /\ \/ BeginConnect \/ ProgressSyn \/ TrySend \/ TryReceive \/ BeginClose
     \/ Connect \/ ConnectTransmit \/ ConnectTimeOut
     \/ Send \/ SendTransmit \/ SendTimeOut \/ Receive \/ ReceiveTimeOut
     \/ Close \/ CloseTimeOut \/ CloseAbort
     \/ \E s \in to_client : Progress(s) \/ ConnectTake(s) \/ SendTake(s) \/ ReceiveTake(s) \/ CloseTake(s)
     \/ \E s \in to_peer : PeerTakes(s)
     \/ PeerSends \/ PeerResets \/ Lose
TcpSpec == TcpInit /\ [][TcpNext]_tcp_vars

-------------------------------------------------------------------------------
\* What reaches the application is the peer's stream, in order and without a gap or a
\* repeat, whatever the network did to the segments (ingest_contiguous(),
\* queue_out_of_order(), flush_out_of_order(), drain_pending()); the end of the stream is
\* only reported behind its last byte; and the pending buffer never holds more than its
\* capacity.
ReceivesStream ==
  LET all == app.received \o tcp.pending IN
  /\ tcp.state \in {"Closed", "SynSent", "Established", "FinWait1", "CloseWait", "Reset", "Error"}
  /\ all = Labels(1, Len(all)) /\ Len(tcp.pending) <= Capacity
  /\ tcp.peer_closed => Len(all) = PeerLen

\* What the peer receives is the application's stream: every byte once, in order, however
\* often a call stalls and is made again (send(), bio_send()); what a blocking send()
\* accepted has arrived; and a close() that went by FIN leaves nothing unsent behind and
\* was seen by the peer, unless an earlier send() gave its sequence numbers up: then the
\* late ACK of that send() can pass for the ACK of the FIN.
PeerGetsStreamOnce ==
  /\ tcp_peer.got = Labels(1, Len(tcp_peer.got))
  /\ app.mode = "calls" => app.accepted <= Len(tcp_peer.got)
  /\ app.closed = "graceful" => Len(tcp_peer.got) >= app.accepted /\ (tcp_peer.fin \/ app.rewound)
====
