------------------------------- MODULE Services -------------------------------
(***************************************************************************)
(* The request servers of userspace/system: eventd, notificationd,         *)
(* sessiond, clipboardd, dnsd, audiod, accountd and app-registryd.  They   *)
(* share one loop: accept the connections that wait, look once at every    *)
(* client slot, sleep.  A behaviour runs one of them (service) against     *)
(* client processes that send, read, close and exit as they like, and init *)
(* may start the server anew after a crash.                                *)
(*                                                                         *)
(* A receive, its handler and the send of the answer are one step: the     *)
(* handler touches nothing a client sees, and what a client does between   *)
(* the two calls commutes with one of them.  Channels and waitable events  *)
(* are those of the kernel (IpcChannel, IpcEvent), reduced to what these   *)
(* callers see.  Texts are model values; gains and samples are left out of *)
(* the mixer, which keeps which chunk is played when.                      *)
(***************************************************************************)
EXTENDS Naturals, Sequences, FiniteSets, FiniteSetsExt, SequencesExt, TLC

CONSTANTS
  ServiceKinds,     \* the servers that are looked at
  Callers,          \* bound: the processes that connect to each, in the order they do
  MAX_CLIENTS,      \* client slots of a server
  MAX_RECORDS,      \* its notifications, sessions or subscriptions
  QUEUE_DEPTH,      \* KU_AUDIO_SERVICE_QUEUE_DEPTH and KU_SESSION_MAX_APPLICATIONS
  KernelEvents,     \* MAX_EVENTS
  ChannelMessages,  \* messages a channel holds in one direction
  Manifests,        \* the files of the manifest directory, in its order
  ProfileFiles,     \* what /etc/user.cfg and /etc/locale.cfg hold
  MaxServiceCalls, MaxServiceRestarts   \* bounds: requests to, and restarts of, each server

VARIABLES
  service,          \* the server of this behaviour
  slots,            \* clients
  store,            \* its own tables
  turn,             \* where its loop is
  conns,            \* the channels, by number
  backlog,          \* channels nobody accepted yet
  kevents,          \* kernel events, by number
  gone,             \* processes that exited
  spent_services,   \* requests and restarts so far
  overtaken,        \* history: answers dnsd found for others while a slot waited
  issued_streams    \* history: the streams audiod handed out

services_vars == <<service, slots, store, turn, conns, backlog, kevents, gone, spent_services, overtaken, issued_streams>>

SlotIds == 1..MAX_CLIENTS
ServiceClients == Range(Callers[service])
RecordIds == 1..MAX_RECORDS
NoOne == "none"
Retaining == {"clipboardd", "dnsd"}

\* A client slot; the generation of an audiod slot outlives its clients.  sent
\* and heard are history: the chunks its stream accepted, and the last it played.
BlankSlot(g) ==
  [conn |-> 0, pid |-> NoOne, request |-> <<>>, reply |-> <<>>, stream |-> <<>>, generation |-> g,
   queue |-> <<>>, sent |-> 0, heard |-> 0]

Answer(status) == [status |-> status, id |-> 0, owner |-> NoOne, public |-> FALSE, data |-> ""]

NoRecord == [id |-> 0, owner |-> NoOne, public |-> FALSE, topic |-> "", home |-> NoOne, apps |-> <<>>]

-------------------------------------------------------------------------------
\* app-registryd: read_manifest(), executable_exists(), id_exists().
LoadRegistry ==
  LET Add(entries, m) ==
        IF Len(entries) < MAX_RECORDS /\ m.parses /\ m.executable /\ m.id \notin Range(entries)
        THEN Append(entries, m.id) ELSE entries
  IN  FoldLeft(Add, <<>>, Manifests)

\* accountd: no readable user file is a live system.
LoadProfile(files) ==
  IF ~files.installed THEN [available |-> TRUE, user |-> "developer"]
  ELSE IF files.locale /\ files.user # "" THEN [available |-> TRUE, user |-> files.user]
  ELSE [available |-> FALSE, user |-> ""]

EmptyTable == [records |-> [i \in RecordIds |-> NoRecord], next |-> 1]

\* What _start() of each server sets up before its loop.
FreshStore(k) ==
  CASE k \in {"eventd", "notificationd", "sessiond"} -> {EmptyTable}
    [] k = "clipboardd" -> {[data |-> "", generation |-> 0, owner |-> NoOne]}
    [] k = "dnsd" -> {[cursor |-> 1]}
    [] k = "audiod" -> {[busy |-> FALSE]}
    [] k = "accountd" -> {LoadProfile(f) : f \in ProfileFiles}
    [] k = "app-registryd" -> {[entries |-> LoadRegistry]}

FreeConn ==
  [pid |-> NoOne, client |-> FALSE, server |-> FALSE, up |-> <<>>, down |-> <<>>, taken |-> <<>>, given |-> <<>>]

ServicesInit ==
  /\ service \in ServiceKinds
  /\ slots = [i \in SlotIds |-> BlankSlot(0)]
  /\ store \in FreshStore(service)
  /\ turn = 0
  /\ conns = [c \in DOMAIN Callers[service] |-> FreeConn]
  /\ backlog = <<>>
  /\ kevents = <<>>
  /\ gone = {}
  /\ spent_services = [calls |-> 0, restarts |-> 0]
  /\ overtaken = [i \in SlotIds |-> 0] /\ issued_streams = {}

-------------------------------------------------------------------------------
\* The handlers map a store and a request of a process to the new store and
\* the answer.
Done(st, reply) == [store |-> st, reply |-> reply]
Refuse(st, status) == Done(st, Answer(status))

FreeRecords(st) == {i \in RecordIds : st.records[i].id = 0}
OfRecord(r) == [Answer("ok") EXCEPT !.id = r.id, !.owner = r.owner, !.public = r.public]
Without(st, Drop(_)) == [st EXCEPT !.records = [i \in RecordIds |-> IF Drop(@[i]) THEN NoRecord ELSE @[i]]]

\* clear_record() for every record of the owner, cleanup_subscriber() and
\* release_owned_sessions().
CleanupOwner(st, pid) ==
  IF pid = NoOne THEN st ELSE Without(st, LAMBDA r : r.owner = pid)

ReserveRecord(st, r) == [records |-> [st.records EXCEPT ![Min(FreeRecords(st))] = r], next |-> st.next + 1]

\* notificationd
PostNotification(st, p, r) ==
  LET new == [NoRecord EXCEPT !.id = st.next, !.owner = p, !.public = r.public] IN
  IF FreeRecords(st) = {} THEN Refuse(st, "out_of_memory")
  ELSE Done(ReserveRecord(st, new), OfRecord(new))

FindPublicAfter(st, cursor) ==
  {i \in RecordIds : st.records[i].public /\ st.records[i].id > cursor
     /\ \A j \in RecordIds : st.records[j].public /\ st.records[j].id > cursor => st.records[i].id <= st.records[j].id}

FindRecord(st, p, id) == {i \in RecordIds : id # 0 /\ st.records[i].id = id /\ st.records[i].owner = p}

HandleNotification(st, p, r) ==
  LET found == IF r.op = "list" THEN FindPublicAfter(st, r.id) ELSE FindRecord(st, p, r.id)
      rec == st.records[CHOOSE i \in found : TRUE]
  IN  CASE r.op = "post" -> PostNotification(st, p, r)
        [] r.op # "post" /\ found = {} -> Refuse(st, "not_found")
        [] r.op \in {"list", "get"} /\ found # {} -> Done(st, OfRecord(rec))
        [] r.op = "dismiss" /\ found # {} -> Done(Without(st, LAMBDA x : x = rec), OfRecord(rec))

\* sessiond: one session per owner, and only the owner may touch it.
CreateSession(st, p) ==
  LET new == [NoRecord EXCEPT !.id = st.next, !.owner = p] IN
  IF \E i \in RecordIds : st.records[i].owner = p THEN Refuse(st, "already_exists")
  ELSE IF FreeRecords(st) = {} THEN Refuse(st, "out_of_memory")
  ELSE Done(ReserveRecord(st, new), OfRecord(new))

AttachApplication(s, app) ==
  IF app \in Range(s.apps) THEN <<"already_exists", s>>
  ELSE IF Len(s.apps) >= QUEUE_DEPTH THEN <<"out_of_memory", s>>
  ELSE <<"ok", [s EXCEPT !.apps = Append(@, app)]>>

DetachApplication(s, app) ==
  IF app \notin Range(s.apps) THEN <<"not_found", s>>
  ELSE <<"ok", [s EXCEPT !.apps = RemoveFirst(@, app), !.home = IF @ = app THEN NoOne ELSE @]>>

HandleSession(st, p, r) ==
  LET found == {i \in RecordIds : r.id # 0 /\ st.records[i].id = r.id}
      i == CHOOSE j \in found : TRUE
      s == st.records[i]
      changed == CASE r.op = "query" -> <<"ok", s>>
                   [] r.op = "set_home" -> <<"ok", [s EXCEPT !.home = r.app]>>
                   [] r.op = "attach" -> AttachApplication(s, r.app)
                   [] r.op = "detach" -> DetachApplication(s, r.app)
                   [] r.op = "terminate" -> <<"ok", NoRecord>>
  IN  IF r.op = "create" THEN CreateSession(st, p)
      ELSE IF found = {} THEN Refuse(st, "not_found")
      ELSE IF s.owner # p THEN Refuse(st, "access_denied")
      ELSE IF changed[1] # "ok" THEN Refuse(st, changed[1])
      ELSE Done([st EXCEPT !.records[i] = changed[2]], OfRecord(s))

\* clipboardd: the answer always shows the clipboard as it is after the
\* request.
HandleClipboard(st, p, r) ==
  LET next == [st EXCEPT !.generation = @ + 1]
      After(status, s) ==
        Done(s, [Answer(status) EXCEPT !.id = s.generation, !.owner = s.owner, !.data = s.data])
  IN  CASE r.op = "set" -> After("ok", [next EXCEPT !.data = r.data, !.owner = p])
        [] r.op = "clear" /\ r.id \in {0, st.generation} -> After("ok", [next EXCEPT !.data = "", !.owner = NoOne])
        [] r.op = "clear" /\ r.id \notin {0, st.generation} -> After("already_exists", st)
        [] r.op = "get" -> After(IF st.data = "" THEN "not_found" ELSE "ok", st)

\* accountd and app-registryd only look things up.
HandleAccount(st, p, r) ==
  Refuse(st, IF ~st.available THEN "corrupt_data"
             ELSE IF r.op = "lookup" /\ r.user # st.user THEN "not_found" ELSE "ok")

HandleApplication(st, p, r) ==
  LET n == Len(st.entries)
      found == {i \in 1..n : st.entries[i] = r.app}
  IN  CASE r.op = "count" -> Done(st, [Answer("ok") EXCEPT !.id = n])
        [] r.op = "by_index" /\ r.id < n -> Done(st, [Answer("ok") EXCEPT !.id = r.id, !.data = st.entries[r.id + 1]])
        [] r.op = "by_index" /\ r.id >= n -> Refuse(st, "not_found")
        [] r.op = "lookup" /\ found # {} -> Done(st, [Answer("ok") EXCEPT !.id = Min(found) - 1, !.data = r.app])
        [] r.op = "lookup" /\ found = {} -> Refuse(st, "not_found")

\* eventd.  A kernel event lives while eventd or a process it was granted to
\* holds it; a subscription keeps the event's number as its id.
LiveEvents(ev) == {e \in DOMAIN ev : ev[e].owner \/ ev[e].grants # {}}

FindSubscription(st, p, topic) ==
  {i \in RecordIds : st.records[i].id # 0 /\ st.records[i].owner = p /\ st.records[i].topic = topic}

CloseEvents(ev, ids) == [e \in DOMAIN ev |-> IF e \in ids THEN [ev[e] EXCEPT !.owner = FALSE] ELSE ev[e]]

Subscribe(st, ev, p, topic) ==
  LET found == FindSubscription(st, p, topic)
      e == Len(ev) + 1
      new == [NoRecord EXCEPT !.id = e, !.owner = p, !.topic = topic]
  IN  IF found # {} THEN [Refuse(st, "already_exists") EXCEPT !.reply.id = st.records[Min(found)].id] @@ [events |-> ev]
      ELSE IF FreeRecords(st) = {} \/ Cardinality(LiveEvents(ev)) >= KernelEvents
      THEN Refuse(st, "out_of_memory") @@ [events |-> ev]
      ELSE Done(ReserveRecord(st, new), OfRecord(new))
             @@ [events |-> Append(ev, [owner |-> TRUE, grants |-> {p}, signaled |-> FALSE])]

Unsubscribe(st, ev, p, topic) ==
  LET found == FindSubscription(st, p, topic) IN
  IF found = {} THEN Refuse(st, "not_found") @@ [events |-> ev]
  ELSE Done([st EXCEPT !.records[Min(found)] = NoRecord], Answer("ok"))
         @@ [events |-> CloseEvents(ev, {st.records[i].id : i \in found})]

Publish(st, ev, topic) ==
  LET hit == {st.records[i].id : i \in {j \in RecordIds : st.records[j].id # 0 /\ st.records[j].topic = topic}} IN
  Done(st, [Answer("ok") EXCEPT !.id = Cardinality(hit)])
    @@ [events |-> [e \in DOMAIN ev |-> IF e \in hit THEN [ev[e] EXCEPT !.signaled = TRUE] ELSE ev[e]]]

HandleEvent(st, ev, p, r) ==
  CASE r.op = "subscribe" -> Subscribe(st, ev, p, r.topic)
    [] r.op = "unsubscribe" -> Unsubscribe(st, ev, p, r.topic)
    [] r.op = "publish" -> Publish(st, ev, r.topic)

\* audiod: a stream is its slot and the slot's generation.
OpenStream(s, i) ==
  IF s.stream # <<>> THEN <<s, "already_exists">>
  ELSE <<[s EXCEPT !.generation = @ + 1, !.stream = <<i, s.generation + 1>>, !.queue = <<>>,
                   !.sent = 0, !.heard = 0], "ok">>

SubmitChunk(s) ==
  IF Len(s.queue) >= QUEUE_DEPTH THEN <<s, "would_block">>
  ELSE <<[s EXCEPT !.queue = Append(@, s.sent + 1), !.sent = @ + 1], "ok">>

CloseStream(s) == <<[s EXCEPT !.stream = <<>>, !.queue = <<>>, !.sent = 0, !.heard = 0], "ok">>

HandleAudio(s, i, r) ==
  LET matches == s.stream # <<>> /\ s.stream = r.stream IN
  CASE r.op = "open" -> OpenStream(s, i)
    [] r.op = "query" -> <<s, "ok">>
    [] r.op \in {"submit", "close"} /\ ~matches -> <<s, "invalid_argument">>
    [] r.op = "submit" /\ matches -> SubmitChunk(s)
    [] r.op = "close" /\ matches -> CloseStream(s)

-------------------------------------------------------------------------------
\* The loop of a server.  Its turns: 0 accepts, 1..MAX_CLIENTS look at the
\* slots, then dnsd resolves one request and sends what is ready, and audiod
\* feeds the card.
LastTurn ==
  CASE service = "dnsd" -> MAX_CLIENTS + 1 + MAX_CLIENTS
    [] service = "audiod" -> MAX_CLIENTS + 1
    [] OTHER -> MAX_CLIENTS

NextTurn == IF turn = LastTurn THEN 0 ELSE turn + 1

\* A side that closes takes with it what the other sent and it will not read.
CloseServer(k) == [k EXCEPT !.server = FALSE, !.up = <<>>, !.taken = <<>>, !.given = <<>>]
ServerClosed(c) == [conns EXCEPT ![c] = CloseServer(@)]

\* accept_clients() stops when nobody waits, or at the first connection it has
\* no slot for.
AcceptClients ==
  /\ turn = 0
  /\ LET free == {i \in SlotIds : slots[i].conn = 0} IN
     IF backlog = <<>> THEN turn' = 1 /\ UNCHANGED <<slots, conns, backlog>>
     ELSE /\ backlog' = Tail(backlog)
          /\ IF free = {} THEN turn' = 1 /\ conns' = ServerClosed(Head(backlog)) /\ UNCHANGED slots
             ELSE /\ slots' = [slots EXCEPT ![Min(free)] = [BlankSlot(@.generation) EXCEPT !.conn = Head(backlog)]]
                  /\ UNCHANGED <<turn, conns>>
  /\ UNCHANGED <<service, store, kevents, gone, spent_services, overtaken, issued_streams>>

\* What send() does with the answer of a slot: a full channel or a client that
\* closed loses it, except where the server keeps it.  FlushResponse_once is a
\* mutant that forgets the answer a full channel did not take.
Pushed(cs, c, reply) ==
  [cs EXCEPT ![c].down = Append(@, reply), ![c].given = IF service \in Retaining THEN Append(@, reply) ELSE @]

FlushResponse_once(s, cs) ==
  LET c == s.conn IN
  IF ~cs[c].client THEN [slot |-> BlankSlot(s.generation), conns |-> [cs EXCEPT ![c] = CloseServer(@)]]
  ELSE IF Len(cs[c].down) = ChannelMessages THEN [slot |-> [s EXCEPT !.reply = <<>>], conns |-> cs]
  ELSE [slot |-> [s EXCEPT !.reply = <<>>], conns |-> Pushed(cs, c, s.reply[1])]
FlushResponse(s, cs) ==
  LET c == s.conn IN
  IF ~cs[c].client THEN [slot |-> BlankSlot(s.generation), conns |-> [cs EXCEPT ![c] = CloseServer(@)]]
  ELSE IF Len(cs[c].down) = ChannelMessages THEN [slot |-> s, conns |-> cs]
  ELSE [slot |-> [s EXCEPT !.reply = <<>>], conns |-> Pushed(cs, c, s.reply[1])]

SendResponse(cs, c, reply) ==
  IF cs[c].client /\ Len(cs[c].down) < ChannelMessages THEN Pushed(cs, c, reply) ELSE cs

\* A slot with nothing to do; dnsd does not read while it owes an answer.
SkipSlot(i) ==
  /\ turn = i /\ turn' = NextTurn
  /\ LET s == slots[i] IN
     \/ s.conn = 0
     \/ s.conn # 0 /\ service = "dnsd" /\ (s.request # <<>> \/ s.reply # <<>>)
     \/ s.conn # 0 /\ s.request = <<>> /\ s.reply = <<>> /\ conns[s.conn].up = <<>> /\ conns[s.conn].client
  /\ UNCHANGED <<service, slots, store, conns, backlog, kevents, gone, spent_services, overtaken, issued_streams>>

\* receive() fails: the client closed and everything it sent is read.
Disconnect(i) ==
  /\ turn = i /\ turn' = NextTurn
  /\ LET s == slots[i] IN
     /\ s.conn # 0 /\ s.request = <<>> /\ s.reply = <<>>
     /\ conns[s.conn].up = <<>> /\ ~conns[s.conn].client
     /\ conns' = ServerClosed(s.conn)
     /\ slots' = [slots EXCEPT ![i] = BlankSlot(s.generation)]
     /\ IF service \in {"eventd", "notificationd", "sessiond"}
        THEN /\ store' = CleanupOwner(store, s.pid)
             /\ kevents' = IF service # "eventd" THEN kevents
                ELSE CloseEvents(kevents, {store.records[j].id : j \in {k \in RecordIds : store.records[k].owner = s.pid}} \ {0})
        ELSE UNCHANGED <<store, kevents>>
  /\ UNCHANGED <<service, backlog, gone, spent_services, overtaken, issued_streams>>

\* clipboardd sends the answer it still owes before it reads again.
RetryResponse(i) ==
  /\ service = "clipboardd" /\ turn = i /\ turn' = NextTurn
  /\ slots[i].conn # 0 /\ slots[i].reply # <<>>
  /\ LET f == FlushResponse(slots[i], conns) IN
     slots' = [slots EXCEPT ![i] = f.slot] /\ conns' = f.conns
  /\ UNCHANGED <<service, store, backlog, kevents, gone, spent_services, overtaken, issued_streams>>

\* handle_request(), after receive() returned a request of process p.  A
\* malformed one is answered before the slot is bound to its process, and a
\* slot that is bound serves no other process.
HandleRequest(i, p, r) ==
  LET s == slots[i]
      bound == [s EXCEPT !.pid = IF @ = NoOne THEN p ELSE @]
      refused == [slot |-> s, store |-> store, events |-> kevents,
                  reply |-> Answer(IF r.op = "bad" THEN "corrupt_data" ELSE "access_denied")]
      Plain(h) == [slot |-> bound, store |-> h.store, events |-> kevents, reply |-> h.reply]
      audio == HandleAudio(bound, i, r)
      event == HandleEvent(store, kevents, p, r)
  IN  CASE r.op = "bad" \/ s.pid \notin {NoOne, p} -> refused
        [] service = "eventd" -> [slot |-> bound, store |-> event.store, events |-> event.events, reply |-> event.reply]
        [] service = "notificationd" -> Plain(HandleNotification(store, p, r))
        [] service = "sessiond" -> Plain(HandleSession(store, p, r))
        [] service = "clipboardd" -> Plain(HandleClipboard(store, p, r))
        [] service = "accountd" -> Plain(HandleAccount(store, p, r))
        [] service = "app-registryd" -> Plain(HandleApplication(store, p, r))
        [] service = "audiod" -> [slot |-> audio[1], store |-> store, events |-> kevents, reply |-> Answer(audio[2])]

\* service_clients() for one slot with a request to read.
Serve(i) ==
  /\ service # "dnsd" /\ turn = i /\ turn' = NextTurn
  /\ slots[i].conn # 0 /\ slots[i].reply = <<>> /\ conns[slots[i].conn].up # <<>>
  /\ LET c == slots[i].conn
         r == Head(conns[c].up)
         h == HandleRequest(i, conns[c].pid, r)
         read == [conns EXCEPT ![c].up = Tail(@),
                               ![c].taken = IF service = "clipboardd" THEN Append(@, r) ELSE @]
         kept == FlushResponse([h.slot EXCEPT !.reply = <<h.reply>>], read)
     IN  /\ store' = h.store /\ kevents' = h.events
         /\ IF service = "clipboardd"
            THEN slots' = [slots EXCEPT ![i] = kept.slot] /\ conns' = kept.conns
            ELSE slots' = [slots EXCEPT ![i] = h.slot] /\ conns' = SendResponse(read, c, h.reply)
         /\ issued_streams' = issued_streams \cup {h.slot.stream}
  /\ UNCHANGED <<service, backlog, gone, spent_services, overtaken>>

\* dnsd: receive_requests() keeps the request, or the answer to a bad one.
ReceiveRequest(i) ==
  /\ service = "dnsd" /\ turn = i /\ turn' = NextTurn
  /\ slots[i].conn # 0 /\ slots[i].request = <<>> /\ slots[i].reply = <<>> /\ conns[slots[i].conn].up # <<>>
  /\ LET c == slots[i].conn
         r == Head(conns[c].up)
     IN  /\ conns' = [conns EXCEPT ![c].up = Tail(@), ![c].taken = Append(@, r)]
         /\ slots' = [slots EXCEPT ![i].pid = conns[c].pid,
                                   ![i].request = IF r.op = "bad" THEN @ ELSE <<r>>,
                                   ![i].reply = IF r.op = "bad" THEN <<Answer("corrupt_data")>> ELSE @]
         /\ overtaken' = [overtaken EXCEPT ![i] = 0]
  /\ UNCHANGED <<service, store, backlog, kevents, gone, spent_services, issued_streams>>

\* The first waiting slot from the cursor on.
ResolveFrom(waiting, cursor) ==
  IF \E i \in waiting : i >= cursor THEN Min({i \in waiting : i >= cursor}) ELSE Min(waiting)

ResolveOne ==
  /\ service = "dnsd" /\ turn = MAX_CLIENTS + 1 /\ turn' = NextTurn
  /\ LET waiting == {i \in SlotIds : slots[i].conn # 0 /\ slots[i].request # <<>> /\ slots[i].reply = <<>>}
         i == ResolveFrom(waiting, store.cursor)
         r == slots[i].request[1]
     IN  IF waiting = {} THEN UNCHANGED <<slots, store, overtaken>>
         ELSE /\ \E status \in {"ok", "not_found"} :
                   slots' = [slots EXCEPT ![i].request = <<>>,
                     ![i].reply = <<[Answer(status) EXCEPT !.id = r.id, !.data = IF status = "ok" THEN r.host ELSE ""]>>]
              /\ store' = [cursor |-> (i % MAX_CLIENTS) + 1]
              /\ overtaken' = [j \in SlotIds |-> IF j \in waiting \ {i} THEN overtaken[j] + 1 ELSE 0]
  /\ UNCHANGED <<service, conns, backlog, kevents, gone, spent_services, issued_streams>>

\* flush_responses(), one slot.
FlushSlot ==
  /\ service = "dnsd" /\ turn > MAX_CLIENTS + 1 /\ turn' = NextTurn
  /\ LET i == turn - MAX_CLIENTS - 1
         f == FlushResponse(slots[i], conns)
     IN  IF slots[i].conn = 0 \/ slots[i].reply = <<>> THEN UNCHANGED <<slots, conns>>
         ELSE slots' = [slots EXCEPT ![i] = f.slot] /\ conns' = f.conns
  /\ UNCHANGED <<service, store, backlog, kevents, gone, spent_services, overtaken, issued_streams>>

\* audiod: pump_audio(). The card still plays, or is free (after an error it is stopped):
\* then the first chunk of every stream goes into one mix, and the chunks are dropped
\* once the card took it.
Consumed(s, taken) ==
  IF s.conn = 0 \/ s.stream = <<>> \/ s.queue = <<>> \/ ~taken THEN s
  ELSE [s EXCEPT !.queue = Tail(@), !.heard = Head(s.queue)]

PumpAudio ==
  /\ service = "audiod" /\ turn = MAX_CLIENTS + 1 /\ turn' = NextTurn
  /\ \/ store.busy /\ UNCHANGED <<store, slots>>
     \/ \E taken \in BOOLEAN :
          /\ taken => \E i \in SlotIds : slots[i].queue # <<>>
          /\ slots' = [i \in SlotIds |-> Consumed(slots[i], taken)]
          /\ store' = [busy |-> taken]
  /\ UNCHANGED <<service, conns, backlog, kevents, gone, spent_services, overtaken, issued_streams>>

\* The server crashes and init starts it again: the kernel closes its sides and
\* its events, and its tables start empty.
RestartServer ==
  /\ spent_services.restarts < MaxServiceRestarts[service]
  /\ spent_services' = [spent_services EXCEPT !.restarts = @ + 1]
  /\ slots' = [i \in SlotIds |-> BlankSlot(0)] /\ turn' = 0
  /\ store' \in FreshStore(service)
  /\ conns' = [c \in DOMAIN conns |-> CloseServer(conns[c])]
  /\ backlog' = <<>>
  /\ kevents' = CloseEvents(kevents, DOMAIN kevents)
  /\ overtaken' = [i \in SlotIds |-> 0] /\ issued_streams' = {}
  /\ UNCHANGED <<service, gone>>

-------------------------------------------------------------------------------
\* The requests a client may make of each server.
Requests ==
  LET Ops(ops) == [op : ops, id : {0}] IN
  {[op |-> "bad"]} \cup
  CASE service = "eventd" -> [op : {"subscribe", "unsubscribe", "publish"}, topic : {"t"}]
    [] service = "notificationd" -> [op : {"post"}, public : BOOLEAN] \cup [op : {"get", "dismiss"}, id : {1, 2}] \cup Ops({"list"})
    [] service = "sessiond" -> Ops({"create"}) \cup [op : {"query", "set_home", "attach", "detach", "terminate"}, id : {1, 2}, app : {"app"}]
    [] service = "clipboardd" -> [op : {"set"}, data : {"x", "y"}] \cup [op : {"clear"}, id : 0..1] \cup Ops({"get"})
    [] service = "dnsd" -> [op : {"resolve"}, id : {1, 2}, host : {"h"}]
    [] service = "audiod" -> Ops({"open", "query"}) \cup [op : {"submit", "close"}, stream : SlotIds \X {1, 2}]
    [] service = "accountd" -> Ops({"current"}) \cup [op : {"lookup"}, user : {"developer", "user"}]
    [] service = "app-registryd" -> Ops({"count"}) \cup [op : {"by_index"}, id : 0..1] \cup [op : {"lookup"}, app : {"a", "b"}]

server_side == <<service, slots, store, turn, overtaken, issued_streams>>

ConnectService(p) ==
  /\ \E c \in DOMAIN conns :
       /\ Callers[service][c] = p /\ conns[c].pid = NoOne
       /\ \A d \in 1..(c - 1) : conns[d].pid # NoOne \/ Callers[service][d] \in gone
       /\ conns' = [conns EXCEPT ![c] = [FreeConn EXCEPT !.pid = p, !.client = TRUE, !.server = TRUE]]
       /\ backlog' = Append(backlog, c)
  /\ UNCHANGED <<server_side, kevents, gone, spent_services>>

CallService(c, r) ==
  /\ conns[c].client /\ conns[c].server /\ Len(conns[c].up) < ChannelMessages
  /\ spent_services.calls < MaxServiceCalls[service]
  /\ spent_services' = [spent_services EXCEPT !.calls = @ + 1]
  /\ conns' = [conns EXCEPT ![c].up = Append(@, r)]
  /\ UNCHANGED <<server_side, backlog, kevents, gone>>

ReadAnswer(c) ==
  /\ conns[c].client /\ conns[c].down # <<>>
  /\ conns' = [conns EXCEPT ![c].down = Tail(@)]
  /\ UNCHANGED <<server_side, backlog, kevents, gone, spent_services>>

\* A connection nobody accepted disappears with its client.
CloseConns(cs) ==
  /\ conns' = [c \in DOMAIN conns |->
       IF c \notin cs THEN conns[c]
       ELSE IF c \in Range(backlog) THEN CloseServer([conns[c] EXCEPT !.client = FALSE])
       ELSE [conns[c] EXCEPT !.client = FALSE, !.down = <<>>]]
  /\ backlog' = SelectSeq(backlog, LAMBDA c : c \notin cs)

CloseService(c) ==
  /\ conns[c].client /\ CloseConns({c})
  /\ UNCHANGED <<server_side, kevents, gone, spent_services>>

ExitClient(p) ==
  /\ gone' = gone \cup {p}
  /\ CloseConns({c \in DOMAIN conns : conns[c].pid = p})
  /\ kevents' = [e \in DOMAIN kevents |-> [kevents[e] EXCEPT !.grants = @ \ {p}]]
  /\ UNCHANGED <<server_side, spent_services>>

\* event_poll() of a granted event, and event_close().
UseEvent(p, e, close) ==
  /\ p \in kevents[e].grants /\ (close \/ kevents[e].signaled)
  /\ kevents' = [kevents EXCEPT ![e] = IF close THEN [@ EXCEPT !.grants = @ \ {p}] ELSE [@ EXCEPT !.signaled = FALSE]]
  /\ UNCHANGED <<server_side, conns, backlog, gone, spent_services>>

ServerStep ==
  \/ AcceptClients
  \/ \E i \in SlotIds : SkipSlot(i) \/ Disconnect(i) \/ RetryResponse(i) \/ Serve(i) \/ ReceiveRequest(i)
  \/ ResolveOne
  \/ FlushSlot
  \/ PumpAudio

ClientStep ==
  \/ \E p \in ServiceClients \ gone : ConnectService(p) \/ ExitClient(p)
  \/ \E c \in DOMAIN conns, r \in Requests : CallService(c, r)
  \/ \E c \in DOMAIN conns : ReadAnswer(c) \/ CloseService(c)
  \/ \E p \in ServiceClients \ gone, e \in DOMAIN kevents, close \in BOOLEAN : UseEvent(p, e, close)

ServicesNext == ServerStep \/ ClientStep \/ RestartServer

ServicesSpec == ServicesInit /\ [][ServicesNext]_services_vars

-------------------------------------------------------------------------------
Active(i) == slots[i].conn # 0

\* The slots, channels and counters have the declared shapes.
ServicesTypeOK ==
  /\ service \in ServiceKinds /\ turn \in 0..LastTurn /\ gone \subseteq ServiceClients
  /\ \A i \in SlotIds : slots[i].conn \in 0..Len(Callers[service]) /\ slots[i].pid \in ServiceClients \cup {NoOne}
  /\ \A c \in DOMAIN conns : Len(conns[c].up) <= ChannelMessages /\ Len(conns[c].down) <= ChannelMessages
  /\ \A c \in Range(backlog) : conns[c].client /\ conns[c].server
  /\ \A i, j \in SlotIds : Active(i) /\ slots[i].conn = slots[j].conn => i = j

\* What eventd, notificationd and sessiond keep for a process lasts no longer
\* than its connections: whoever owns a record has a slot, so the records of a
\* process that closes or exits, with any number of connections and requests
\* still unread, are gone when the server has seen it.  Numbers are never given
\* twice, a process has one session with no application listed twice, and one
\* subscription per topic.  No answer shows a process the notification or the
\* session of another that is not public.
RecordsOwned ==
  service \in {"eventd", "notificationd", "sessiond"} =>
    /\ ServicesTypeOK
    /\ \A i \in RecordIds : LET r == store.records[i] IN r.id # 0 =>
         /\ \E s \in SlotIds : Active(s) /\ slots[s].pid = r.owner
         /\ r.id < store.next \/ service = "eventd"
         /\ IsInjective(r.apps) /\ Len(r.apps) <= QUEUE_DEPTH
         /\ \A j \in RecordIds \ {i} :
              /\ store.records[j].id # r.id
              /\ store.records[j].owner = r.owner => service = "notificationd" \/ (service = "eventd" /\ store.records[j].topic # r.topic)
    /\ \A c \in DOMAIN conns : \A k \in DOMAIN conns[c].down :
         LET a == conns[c].down[k] IN a.owner = NoOne \/ a.public \/ a.owner = conns[c].pid

\* eventd and the kernel agree on the events: each subscription holds an event
\* of its own that eventd keeps open, and eventd keeps no other event open, so
\* neither unsubscribing nor a lost client leaks one.
EventsReferenced ==
  service = "eventd" =>
    {e \in DOMAIN kevents : kevents[e].owner} = {store.records[i].id : i \in RecordIds} \ {0}

\* clipboardd and dnsd keep an answer until the channel takes it: on every
\* connection they serve, each request they read is answered once and in its
\* turn, or is the one still owed; the answer of dnsd is for that request, and
\* a clipboard answer shows the request's own outcome, even if others change
\* the clipboard before it is sent.  Resolving goes round: while a request
\* waits, every other client is served at most once.
AnswersKept ==
  service \in Retaining =>
    /\ \A i \in SlotIds : Active(i) =>
         LET k == conns[slots[i].conn]
             all == k.given \o slots[i].reply
         IN  /\ Len(k.taken) = Len(all) + Len(slots[i].request)
             /\ Len(slots[i].reply) + Len(slots[i].request) <= 1
             /\ \A n \in DOMAIN all : LET r == k.taken[n] IN
                  CASE r.op = "bad" -> all[n].status = "corrupt_data"
                    [] r.op = "resolve" -> all[n].id = r.id /\ all[n].data \in {"", r.host}
                    [] r.op = "set" -> all[n].data = r.data /\ all[n].owner = k.pid
                    [] r.op = "clear" -> all[n].status = "ok" => all[n].data = ""
                    [] r.op = "get" -> (all[n].status = "ok") = (all[n].data # "")
    /\ \A i \in SlotIds : overtaken[i] < MAX_CLIENTS

\* audiod plays what a stream accepted once and in order: what is queued is
\* all that was accepted after the last chunk heard, whatever the card refuses
\* and whoever connects, closes or exits.  A slot's next client never gets a
\* stream handed out before.
StreamsPlayed ==
  service = "audiod" =>
    \A i \in SlotIds :
      /\ slots[i].queue = [n \in 1..(slots[i].sent - slots[i].heard) |-> slots[i].heard + n]
      /\ Len(slots[i].queue) <= QUEUE_DEPTH
      /\ slots[i].queue # <<>> => slots[i].stream # <<>>
      /\ \A h \in issued_streams : h # <<>> /\ h[1] = i => h[2] <= slots[i].generation

\* app-registryd lists every application that has a sound manifest, as far as
\* its table goes, once and only if its program exists; accountd never shows a
\* profile that did not parse.
CatalogSound ==
  /\ service = "app-registryd" =>
       LET sound == {Manifests[k].id : k \in {n \in DOMAIN Manifests : Manifests[n].parses /\ Manifests[n].executable}} IN
       /\ IsInjective(store.entries) /\ Range(store.entries) \subseteq sound
       /\ Len(store.entries) < MAX_RECORDS => Range(store.entries) = sound
  /\ service = "accountd" => (store.available <=> \E f \in ProfileFiles : LoadProfile(f) = store /\ (f.installed => f.locale /\ f.user # ""))

\* What the servers promise the processes that use them, however their requests,
\* closes and exits interleave: records go with their owners, answers and sound
\* arrive once and in order, and a list shows what is there.
ServicesExact == RecordsOwned /\ EventsReferenced /\ AnswersKept /\ StreamsPlayed /\ CatalogSound

-------------------------------------------------------------------------------
(***************************************************************************)
(* The settings server (src/userspace/system/settingsd/main.c): a table in *)
(* memory that every SET and DELETE writes to /settings.tmp and then moves *)
(* over /settings.db, and reads back when init starts the server again.    *)
(* Every file system call is a step, may fail, and the server may be       *)
(* killed, or the machine stop, between any two of them.  A file is absent,*)
(* torn, or holds the image of a table; what a call did stays done (the    *)
(* caches below are the matter of the disk and file system modules).       *)
(* Requests come one at a time: the server reads the next when it has      *)
(* answered, and its accept and receive loop is that of Services.          *)
(***************************************************************************)

CONSTANTS
  SettingKeys, SettingValues,
  SETTINGSD_MAX_RECORDS,
  MaxSettingCalls, MaxFsFaults, MaxSettingCrashes   \* bounds

VARIABLES
  records,          \* the table in memory: a function on the keys it holds
  previous,         \* the table a failing request goes back to
  db, tmp,          \* /settings.db and /settings.tmp
  stage,            \* what persist_records() or the server does next
  change_broker,    \* whether change_broker_connection is open
  announced,        \* history: the table when settings.changed was last published
  agreed,           \* history: the table clients were last told of
  spent_settings

settings_vars == <<records, previous, db, tmp, stage, change_broker, announced, agreed, spent_settings>>

Absent == [kind |-> "absent"]
Torn == [kind |-> "torn"]
Image(t) == [kind |-> "image", table |-> t]
Empty == [k \in {} |-> ""]

SettingsInit ==
  /\ records = Empty /\ previous = Empty /\ agreed = Empty /\ announced = Empty
  /\ db = Absent /\ tmp = Absent
  /\ stage = "serving" /\ change_broker = FALSE
  /\ spent_settings = [calls |-> 0, faults |-> 0, crashes |-> 0]

-------------------------------------------------------------------------------
\* set_record() and delete_record() change the table first.
Request(table) ==
  /\ stage = "serving" /\ spent_settings.calls < MaxSettingCalls
  /\ spent_settings' = [spent_settings EXCEPT !.calls = @ + 1]
  /\ previous' = records /\ records' = table
  /\ stage' = "unlink tmp"
  /\ UNCHANGED <<db, tmp, change_broker, announced, agreed>>

SetRecord(k, v) ==
  /\ k \in DOMAIN records \/ Cardinality(DOMAIN records) < SETTINGSD_MAX_RECORDS
  /\ Request((k :> v) @@ records)

DeleteRecord(k) ==
  /\ k \in DOMAIN records
  /\ Request([j \in DOMAIN records \ {k} |-> records[j]])

\* One call of persist_records(): what it leaves in the files and what comes
\* next, if it succeeds and if it fails.  rename() does not replace a file.
\* Persisted_in_place is a mutant that writes /settings.db itself.
Persisted_in_place(s) ==
  CASE s = "unlink tmp" -> [db |-> db, tmp |-> tmp, next |-> "write"]
    [] s = "write" -> [db |-> Torn, tmp |-> tmp, next |-> "close"]
    [] s = "close" -> [db |-> Image(records), tmp |-> tmp, next |-> "final sync"]
    [] OTHER -> [db |-> db, tmp |-> tmp, next |-> "publish"]
Persisted(s) ==
  CASE s = "unlink tmp" -> [db |-> db, tmp |-> Absent, next |-> "create"]
    [] s = "create" -> [db |-> db, tmp |-> Torn, next |-> "write"]
    [] s = "write" -> [db |-> db, tmp |-> Torn, next |-> "close"]
    [] s = "close" -> [db |-> db, tmp |-> Image(records), next |-> "sync"]
    [] s = "sync" -> [db |-> db, tmp |-> tmp, next |-> "rename"]
    [] s = "rename" /\ db = Absent -> [db |-> tmp, tmp |-> Absent, next |-> "final sync"]
    [] s = "rename" /\ db # Absent -> [db |-> db, tmp |-> tmp, next |-> "unlink db"]
    [] s = "unlink db" -> [db |-> Absent, tmp |-> tmp, next |-> "rename again"]
    [] s = "rename again" -> [db |-> tmp, tmp |-> Absent, next |-> "final sync"]
    [] s = "final sync" -> [db |-> db, tmp |-> tmp, next |-> "publish"]

PersistStages == {"unlink tmp", "create", "write", "close", "sync", "rename", "unlink db", "rename again", "final sync"}

PersistStep ==
  /\ stage \in PersistStages
  /\ db' = Persisted(stage).db /\ tmp' = Persisted(stage).tmp /\ stage' = Persisted(stage).next
  /\ UNCHANGED <<records, previous, change_broker, announced, agreed, spent_settings>>

\* A call fails: most failures remove the temporary file (if that works), and
\* the request puts the table back.
RolledBack == previous

PersistFails ==
  /\ stage \in PersistStages /\ spent_settings.faults < MaxFsFaults
  /\ spent_settings' = [spent_settings EXCEPT !.faults = @ + 1]
  /\ tmp' \in IF stage \in {"unlink tmp", "create", "sync", "final sync"} THEN {tmp} ELSE {tmp, Absent}
  /\ records' = RolledBack
  /\ stage' = "serving"
  /\ UNCHANGED <<previous, db, change_broker, announced, agreed>>

\* publish_change_event(): a broker that does not answer costs the connection,
\* never the request.
PublishChange ==
  /\ stage = "publish"
  /\ \E ok \in BOOLEAN : change_broker' = ok /\ announced' = IF ok THEN records ELSE announced
  /\ stage' = "answer"
  /\ UNCHANGED <<records, previous, db, tmp, agreed, spent_settings>>

SendOk ==
  /\ stage = "answer"
  /\ agreed' = records /\ stage' = "serving"
  /\ UNCHANGED <<records, previous, db, tmp, change_broker, announced, spent_settings>>

\* The server is killed, or the machine stops.
CrashServer ==
  /\ stage # "dead" /\ spent_settings.crashes < MaxSettingCrashes
  /\ spent_settings' = [spent_settings EXCEPT !.crashes = @ + 1]
  /\ stage' = "dead"
  /\ UNCHANGED <<records, previous, db, tmp, change_broker, announced, agreed>>

\* _start(): load_records() refuses a torn database, and the server ends.
LoadRecords ==
  /\ stage = "dead"
  /\ db # Torn
  /\ records' = IF db = Absent THEN Empty ELSE db.table
  /\ agreed' = records' /\ stage' = "serving" /\ change_broker' = FALSE
  /\ UNCHANGED <<previous, db, tmp, announced, spent_settings>>

SettingsNext ==
  \/ \E k \in SettingKeys, v \in SettingValues : SetRecord(k, v)
  \/ \E k \in SettingKeys : DeleteRecord(k)
  \/ PersistStep
  \/ PersistFails
  \/ PublishChange
  \/ SendOk
  \/ CrashServer
  \/ LoadRecords

SettingsSpec == SettingsInit /\ [][SettingsNext]_settings_vars

-------------------------------------------------------------------------------
\* The declared shapes.
SettingsTypeOK ==
  /\ DOMAIN records \subseteq SettingKeys /\ Cardinality(DOMAIN records) <= SETTINGSD_MAX_RECORDS
  /\ {db.kind, tmp.kind} \subseteq {"absent", "torn", "image"}
  /\ stage \in PersistStages \cup {"serving", "publish", "answer", "dead"}

\* Wherever a call fails or the server dies, /settings.db is absent or whole, so
\* the server starts again; a request that is answered OK is in the file, and
\* subscribers hear of a change only when it is; one that fails leaves the table
\* clients know.  As long as no call failed, a complete table, old or new, is in
\* one of the two files at every moment of the replacement (though only
\* /settings.db is read back).
StoreHonest ==
  /\ SettingsTypeOK
  /\ db # Torn
  /\ stage \in {"publish", "answer"} => db = Image(records)
  /\ stage = "serving" => records = agreed
  /\ stage = "answer" /\ change_broker => announced = records
  /\ spent_settings.faults = 0 /\ agreed # Empty /\ (spent_settings.crashes = 0 \/ stage = "dead") =>
       {db, tmp} \cap {Image(previous), Image(records)} # {}
===============================================================================
