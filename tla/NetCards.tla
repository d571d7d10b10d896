------------------------------ MODULE NetCards ------------------------------
(***************************************************************************)
(* The three network card drivers: VirtIO (src/kernel/net/virtio_net.cpp), *)
(* Intel E1000 (e1000.cpp) and AMD PCnet (pcnet.cpp).  A machine has one   *)
(* of the cards.  Each driver shares rings of buffers with its card: the   *)
(* VirtIO queues return buffers in any order through a used list, the      *)
(* E1000 works between a head and a tail register, PCnet passes an         *)
(* ownership bit.                                                          *)
(***************************************************************************)
EXTENDS Integers, Sequences, SequencesExt, FiniteSets

CONSTANTS
  Cards,             \* a subset of {"virtio", "e1000", "pcnet"}
  DESCRIPTOR_COUNT,  \* buffers of a ring
  MaxCardFrames,     \* bound: frames each way
  MaxStarts          \* bound: calls of initialize()

VARIABLES
  hw,                \* the card of this machine
  nic,               \* the driver: what initialize() left, and the DMA pages
  tx, rx_ring,            \* the rings: contents and owner of each buffer, cursor, used list
  chip,              \* the card: whether it may reach memory, and its registers
  traffic            \* history: frames accepted, sent, arrived and delivered
card_vars == <<hw, nic, tx, rx_ring, chip, traffic>>

CardBuffers == 0..DESCRIPTOR_COUNT - 1
AfterCard(i) == (i + 1) % DESCRIPTOR_COUNT
\* owner: "driver", "card", or "used" (VirtIO: returned, not yet seen).  A bad frame is negative.
EmptyRing(owner) ==
  [buf |-> [i \in CardBuffers |-> 0], owner |-> [i \in CardBuffers |-> owner], next |-> 0, used |-> <<>>, fault |-> FALSE]
NoNic == [initialized |-> FALSE, up |-> FALSE, blocked |-> FALSE, pages |-> "none", msi |-> FALSE, irq |-> FALSE, starts |-> 0]
NoChip == [live |-> FALSE, head |-> 0, tail |-> 0, rx_head |-> 0, rx_tail |-> 0]
OffRings == tx' = EmptyRing("driver") /\ rx_ring' = EmptyRing("driver")
OnRings == tx' = EmptyRing("driver") /\ rx_ring' = EmptyRing("card")

-------------------------------------------------------------------------------
\* Start-up.
Starting(card) == hw = card /\ ~nic.initialized /\ nic.starts < MaxStarts
\* cleanup_after_reset(): nothing is given back unless the reset completed, and what
\* cannot be given back blocks the driver.
CleanedUpNic(n, reset, released) ==
  IF reset /\ released THEN [n EXCEPT !.pages = "none"] ELSE [n EXCEPT !.blocked = TRUE]
\* fail(): after the queues' addresses were given to the device, or before.
FailVirtioNet(exposed, reset, released) ==
  /\ nic' = CleanedUpNic([nic EXCEPT !.starts = @ + 1, !.pages = IF exposed THEN "held" ELSE "none"], reset, released)
  /\ chip' = [NoChip EXCEPT !.live = exposed /\ ~reset]
  /\ IF exposed /\ ~reset THEN OnRings ELSE OffRings
InitializeVirtioNet ==
  /\ Starting("virtio") /\ ~nic.blocked
  /\ \/ /\ \E msix \in BOOLEAN :
             nic' = [nic EXCEPT !.starts = @ + 1, !.initialized = TRUE, !.up = TRUE, !.pages = "held", !.msi = msix]
        /\ chip' = [NoChip EXCEPT !.live = TRUE] /\ OnRings
     \/ \E exposed, reset, released \in BOOLEAN : FailVirtioNet(exposed, reset, released)
  /\ UNCHANGED <<hw, traffic>>
\* e1000::initialize(): the pages come after the reset; a link that stays down leaves the
\* card running and the interface unusable.
InitializeE1000 ==
  /\ Starting("e1000")
  /\ \/ nic' = [nic EXCEPT !.starts = @ + 1] /\ UNCHANGED <<tx, rx_ring, chip>>
     \/ \E link, msi \in BOOLEAN :
          /\ nic' = [nic EXCEPT !.starts = @ + 1, !.initialized = TRUE, !.up = link, !.pages = "held", !.msi = msi]
          /\ chip' = [NoChip EXCEPT !.live = TRUE, !.rx_tail = DESCRIPTOR_COUNT - 1] /\ OnRings
  /\ UNCHANGED <<hw, traffic>>
\* qualify_msi_delivery(): a route that does not deliver is given up.
QualifyMsi ==
  /\ hw = "e1000" /\ nic.initialized /\ nic.msi /\ nic' = [nic EXCEPT !.msi = FALSE]
  /\ UNCHANGED <<hw, tx, rx_ring, chip, traffic>>
\* pcnet::initialize(): when the initialization does not finish the card is not started.
InitializePcnet ==
  /\ Starting("pcnet")
  /\ \/ nic' = [nic EXCEPT !.starts = @ + 1] /\ UNCHANGED <<tx, rx_ring, chip>>
     \/ /\ nic' = [nic EXCEPT !.starts = @ + 1, !.initialized = TRUE, !.up = TRUE, !.pages = "held"]
        /\ chip' = [NoChip EXCEPT !.live = TRUE] /\ OnRings
  /\ UNCHANGED <<hw, traffic>>

-------------------------------------------------------------------------------
\* Sending and receiving.  Frames are numbered as they are accepted and as they arrive.
Accept == traffic.accepted + 1
CanAccept(card) == hw = card /\ nic.up /\ traffic.accepted < MaxCardFrames
Handed(ring, i) == [ring EXCEPT !.buf[i] = Accept, !.owner[i] = "card"]
CanReceive(card) == hw = card /\ nic.up
Delivered(frame) == [traffic EXCEPT !.delivered = IF frame > 0 THEN Append(@, frame) ELSE @]

\* snapshot_completions(): every entry names a buffer the card has, each once; anything else
\* is a fault that stays.  reclaim_transmit().
Sensible(ring) ==
  /\ ~ring.fault /\ Len(ring.used) <= Cardinality({i \in CardBuffers : ring.owner[i] # "driver"})
  /\ IsInjective(ring.used) /\ \A k \in DOMAIN ring.used : ring.used[k] \in CardBuffers /\ ring.owner[ring.used[k]] # "driver"
Reclaimed(ring) ==
  [ring EXCEPT !.owner = [i \in CardBuffers |-> IF i \in ToSet(ring.used) THEN "driver" ELSE @[i]], !.used = <<>>]
TransmitVirtioNet ==
  LET ring == Reclaimed(tx)
      free == {i \in CardBuffers : ring.owner[i] = "driver"}
  IN
  /\ CanAccept("virtio")
  /\ CASE ~Sensible(tx) -> tx' = [tx EXCEPT !.fault = TRUE] /\ UNCHANGED traffic
       [] Sensible(tx) /\ free = {} -> tx' = ring /\ UNCHANGED traffic
       [] Sensible(tx) /\ free # {} ->
            tx' = Handed(ring, CHOOSE i \in free : \A j \in free : i <= j) /\ traffic' = [traffic EXCEPT !.accepted = @ + 1]
  /\ UNCHANGED <<hw, nic, rx_ring, chip>>
\* receive_frame(): transmit buffers are reclaimed as well when their interrupt came; then
\* the first returned buffer is read and given to the card again.
ReceiveVirtioNet ==
  LET i == Head(rx_ring.used)
      reclaim == nic.irq
  IN
  /\ CanReceive("virtio") /\ (rx_ring.used # <<>> \/ nic.irq)
  /\ nic' = [nic EXCEPT !.irq = FALSE]
  /\ CASE reclaim /\ ~Sensible(tx) -> tx' = [tx EXCEPT !.fault = TRUE] /\ UNCHANGED <<rx_ring, traffic>>
       [] (~reclaim \/ Sensible(tx)) /\ ~Sensible(rx_ring) ->
            /\ tx' = IF reclaim THEN Reclaimed(tx) ELSE tx
            /\ rx_ring' = [rx_ring EXCEPT !.fault = TRUE] /\ UNCHANGED traffic
       [] (~reclaim \/ Sensible(tx)) /\ Sensible(rx_ring) ->
            /\ tx' = IF reclaim THEN Reclaimed(tx) ELSE tx
            /\ IF rx_ring.used = <<>> THEN UNCHANGED <<rx_ring, traffic>>
               ELSE rx_ring' = [rx_ring EXCEPT !.used = Tail(@), !.owner[i] = "card"] /\ traffic' = Delivered(rx_ring.buf[i])
  /\ UNCHANGED <<hw, chip>>

\* e1000: the descriptor's DD bit is its owner.  A mutant sends without looking at it.
DescriptorDone_always(ring) == TRUE
DescriptorDone(ring) == ring.owner[ring.next] = "driver"
TransmitE1000 ==
  /\ CanAccept("e1000") /\ DescriptorDone(tx)
  /\ tx' = [Handed(tx, tx.next) EXCEPT !.next = AfterCard(@)] /\ chip' = [chip EXCEPT !.tail = AfterCard(tx.next)]
  /\ traffic' = [traffic EXCEPT !.accepted = @ + 1]
  /\ UNCHANGED <<hw, nic, rx_ring>>
ReceiveE1000 ==
  /\ CanReceive("e1000") /\ DescriptorDone(rx_ring)
  /\ rx_ring' = [rx_ring EXCEPT !.owner[rx_ring.next] = "card", !.next = AfterCard(@)] /\ chip' = [chip EXCEPT !.rx_tail = rx_ring.next]
  /\ traffic' = Delivered(rx_ring.buf[rx_ring.next])
  /\ UNCHANGED <<hw, nic, tx>>
TransmitPcnet ==
  /\ CanAccept("pcnet") /\ DescriptorDone(tx)
  /\ tx' = [Handed(tx, tx.next) EXCEPT !.next = AfterCard(@)] /\ traffic' = [traffic EXCEPT !.accepted = @ + 1]
  /\ UNCHANGED <<hw, nic, rx_ring, chip>>
ReceivePcnet ==
  /\ CanReceive("pcnet") /\ DescriptorDone(rx_ring)
  /\ rx_ring' = [rx_ring EXCEPT !.owner[rx_ring.next] = "card", !.next = AfterCard(@)] /\ traffic' = Delivered(rx_ring.buf[rx_ring.next])
  /\ UNCHANGED <<hw, nic, tx, chip>>

-------------------------------------------------------------------------------
\* The cards: which buffer they work on next, and what they do with it.
SendChoices ==
  CASE hw = "virtio" -> {i \in CardBuffers : tx.owner[i] = "card"}
    [] hw = "e1000" -> IF chip.head # chip.tail THEN {chip.head} ELSE {}
    [] hw = "pcnet" -> IF tx.owner[chip.head] = "card" THEN {chip.head} ELSE {}
FillChoices ==
  CASE hw = "virtio" -> {i \in CardBuffers : rx_ring.owner[i] = "card"}
    [] hw = "e1000" -> IF chip.rx_head # chip.rx_tail THEN {chip.rx_head} ELSE {}
    [] hw = "pcnet" -> IF rx_ring.owner[chip.rx_head] = "card" THEN {chip.rx_head} ELSE {}
Worked(ring, i) ==
  IF hw = "virtio" THEN [ring EXCEPT !.owner[i] = "used", !.used = Append(@, i)] ELSE [ring EXCEPT !.owner[i] = "driver"]
CardSends ==
  /\ chip.live
  /\ \E i \in SendChoices :
       /\ tx' = Worked(tx, i) /\ traffic' = [traffic EXCEPT !.sent = Append(@, tx.buf[i])]
       /\ chip' = [chip EXCEPT !.head = AfterCard(i)] /\ nic' = [nic EXCEPT !.irq = nic.msi /\ hw = "virtio"]
  /\ UNCHANGED <<hw, rx_ring>>
CardReceives ==
  /\ chip.live /\ traffic.arrived < MaxCardFrames
  /\ \E i \in FillChoices, good \in BOOLEAN :
       /\ rx_ring' = [Worked(rx_ring, i) EXCEPT !.buf[i] = IF good THEN traffic.arrived + 1 ELSE -1]
       /\ traffic' = [traffic EXCEPT !.arrived = @ + 1, !.good = IF good THEN Append(@, traffic.arrived + 1) ELSE @]
       /\ chip' = [chip EXCEPT !.rx_head = AfterCard(i)]
  /\ UNCHANGED <<hw, nic, tx>>
\* A used list with an entry for a buffer the card does not have, or twice the same.
CardMisbehaves ==
  /\ chip.live /\ hw = "virtio" /\ Len(tx.used) < DESCRIPTOR_COUNT
  /\ \E i \in CardBuffers \cup {DESCRIPTOR_COUNT} :
       /\ i \in CardBuffers => tx.owner[i] # "card"
       /\ tx' = [tx EXCEPT !.used = Append(@, i)]
  /\ UNCHANGED <<hw, nic, rx_ring, chip, traffic>>

CardsInit ==
  /\ hw \in Cards /\ nic = NoNic /\ tx = EmptyRing("driver") /\ rx_ring = EmptyRing("driver") /\ chip = NoChip
  /\ traffic = [accepted |-> 0, sent |-> <<>>, arrived |-> 0, good |-> <<>>, delivered |-> <<>>]
CardsNext ==
  \/ InitializeVirtioNet \/ InitializeE1000 \/ InitializePcnet \/ QualifyMsi
  \/ TransmitVirtioNet \/ ReceiveVirtioNet \/ TransmitE1000 \/ ReceiveE1000 \/ TransmitPcnet \/ ReceivePcnet
  \/ CardSends \/ CardReceives \/ CardMisbehaves
CardsSpec == CardsInit /\ [][CardsNext]_card_vars

-------------------------------------------------------------------------------
\* The pages a card may still reach are not given back: after a failed start they are freed
\* only behind a completed reset, otherwise kept and the driver blocked
\* (cleanup_after_reset()).
CardPagesHeld == chip.live => nic.pages = "held"

\* Between driver and card no frame is lost, repeated or changed: what was accepted is on the
\* wire once or in a buffer the card holds, and what the drivers deliver is what the card
\* received, in order (transmit_frame(), snapshot_completions(), the DD and OWN bits).
FramesExact ==
  /\ CardPagesHeld
  /\ nic.pages \in {"none", "held"} /\ tx.next \in CardBuffers /\ rx_ring.next \in CardBuffers
  /\ IsInjective(traffic.sent)
  /\ ToSet(traffic.sent) \cup {tx.buf[i] : i \in {j \in CardBuffers : tx.owner[j] = "card"}} = 1..traffic.accepted
  /\ IsPrefix(traffic.delivered, traffic.good)
====
