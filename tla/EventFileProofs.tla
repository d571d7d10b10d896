--------------------------- MODULE EventFileProofs ----------------------------
(***************************************************************************)
(* Waitable events keep their references and their signals exact for every *)
(* number of slots, grants and processes; and replace() of a state file is *)
(* atomic, with its crashes and failures, for any contents and any number  *)
(* of calls.                                                               *)
(***************************************************************************)
EXTENDS IpcEvent, ReliableFile, FiniteSetTheorems, WellFoundedInduction, TLAPS

\* A set of naturals has a least element, which is what Min chooses.
LEMMA MinOfNaturals ==
  ASSUME NEW S \in SUBSET Nat, S # {}
  PROVE  Min(S) \in S
<1> DEFINE Less == {ss \in Nat \X Nat : ss[1] < ss[2]}
<1>1. IsWellFoundedOn(Less, Nat)
  BY NatLessThanWellFounded DEF OpToRel
<1>2. \A a, b \in Nat : a < b => <<a, b>> \in Less
  OBVIOUS
<1>3. PICK x \in S : \A y \in S : ~(<<y, x>> \in Less)
  <2> HIDE DEF Less
  <2> QED BY <1>1, WFMin, Zenon
<1>4. ASSUME NEW y \in S PROVE x <= y
  <2>1. x \in Nat /\ y \in Nat /\ ~(y < x)
    <3> HIDE DEF Less
    <3> QED BY <1>2, <1>3, <1>4, Zenon
  <2> QED BY <2>1
<1> QED BY <1>4, Zenon DEF Min

-------------------------------------------------------------------------------
\* The inductive invariant of the events, for one slot: its record, the history of
\* its present event, the processes that have exited, and the late grants.
EventRecords ==
  [active : BOOLEAN, generation : 0..EventCreates, owner : Pids \cup {NoPid},
   mode : Modes, signaled : BOOLEAN, owner_open : BOOLEAN, grants : SUBSET Pids]

RefsOK(ev) ==
  /\ ev \in EventRecords /\ IsFiniteSet(ev.grants) /\ Cardinality(ev.grants) <= EventGrants
  /\ ev.active <=> ev.owner_open \/ ev.grants # {}
  /\ ~ev.active => ev = FreeEvent(ev.generation)
  /\ ev.owner \notin ev.grants

SignalsOK(ev, up, seen, down) ==
  /\ up \in 0..MaxSignals /\ seen \in Nat /\ down \in BOOLEAN
  /\ ev.active /\ ev.mode = "auto" => seen + (IF ev.signaled THEN 1 ELSE 0) <= up
  /\ ev.active /\ ev.mode = "manual" => (ev.signaled <=> up > 0 /\ ~down)

ExitsOK(e, ev, gone, after) ==
  ev.active => /\ ev.owner_open => ev.owner \notin gone
               /\ \A p \in ev.grants \cap gone : <<EventHandle(e, ev.generation), p>> \in after

SlotOK(e) ==
  /\ RefsOK(events[e])
  /\ SignalsOK(events[e], raised[e], observed[e], lowered[e])
  /\ ExitsOK(e, events[e], exited, late)

EventsInv ==
  /\ events = [e \in Events |-> events[e]] /\ exited \subseteq Pids
  /\ raised = [e \in Events |-> raised[e]] /\ observed = [e \in Events |-> observed[e]]
  /\ lowered = [e \in Events |-> lowered[e]]
  /\ \A e \in Events : SlotOK(e)
  /\ event_handles \subseteq [index : Events, generation : 1..EventCreates]
  /\ \A h \in event_handles : h.generation <= events[h.index].generation
  /\ late \subseteq event_handles \X Pids

\* A free slot has no references.
LEMMA FreeEventOK == ASSUME NEW g \in 0..EventCreates PROVE RefsOK(FreeEvent(g))
BY FS_EmptySet, EventCapacities, NoPidIsNone DEF RefsOK, EventRecords, FreeEvent, Modes

\* A record with fewer references; maybe_reclaim() puts such a slot in order.
Fewer(kept, ev) ==
  /\ kept \in EventRecords /\ kept.grants \subseteq ev.grants /\ (kept.owner_open => ev.owner_open)
  /\ kept.active /\ kept.generation = ev.generation /\ kept.owner = ev.owner
  /\ kept.mode = ev.mode /\ (kept.signaled <=> ev.signaled)
\* Dropping references and then reclaiming leaves a slot in order.
LEMMA ReclaimedOK ==
  ASSUME NEW ev, RefsOK(ev), ev.active, NEW kept, Fewer(kept, ev)
  PROVE  /\ RefsOK(ReclaimEvent(kept))
         /\ ReclaimEvent(kept).generation = ev.generation
         /\ ReclaimEvent(kept).active => ReclaimEvent(kept) = kept
<1>1. /\ IsFiniteSet(kept.grants) /\ Cardinality(kept.grants) <= Cardinality(ev.grants)
      /\ Cardinality(kept.grants) \in Nat /\ Cardinality(ev.grants) \in Nat
  BY FS_Subset, FS_CardinalityType DEF RefsOK, Fewer
<1>2. CASE kept.owner_open \/ kept.grants # {}
  BY <1>1, <1>2, EventCapacities DEF RefsOK, ReclaimEvent, Fewer
<1>3. CASE ~(kept.owner_open \/ kept.grants # {})
  <2>1. ReclaimEvent(kept) = FreeEvent(ev.generation)
    BY <1>3 DEF ReclaimEvent, Fewer
  <2>2. ev.generation \in 0..EventCreates
    BY DEF RefsOK, EventRecords
  <2>3. FreeEvent(ev.generation).generation = ev.generation /\ ~FreeEvent(ev.generation).active
    BY DEF FreeEvent
  <2> QED BY <2>1, <2>2, <2>3, FreeEventOK
<1> QED BY <1>2, <1>3

\* All slots are free at boot.
LEMMA EventsInvInit == EventInit => EventsInv
<1> SUFFICES ASSUME EventInit PROVE EventsInv
  OBVIOUS
<1>1. 0 \in 0..EventCreates /\ 0 \in 0..MaxSignals
  BY EventCapacities
<1>2. ASSUME NEW e \in Events PROVE SlotOK(e)
  <2>1. events[e] = FreeEvent(0) /\ raised[e] = 0 /\ observed[e] = 0 /\ lowered[e] = FALSE
    BY DEF EventInit
  <2>2. ~FreeEvent(0).active
    BY DEF FreeEvent
  <2>3. SignalsOK(FreeEvent(0), 0, 0, FALSE) /\ ExitsOK(e, FreeEvent(0), exited, late)
    BY <1>1, <2>2 DEF SignalsOK, ExitsOK
  <2> QED BY <1>1, <2>1, <2>3, FreeEventOK, Zenon DEF SlotOK
<1> QED BY <1>2 DEF EventInit, EventsInv

\* A call that touches one slot leaves the others in order, and handles keep naming
\* no later event than the slot holds.
Touched(e) ==
  /\ e \in Events
  /\ events' = [events EXCEPT ![e] = events'[e]]
  /\ raised' = [raised EXCEPT ![e] = raised'[e]]
  /\ observed' = [observed EXCEPT ![e] = observed'[e]]
  /\ lowered' = [lowered EXCEPT ![e] = lowered'[e]]
  /\ events'[e].generation >= events[e].generation
  /\ SlotOK(e)'
\* A step that touches one slot and leaves it in order keeps the table in order.
LEMMA OneSlot ==
  ASSUME EventsInv, NEW e, Touched(e), exited' = exited, late \subseteq late',
         late' \subseteq event_handles' \X Pids, event_handles \subseteq event_handles',
         \A h \in event_handles' \ event_handles :
           h \in [index : Events, generation : 1..EventCreates]
           /\ h.generation <= events'[h.index].generation
  PROVE  EventsInv'
<1>1. ASSUME NEW i \in Events, i # e PROVE SlotOK(i)'
  <2>1. /\ events'[i] = events[i] /\ raised'[i] = raised[i]
        /\ observed'[i] = observed[i] /\ lowered'[i] = lowered[i] /\ SlotOK(i)
    BY <1>1 DEF Touched, EventsInv
  <2> QED BY <2>1 DEF SlotOK, ExitsOK
<1>2. \A i \in Events : SlotOK(i)'
  BY <1>1 DEF Touched
<1>3. \A h \in event_handles : h \in [index : Events, generation : 1..EventCreates]
                               /\ h.generation <= events'[h.index].generation
  <2> TAKE h \in event_handles
  <2>1. h.index \in Events /\ h.generation \in Nat /\ h.generation <= events[h.index].generation
    BY EventCapacities DEF EventsInv
  <2>2. events[h.index].generation \in Nat /\ events'[h.index].generation \in Nat
    BY <1>2, <2>1, EventCapacities DEF EventsInv, SlotOK, RefsOK, EventRecords
  <2>3. events'[h.index].generation >= events[h.index].generation
    BY <2>1, <2>2 DEF Touched, EventsInv
  <2> QED BY <2>1, <2>2, <2>3 DEF EventsInv
<1> QED BY <1>2, <1>3 DEF EventsInv, Touched

\* create() takes an inactive slot.
LEMMA CreateEventKeeps ==
  ASSUME EventsInv, NEW p \in Live, NEW mode \in Modes, NEW signaled \in BOOLEAN,
         CreateEvent(p, mode, signaled)
  PROVE  EventsInv'
<1> DEFINE New(g) == [FreeEvent(g) EXCEPT !.active = TRUE, !.owner = p, !.owner_open = TRUE,
                                          !.mode = mode, !.signaled = signaled]
<1>1. PICK e \in Events :
        /\ ~events[e].active
        /\ events[e].generation + 1 <= EventCreates
        /\ events' = [events EXCEPT ![e] = New(events[e].generation + 1)]
        /\ event_handles' = event_handles \cup {EventHandle(e, events[e].generation + 1)}
        /\ raised' = [raised EXCEPT ![e] = IF signaled THEN 1 ELSE 0]
        /\ observed' = [observed EXCEPT ![e] = 0]
        /\ lowered' = [lowered EXCEPT ![e] = FALSE]
  <2> DEFINE S == {f \in Events : ~events[f].active}
  <2>1. S \in SUBSET Nat /\ S # {}
    BY EventCapacities DEF CreateEvent, Events
  <2>2. Min(S) \in S
    <3> HIDE DEF S
    <3> QED BY <2>1, MinOfNaturals
  <2>3. Min(S) \in Events /\ ~events[Min(S)].active
    BY <2>2
  <2> QED BY <2>3, Zenon DEF CreateEvent
<1> DEFINE g == events[e].generation + 1  new == New(g)
<1>2. UNCHANGED <<exited, late>>
  BY DEF CreateEvent
<1>3. /\ events[e].generation \in 0..EventCreates /\ g \in 1..EventCreates
      /\ p \in Pids /\ p \notin exited
  BY <1>1, EventCapacities DEF EventsInv, SlotOK, RefsOK, EventRecords, Live
<1>4. /\ new \in EventRecords /\ new.active /\ new.generation = g /\ new.owner = p /\ new.mode = mode
      /\ new.owner_open /\ new.grants = {} /\ (new.signaled <=> signaled)
  <2>1. FreeEvent(g) \in EventRecords /\ FreeEvent(g).grants = {} /\ FreeEvent(g).generation = g
    BY <1>3, EventCapacities DEF FreeEvent, EventRecords, Modes
  <2> QED BY <1>3, <2>1, Zenon DEF EventRecords
<1>0. /\ events' = [events EXCEPT ![e] = new]
      /\ event_handles' = event_handles \cup {EventHandle(e, g)}
  BY <1>1
<1> HIDE DEF new, New, g
<1>5. RefsOK(new)
  BY <1>4, FS_EmptySet, EventCapacities DEF RefsOK
<1>6. /\ events'[e] = new /\ observed'[e] = 0 /\ lowered'[e] = FALSE
      /\ raised'[e] = IF signaled THEN 1 ELSE 0
  BY <1>0, <1>1 DEF EventsInv
<1>7. SignalsOK(new, raised'[e], observed'[e], lowered'[e])
  <2>1. SignalsOK(new, IF signaled THEN 1 ELSE 0, 0, FALSE)
    BY <1>4, EventCapacities DEF SignalsOK, Modes
  <2> QED BY <1>6, <2>1, Zenon
<1>8. ExitsOK(e, new, exited', late')
  BY <1>2, <1>3, <1>4 DEF ExitsOK
<1>9. Touched(e)
  <2>1. SlotOK(e)'
    BY <1>2, <1>5, <1>6, <1>7, <1>8 DEF SlotOK
  <2>2. events'[e].generation >= events[e].generation
    BY <1>3, <1>4, <1>6 DEF g
  <2> QED BY <1>0, <1>1, <1>6, <2>1, <2>2 DEF Touched, EventsInv
<1>10. \A h \in event_handles' \ event_handles : h = EventHandle(e, g)
  BY <1>0
<1>11. /\ EventHandle(e, g) \in [index : Events, generation : 1..EventCreates]
       /\ EventHandle(e, g).index = e /\ EventHandle(e, g).generation = g
  BY <1>1, <1>3 DEF EventHandle
<1>12. g <= events'[e].generation
  BY <1>3, <1>4, <1>6
<1>13. late' \subseteq event_handles' \X Pids
  BY <1>0, <1>2 DEF EventsInv
<1> QED BY <1>0, <1>2, <1>9, <1>10, <1>11, <1>12, <1>13, OneSlot

\* What a call that decodes a handle may rely on.
LEMMA DecodedSlot ==
  ASSUME EventsInv, NEW h \in event_handles, DecodesEvent(h)
  PROVE  /\ h.index \in Events /\ events[h.index].active /\ h = EventHandle(h.index, events[h.index].generation)
         /\ SlotOK(h.index) /\ events[h.index] \in EventRecords
BY DEF EventsInv, DecodesEvent, EventHandle, SlotOK, RefsOK

\* grant() keeps the table in order.
LEMMA GrantEventKeeps ==
  ASSUME EventsInv, NEW p \in Live, NEW h \in event_handles, NEW q \in Pids, GrantEvent(p, h, q)
  PROVE  EventsInv'
<1> DEFINE e == h.index  ev == events[e]  new == [ev EXCEPT !.grants = @ \cup {q}]
<1>1. /\ e \in Events /\ ev.active /\ h = EventHandle(e, ev.generation) /\ SlotOK(e)
      /\ ev \in EventRecords
  BY DecodedSlot DEF GrantEvent
<1>2. /\ ev.owner = p /\ q # p /\ ev.owner_open /\ q \notin ev.grants /\ Cardinality(ev.grants) < EventGrants
      /\ events' = [events EXCEPT ![e] = new]
      /\ late' = IF q \in exited THEN late \cup {<<h, q>>} ELSE late
      /\ UNCHANGED <<exited, event_handles, raised, observed, lowered>>
  BY <1>1 DEF GrantEvent, EventsInv
<1>3. /\ new \in EventRecords /\ new.active /\ new.generation = ev.generation /\ new.owner = ev.owner
      /\ new.owner_open = ev.owner_open /\ new.grants = ev.grants \cup {q}
      /\ new.mode = ev.mode /\ new.signaled = ev.signaled
  BY <1>1 DEF EventRecords
<1> HIDE DEF e, new
<1>4. events'[e] = new
  BY <1>1, <1>2 DEF EventsInv
<1>5. RefsOK(new)
  <2>1. IsFiniteSet(ev.grants) /\ Cardinality(ev.grants) \in Nat
    BY <1>1, FS_CardinalityType DEF SlotOK, RefsOK
  <2>2. IsFiniteSet(ev.grants \cup {q}) /\ Cardinality(ev.grants \cup {q}) = Cardinality(ev.grants) + 1
    BY <1>2, <2>1, FS_AddElement
  <2> QED BY <1>1, <1>2, <1>3, <2>1, <2>2, EventCapacities DEF SlotOK, RefsOK
<1>6. SignalsOK(new, raised[e], observed[e], lowered[e])
  BY <1>1, <1>3 DEF SlotOK, SignalsOK
<1>7. ExitsOK(e, new, exited, late')
  BY <1>1, <1>2, <1>3 DEF SlotOK, ExitsOK
<1>8. Touched(e)
  <2>1. SlotOK(e)'
    BY <1>2, <1>4, <1>5, <1>6, <1>7 DEF SlotOK
  <2>2. events'[e].generation >= events[e].generation
    BY <1>1, <1>3, <1>4, EventCapacities DEF EventRecords
  <2>3. /\ raised' = [raised EXCEPT ![e] = raised'[e]] /\ observed' = [observed EXCEPT ![e] = observed'[e]]
        /\ lowered' = [lowered EXCEPT ![e] = lowered'[e]]
    BY <1>1, <1>2, Zenon DEF EventsInv
  <2> QED BY <1>1, <1>2, <1>4, <2>1, <2>2, <2>3, Zenon DEF Touched
<1>9. late \subseteq late' /\ late' \subseteq event_handles' \X Pids
  BY <1>2 DEF EventsInv
<1> QED BY <1>2, <1>8, <1>9, OneSlot

\* A call that only changes whether the event is signalled, and its history.
LEMMA SignalingKeeps ==
  ASSUME EventsInv, NEW h \in event_handles, DecodesEvent(h), NEW b \in BOOLEAN,
         events' = [events EXCEPT ![h.index] = [events[h.index] EXCEPT !.signaled = b]],
         NEW up, raised' = [raised EXCEPT ![h.index] = up],
         NEW seen, observed' = [observed EXCEPT ![h.index] = seen],
         NEW down, lowered' = [lowered EXCEPT ![h.index] = down],
         UNCHANGED <<exited, event_handles, late>>,
         SignalsOK([events[h.index] EXCEPT !.signaled = b], up, seen, down)
  PROVE  EventsInv'
<1> DEFINE e == h.index  ev == events[e]  new == [ev EXCEPT !.signaled = b]
<1>1. e \in Events /\ ev.active /\ SlotOK(e) /\ ev \in EventRecords
  BY DecodedSlot
<1>2. /\ new \in EventRecords /\ new.active = ev.active /\ new.generation = ev.generation
      /\ new.owner = ev.owner /\ new.owner_open = ev.owner_open /\ new.grants = ev.grants
  BY <1>1, Zenon DEF EventRecords
<1>3. events' = [events EXCEPT ![e] = new] /\ SignalsOK(new, up, seen, down)
  OBVIOUS
<1> HIDE DEF e, new
<1>4. events'[e] = new /\ raised'[e] = up /\ observed'[e] = seen /\ lowered'[e] = down
  BY <1>1, <1>3 DEF EventsInv, e
<1>5. RefsOK(new) /\ ExitsOK(e, new, exited, late)
  BY <1>1, <1>2 DEF SlotOK, RefsOK, ExitsOK
<1>6. Touched(e)
  <2>1. SlotOK(e)'
    BY <1>3, <1>4, <1>5 DEF SlotOK
  <2>2. events'[e].generation >= events[e].generation
    BY <1>1, <1>2, <1>4, EventCapacities DEF EventRecords
  <2> QED BY <1>1, <1>3, <1>4, <2>1, <2>2, Zenon DEF Touched, e
<1> QED BY <1>6, OneSlot, Zenon DEF EventsInv

\* signal() keeps the table in order.
LEMMA SignalKeeps ==
  ASSUME EventsInv, NEW p \in Live, NEW h \in event_handles, Signal(p, h)
  PROVE  EventsInv'
<1> DEFINE e == h.index
<1>1. e \in Events /\ SlotOK(e) /\ events[e] \in EventRecords /\ DecodesEvent(h)
  BY DecodedSlot DEF Signal
<1>2. raised[e] \in Nat /\ raised[e] + 1 \in 0..MaxSignals /\ observed[e] \in Nat
  BY <1>1, EventCapacities DEF Signal, SlotOK, SignalsOK
<1>3. SignalsOK([events[e] EXCEPT !.signaled = TRUE], raised[e] + 1, observed[e], FALSE)
  BY <1>1, <1>2 DEF SlotOK, SignalsOK, EventRecords, Modes, Signal, DecodesEvent
<1>4. /\ events' = [events EXCEPT ![e] = [events[e] EXCEPT !.signaled = TRUE]]
      /\ raised' = [raised EXCEPT ![e] = raised[e] + 1]
      /\ observed' = [observed EXCEPT ![e] = observed[e]]
      /\ lowered' = [lowered EXCEPT ![e] = FALSE] /\ UNCHANGED <<exited, event_handles, late>>
  BY <1>1, Zenon DEF Signal, EventsInv
<1> QED BY <1>1, <1>3, <1>4, SignalingKeeps, Zenon

\* reset() keeps the table in order.
LEMMA ResetKeeps ==
  ASSUME EventsInv, NEW p \in Live, NEW h \in event_handles, Reset(p, h)
  PROVE  EventsInv'
<1> DEFINE e == h.index
<1>1. e \in Events /\ SlotOK(e) /\ events[e] \in EventRecords /\ DecodesEvent(h)
  BY DecodedSlot DEF Reset
<1>2. SignalsOK([events[e] EXCEPT !.signaled = FALSE], raised[e], observed[e], TRUE)
  <2>1. observed[e] \in Nat /\ raised[e] \in Nat
    BY <1>1, EventCapacities DEF SlotOK, SignalsOK
  <2> QED BY <1>1, <2>1 DEF SlotOK, SignalsOK, EventRecords, Modes
<1>3. /\ events' = [events EXCEPT ![e] = [events[e] EXCEPT !.signaled = FALSE]]
      /\ raised' = [raised EXCEPT ![e] = raised[e]]
      /\ observed' = [observed EXCEPT ![e] = observed[e]]
      /\ lowered' = [lowered EXCEPT ![e] = TRUE] /\ UNCHANGED <<exited, event_handles, late>>
  BY <1>1, Zenon DEF Reset, EventsInv
<1> QED BY <1>1, <1>2, <1>3, SignalingKeeps, Zenon

\* poll() keeps the table in order.
LEMMA PollKeeps ==
  ASSUME EventsInv, NEW p \in Live, NEW h \in event_handles, Poll(p, h)
  PROVE  EventsInv'
<1> DEFINE e == h.index  b == events[e].mode # "auto"
           seen == IF events[e].mode = "auto" THEN observed[e] + 1 ELSE 0
<1>1. /\ e \in Events /\ SlotOK(e) /\ events[e] \in EventRecords /\ DecodesEvent(h)
      /\ events[e].signaled /\ events[e].active
  BY DecodedSlot DEF Poll
<1>2. SignalsOK([events[e] EXCEPT !.signaled = b], raised[e], seen, lowered[e])
  <2>1. observed[e] \in Nat /\ raised[e] \in Nat
    BY <1>1, EventCapacities DEF SlotOK, SignalsOK
  <2> DEFINE new == [events[e] EXCEPT !.signaled = b]
  <2>2. new.mode = events[e].mode /\ new.active /\ (new.signaled <=> events[e].mode # "auto")
    BY <1>1, Zenon DEF EventRecords
  <2>3. SignalsOK(events[e], raised[e], observed[e], lowered[e])
    BY <1>1 DEF SlotOK
  <2> HIDE DEF new
  <2>4. SignalsOK(new, raised[e], seen, lowered[e])
    <3>1. CASE events[e].mode = "auto"
      BY <1>1, <2>1, <2>2, <2>3, <3>1 DEF SignalsOK
    <3>2. CASE events[e].mode # "auto"
      BY <1>1, <2>1, <2>2, <2>3, <3>2 DEF SignalsOK
    <3> QED BY <3>1, <3>2
  <2> QED BY <2>4 DEF new
<1>3. /\ events' = [events EXCEPT ![e] = [events[e] EXCEPT !.signaled = b]]
      /\ raised' = [raised EXCEPT ![e] = raised[e]]
      /\ observed' = [observed EXCEPT ![e] = seen]
      /\ lowered' = [lowered EXCEPT ![e] = lowered[e]] /\ UNCHANGED <<exited, event_handles, late>>
  BY <1>1, Zenon DEF Poll, AfterPoll, EventsInv
<1>4. b \in BOOLEAN
  OBVIOUS
<1> HIDE DEF b, seen
<1> QED BY <1>1, <1>2, <1>3, <1>4, SignalingKeeps, Zenon

\* The signals of such a slot stay in order too.
LEMMA ClosedSignals ==
  ASSUME NEW ev, RefsOK(ev), ev.active, NEW kept, Fewer(kept, ev),
         NEW up, NEW seen, NEW down, SignalsOK(ev, up, seen, down)
  PROVE  SignalsOK(ReclaimEvent(kept), up, seen, down)
BY ReclaimedOK DEF SignalsOK, Fewer

\* close() keeps the table in order.
LEMMA CloseEventKeeps ==
  ASSUME EventsInv, NEW p \in Live, NEW h \in event_handles, CloseEvent(p, h)
  PROVE  EventsInv'
<1> DEFINE e == h.index  ev == events[e]
           kept == IF ev.owner = p /\ ev.owner_open THEN [ev EXCEPT !.owner_open = FALSE]
                   ELSE [ev EXCEPT !.grants = @ \ {p}]
           new == ReclaimEvent(kept)
<1>1. e \in Events /\ ev.active /\ SlotOK(e) /\ RefsOK(ev) /\ ev \in EventRecords
  BY DecodedSlot DEF CloseEvent, SlotOK
<1>2. Fewer(kept, ev)
  BY <1>1, Zenon DEF EventRecords, Fewer
<1>3. /\ events' = [events EXCEPT ![e] = new]
      /\ UNCHANGED <<exited, event_handles, raised, observed, lowered, late>>
  BY DEF CloseEvent
<1> HIDE DEF e, kept
<1>4. RefsOK(new) /\ new.generation = ev.generation /\ (new.active => new = kept)
  BY <1>1, <1>2, ReclaimedOK
<1>5. SignalsOK(new, raised[e], observed[e], lowered[e]) /\ ExitsOK(e, new, exited, late)
  <2>1. SignalsOK(ev, raised[e], observed[e], lowered[e]) /\ ExitsOK(e, ev, exited, late)
    BY <1>1 DEF SlotOK
  <2>2. SignalsOK(new, raised[e], observed[e], lowered[e])
    BY <1>1, <1>2, <2>1, ClosedSignals
  <2> HIDE DEF new
  <2> QED BY <1>1, <1>2, <1>4, <2>1, <2>2 DEF Fewer, ExitsOK
<1> HIDE DEF new
<1>6. events'[e] = new
  BY <1>1, <1>3 DEF EventsInv
<1>7. Touched(e)
  <2>1. SlotOK(e)'
    BY <1>3, <1>4, <1>5, <1>6 DEF SlotOK
  <2>2. events'[e].generation >= events[e].generation
    BY <1>1, <1>4, <1>6, EventCapacities DEF EventRecords
  <2>3. /\ raised' = [raised EXCEPT ![e] = raised'[e]] /\ observed' = [observed EXCEPT ![e] = observed'[e]]
        /\ lowered' = [lowered EXCEPT ![e] = lowered'[e]]
    BY <1>1, <1>3, Zenon DEF EventsInv
  <2> QED BY <1>1, <1>3, <1>6, <2>1, <2>2, <2>3, Zenon DEF Touched, e
<1> QED BY <1>3, <1>7, OneSlot DEF EventsInv

\* release_process() drops every reference of a process that exits.
LEMMA ReleaseEventsKeeps ==
  ASSUME EventsInv, NEW p \in Live, ReleaseEvents(p)
  PROVE  EventsInv'
<1>1. p \in Pids /\ exited' \subseteq Pids
  BY DEF ReleaseEvents, Live, EventsInv
<1>2. ASSUME NEW e \in Events
      PROVE  SlotOK(e)' /\ events'[e].generation = events[e].generation
  <2> DEFINE ev == events[e]  new == DropEvent(ev, p)
  <2>1. SlotOK(e) /\ ev \in EventRecords /\ RefsOK(ev)
    BY DEF EventsInv, SlotOK, RefsOK
  <2>2. /\ events'[e] = new /\ exited' = exited \cup {p}
        /\ raised'[e] = raised[e] /\ observed'[e] = observed[e] /\ lowered'[e] = lowered[e]
        /\ late' = late
    BY DEF ReleaseEvents
  <2>3. CASE ~ev.active
    <3>1. new = ev
      BY <2>3 DEF DropEvent
    <3>2. ExitsOK(e, ev, exited', late')
      BY <2>3 DEF ExitsOK
    <3> HIDE DEF new
    <3> QED BY <2>1, <2>2, <3>1, <3>2 DEF SlotOK
  <2>4. CASE ev.active
    <3> DEFINE kept == [ev EXCEPT !.owner_open = @ /\ ev.owner # p, !.grants = @ \ {p}]
    <3>1. new = ReclaimEvent(kept)
      BY <2>4 DEF DropEvent
    <3>2. Fewer(kept, ev) /\ (kept.owner_open => ev.owner # p) /\ p \notin kept.grants
      BY <2>1, <2>4, Zenon DEF EventRecords, Fewer
    <3>3. SignalsOK(ev, raised[e], observed[e], lowered[e]) /\ ExitsOK(e, ev, exited, late)
      BY <2>1 DEF SlotOK
    <3> HIDE DEF new, kept
    <3>4. /\ RefsOK(new) /\ new.generation = ev.generation /\ (new.active => new = kept)
          /\ SignalsOK(new, raised[e], observed[e], lowered[e])
      BY <2>1, <2>4, <3>1, <3>2, <3>3, ReclaimedOK, ClosedSignals
    <3>5. ExitsOK(e, new, exited', late')
      BY <2>2, <2>4, <3>2, <3>3, <3>4 DEF Fewer, ExitsOK
    <3> QED BY <2>2, <3>4, <3>5 DEF SlotOK
  <2> QED BY <2>3, <2>4
<1>3. /\ events' = [e \in Events |-> events'[e]]
      /\ UNCHANGED <<event_handles, raised, observed, lowered, late>>
  BY DEF ReleaseEvents
<1>4. \A h \in event_handles' : h.generation <= events'[h.index].generation
  BY <1>2, <1>3 DEF EventsInv
<1> QED BY <1>1, <1>2, <1>3, <1>4 DEF EventsInv

\* An event table in order is an invariant.
LEMMA EventsInvariance == EventSpec => []EventsInv
<1>1. EventsInv /\ [EventNext]_event_vars => EventsInv'
  <2>1. EventsInv /\ EventNext => EventsInv'
    BY CreateEventKeeps, GrantEventKeeps, SignalKeeps, ResetKeeps, PollKeeps, CloseEventKeeps,
       ReleaseEventsKeeps DEF EventNext
  <2>2. EventsInv /\ UNCHANGED event_vars => EventsInv'
    BY DEF EventsInv, event_vars, SlotOK
  <2> QED BY <2>1, <2>2
<1> QED BY <1>1, EventsInvInit, PTL DEF EventSpec

\* The event table is exact for every number of slots, grants and processes and any
\* order of calls: slots live as long as their references and no old handle names a
\* later event, an auto-reset signal is observed at most once and a manual one until
\* it is reset, and an exited process keeps only grants made to it afterwards.
THEOREM EventsStayExact == EventSpec => []EventsExact
<1>1. EventsInv => EventsExact
  <2> SUFFICES ASSUME EventsInv PROVE EventsExact
    OBVIOUS
  <2>1. EventTypeOK
    BY EventCapacities DEF EventTypeOK, EventsInv, SlotOK, RefsOK, SignalsOK, EventRecords
  <2>2. SlotFollowsReferences
    BY <2>1 DEF SlotFollowsReferences, EventsInv, SlotOK, RefsOK
  <2>3. SignalsConserved
    BY DEF SignalsConserved, EventsInv, SlotOK, RefsOK, EventRecords, Modes, SignalsOK
  <2>4. ExitedKeepOnlyLateGrants
    BY DEF ExitedKeepOnlyLateGrants, EventsInv, SlotOK, ExitsOK
  <2> QED BY <2>2, <2>3, <2>4 DEF EventsExact
<1> QED BY <1>1, EventsInvariance, PTL

-------------------------------------------------------------------------------
\* The files as they may be.
FileSystems ==
  [target : Contents \cup {None}, staging : Contents \cup {None, Partial},
   rollback : Contents \cup {None}, committed : Contents \cup {None}]

\* A file system that a crash may leave, when recovery may find the contents in A.
\* A committed artifact is only there beside the target that superseded it.
FsOK(f, A) ==
  /\ f \in FileSystems /\ Logical(f) \in A
  /\ f.committed # None => f.target # None /\ f.rollback = None

\* The recovery has nothing left to do.
Recovered == fs.rollback = None /\ fs.committed = None
Durable == survivors = {fs}
OldKept == \A f \in survivors : f.rollback # None

\* Where replace() is decides what it can rely on.
AtStep ==
  /\ pc = "idle" => data = None /\ allowed = Possible(survivors)
  /\ pc # "idle" => data \in Contents /\ data \in allowed
  /\ pc = "recover_unlink" => fs.target # None /\ fs.rollback # None
  /\ pc = "recover_rename" => fs.rollback # None
  /\ pc = "retire" => fs.rollback = None /\ fs.committed # None
  /\ pc \in {"recover_sync", "retire_sync", "unstage", "unstage_sync", "create",
             "write", "write_sync", "backup"} => Recovered
  /\ pc = "write" => fs.staging # None
  /\ pc \in {"write_sync", "backup", "backup_sync", "publish"} => fs.staging = data
  /\ pc \in {"backup", "publish", "mark", "drop"} => Durable
  /\ pc = "backup_sync" => target_present /\ fs.target = None /\ fs.rollback # None
  /\ pc = "publish" => /\ fs.target = None /\ fs.committed = None
                       /\ target_present <=> fs.rollback # None
  /\ pc = "publish_sync" => /\ fs.target = data /\ fs.committed = None
                            /\ target_present => OldKept
                            /\ ~target_present => fs.rollback = None
  /\ pc = "undo_unlink" => OldKept
  /\ pc \in {"undo_rename", "mark"} => fs.rollback # None
  /\ pc = "mark" => fs.target = data
  /\ pc \in {"mark_sync", "drop"} => fs.target = data /\ fs.rollback = None
  /\ pc = "drop_sync" => \A f \in survivors : f.target = data /\ f.rollback = None
  /\ pc = "ok" => Possible(survivors) = {data}

\* The inductive invariant.  The third conjunct is what makes it safe to unlink the
\* target in recovery: a crash could not bring back a state without the old copy.
ReliableInv ==
  /\ fs \in survivors
  /\ \A f \in survivors : FsOK(f, allowed)
  /\ fs.rollback # None /\ fs.target # None => OldKept
  /\ AtStep
-------------------------------------------------------------------------------
\* A volume without artifacts satisfies the invariant.
LEMMA ReliableInvInit == ReliableInit => ReliableInv
BY FileConstants
   DEF ReliableInit, ReliableInv, FsOK, FileSystems, AtStep, Possible, Logical, OldKept,
       Recovered, Durable

USE DEF Goto, Keep, Local

\* The operations of the backend keep what a crash may leave in order: each on
\* every survivor, under the condition that the call relies on.
LEMMA UnlinkTargetOK ==
  ASSUME NEW A, NEW f, FsOK(f, A), f.rollback # None
  PROVE  FsOK([f EXCEPT !["target"] = None], A)
BY FileConstants DEF FsOK, FileSystems, Logical

RestoreRollback(f) ==
  IF f["rollback"] = None THEN f
  ELSE [f EXCEPT !["target"] = f["rollback"], !["rollback"] = None]
\* Recovery that puts the rollback copy back.
LEMMA RestoreRollbackOK ==
  ASSUME NEW A, NEW f, FsOK(f, A)
  PROVE  FsOK(RestoreRollback(f), A)
BY FileConstants DEF FsOK, FileSystems, Logical, RestoreRollback

\* Recovery that removes a committed artifact.
LEMMA UnlinkCommittedOK ==
  ASSUME NEW A, NEW f, FsOK(f, A)
  PROVE  FsOK([f EXCEPT !["committed"] = None], A)
BY FileConstants DEF FsOK, FileSystems, Logical

\* Recovery that removes what was staged.
LEMMA StagingOK ==
  ASSUME NEW A, NEW f, FsOK(f, A), NEW v \in Contents \cup {None, Partial}
  PROVE  FsOK([f EXCEPT !.staging = v], A)
BY FileConstants DEF FsOK, FileSystems, Logical

\* What the operations on the volume leave alone.
LEMMA FsFields ==
  ASSUME NEW A, NEW f, FsOK(f, A)
  PROVE  /\ f.target \in Contents \cup {None} /\ f.rollback \in Contents \cup {None}
         /\ f.committed \in Contents \cup {None}
         /\ f = [target |-> f.target, staging |-> f.staging,
                 rollback |-> f.rollback, committed |-> f.committed]
BY DEF FsOK, FileSystems

\* One step per operation of replace().
LEMMA ReliableInvNext == ReliableInv /\ [ReliableNext]_reliable_vars => ReliableInv'
<1> SUFFICES ASSUME ReliableInv, [ReliableNext]_reliable_vars PROVE ReliableInv'
  OBVIOUS
<1> USE FileConstants
<1>0. /\ fs \in survivors /\ FsOK(fs, allowed) /\ \A f \in survivors : FsOK(f, allowed)
      /\ \A f \in survivors : f.committed = None \/ f.rollback = None
  BY DEF ReliableInv, FsOK
<1>1. ASSUME NEW c \in Contents, BeginReplace(c) PROVE ReliableInv'
  BY <1>1 DEF BeginReplace, ReliableInv, FsOK, AtStep, Possible, OldKept
<1>2. CASE Recover
  BY <1>0, <1>2 DEF Recover, RecoveryStep, ReliableInv, AtStep, OldKept, Recovered
<1>3. CASE RecoverUnlink
  BY <1>0, <1>3, UnlinkTargetOK, FsFields
     DEF RecoverUnlink, UnlinkArtifact, Mutate, ReliableInv, AtStep, OldKept
<1>4. CASE RecoverRename \/ UndoRename
  BY <1>0, <1>4, RestoreRollbackOK, FsFields
     DEF RecoverRename, UndoRename, RenameArtifact, RestoreRollback, Mutate, ReliableInv, AtStep, OldKept, Recovered
<1>5. CASE RecoverSync
  BY <1>0, <1>5 DEF RecoverSync, Sync, ReliableInv, AtStep, OldKept, Recovered
<1>6. CASE UndoUnlink
  BY <1>0, <1>6, UnlinkTargetOK, FsFields
     DEF UndoUnlink, UnlinkArtifact, Mutate, ReliableInv, AtStep, OldKept
<1>7. CASE UndoSync
  BY <1>0, <1>7 DEF UndoSync, Sync, ReliableInv, AtStep, OldKept
<1>8. CASE RetireArtifact
  BY <1>0, <1>8, UnlinkCommittedOK, FsFields
     DEF RetireArtifact, UnlinkArtifact, Mutate, ReliableInv, AtStep, OldKept, Recovered, FsOK
<1>9. CASE Unstage
  BY <1>0, <1>9, StagingOK, FsFields
     DEF Unstage, UnlinkArtifact, Mutate, ReliableInv, AtStep, OldKept, Recovered
<1>10. CASE UnstageSync \/ WriteSync
  BY <1>0, <1>10 DEF UnstageSync, WriteSync, Sync, ReliableInv, AtStep, OldKept, Recovered, Durable
<1>11. CASE CreateArtifact
  BY <1>0, <1>11, StagingOK, FsFields
     DEF CreateArtifact, Mutate, ReliableInv, AtStep, OldKept, Recovered
<1>12. CASE Write
  BY <1>0, <1>12, StagingOK, FsFields
     DEF Write, Mutate, ReliableInv, AtStep, OldKept, Recovered
<1>13. CASE Backup
  <2>1. survivors = {fs} /\ Recovered /\ fs.staging = data /\ data \in Contents /\ data \in allowed
    BY <1>13 DEF Backup, ReliableInv, AtStep, Durable
  <2>2. CASE pc' # "backup_sync"
    BY <1>0, <1>13, <2>1, <2>2, Zenon DEF Backup, RenameArtifact, ReliableInv, AtStep, Recovered, Durable, OldKept
  <2>3. CASE pc' = "backup_sync"
    <3> DEFINE aside == [fs EXCEPT !["rollback"] = fs["target"], !["target"] = None]
    <3>1. /\ fs.target # None /\ fs' = aside /\ target_present'
          /\ survivors' = survivors \cup
               {IF f["target"] = None THEN f
                ELSE [f EXCEPT !["rollback"] = f["target"], !["target"] = None] : f \in survivors}
      BY <1>13, <2>3, Zenon DEF Backup, RenameArtifact, Mutate
    <3>2. survivors' = {fs, aside}
      BY <2>1, <3>1
    <3>3. /\ aside.rollback = fs.target /\ aside.target = None /\ aside.staging = data
          /\ FsOK(aside, allowed)
      BY <1>0, <2>1, <3>1 DEF FsOK, FileSystems, Logical, Recovered
    <3> HIDE DEF aside
    <3> QED BY <1>0, <1>13, <2>1, <2>3, <3>1, <3>2, <3>3 DEF Backup, ReliableInv, AtStep, OldKept
  <2> QED BY <2>2, <2>3
<1>14. CASE BackupSync
  BY <1>0, <1>14 DEF BackupSync, Sync, ReliableInv, AtStep, OldKept, Durable, FsOK
<1>15. CASE Publish
  BY <1>0, <1>15, FsFields
     DEF Publish, RenameArtifact, Mutate, ReliableInv, AtStep, OldKept, Durable, FsOK, FileSystems, Logical
<1>16. CASE PublishSync
  BY <1>0, <1>16 DEF PublishSync, Sync, ReliableInv, AtStep, OldKept, Durable, Possible, Logical
<1>17. CASE Mark
  BY <1>0, <1>17, FsFields
     DEF Mark, RenameArtifact, Mutate, ReliableInv, AtStep, OldKept, Durable, FsOK, FileSystems, Logical
<1>18. CASE MarkSync
  BY <1>0, <1>18 DEF MarkSync, Sync, ReliableInv, AtStep, OldKept, Durable
<1>19. CASE Drop
  BY <1>0, <1>19, UnlinkCommittedOK, FsFields
     DEF Drop, UnlinkArtifact, Mutate, ReliableInv, AtStep, OldKept, Durable
<1>20. CASE DropSync
  BY <1>0, <1>20 DEF DropSync, Sync, ReliableInv, AtStep, OldKept, Possible, Logical
<1>21. CASE ReturnReplace
  BY <1>0, <1>21 DEF ReturnReplace, ReliableInv, AtStep, OldKept, Possible, FsOK
<1>22. CASE Crash
  BY <1>0, <1>22 DEF Crash, ReliableInv, AtStep, OldKept, Possible, FsOK
<1>23. CASE UNCHANGED reliable_vars
  BY <1>23 DEF reliable_vars, ReliableInv, AtStep, OldKept, Recovered, Durable, Possible
<1> QED
  BY <1>1, <1>2, <1>3, <1>4, <1>5, <1>6, <1>7, <1>8, <1>9, <1>10, <1>11, <1>12, <1>13,
     <1>14, <1>15, <1>16, <1>17, <1>18, <1>19, <1>20, <1>21, <1>22, <1>23 DEF ReliableNext

\* The artifacts of an interrupted replace() stay recoverable.
LEMMA ReliableInvariance == ReliableSpec => []ReliableInv
BY ReliableInvInit, ReliableInvNext, PTL DEF ReliableSpec

\* What replace() leaves behind can always be recovered from, whatever failed and
\* wherever the machine stopped.
THEOREM ArtifactsStaySound == ReliableSpec => []ArtifactsSound
<1>1. ReliableInv => ArtifactsSound
  BY FileConstants DEF ReliableInv, AtStep, OldKept, FsOK, FileSystems, ArtifactsSound, ReliableTypeOK
<1> QED BY <1>1, ReliableInvariance, PTL

\* Every step of replace(), of its recovery and of a crash is a step of AtomicReplace,
\* or changes nothing that it shows.
LEMMA AtomicStep ==
  ReliableInv /\ [ReliableNext]_reliable_vars => [Atomic!Next]_(Atomic!vars)
<1> SUFFICES ASSUME ReliableInv, [ReliableNext]_reliable_vars PROVE [Atomic!Next]_(Atomic!vars)
  OBVIOUS
<1> USE FileConstants
<1>1. ReliableInv'
  BY ReliableInvNext
<1>2. /\ Possible(survivors)' # {} /\ Possible(survivors)' \subseteq allowed'
      /\ pc' = "ok" => Possible(survivors)' = {data'}
  BY <1>1 DEF ReliableInv, AtStep, FsOK, Possible
<1>3. ASSUME NEW c \in Contents, BeginReplace(c) PROVE Atomic!Begin(c)
  BY <1>3 DEF BeginReplace, Atomic!Begin, Possible, Phase
<1>4. CASE ReturnReplace
  BY <1>4 DEF ReturnReplace, Possible, Atomic!Next, Atomic!Return, Phase
<1>5. CASE Crash
  <2>1. PICK f \in survivors : fs' = f
    BY <1>5 DEF Crash
  <2>2. Possible(survivors)' = {Logical(f)} /\ allowed' = {Logical(f)} /\ data' = None /\ Phase' = "idle"
    BY <1>5, <2>1 DEF Crash, Possible, Phase
  <2>3. Logical(f) \in Possible(survivors)
    BY <2>1 DEF Possible
  <2> QED BY <2>2, <2>3 DEF Atomic!Next, Atomic!Crash
<1>6. CASE UNCHANGED reliable_vars
  BY <1>6 DEF reliable_vars, Atomic!vars, Possible, Phase
<1>7. ASSUME UNCHANGED <<data, allowed>>, Phase = "busy", pc' # "idle"
      PROVE  Atomic!Progress \/ Atomic!Succeed \/ Atomic!Fail
  BY <1>2, <1>7 DEF Atomic!Progress, Atomic!Succeed, Atomic!Fail, Atomic!OldOrNew, Phase
<1>8. ASSUME ReliableNext, ~(\E c \in Contents : BeginReplace(c)), ~ReturnReplace, ~Crash
      PROVE  UNCHANGED <<data, allowed>> /\ Phase = "busy" /\ pc' # "idle"
  BY <1>8
     DEF ReliableNext, Recover, RecoveryStep, RecoverUnlink, RecoverRename, RecoverSync, UndoUnlink,
         UndoRename, UndoSync, RetireArtifact, Unstage, UnstageSync, CreateArtifact, Write, WriteSync,
         Backup, BackupSync, Publish, PublishSync, Mark, MarkSync, Drop, DropSync,
         UnlinkArtifact, RenameArtifact, Sync, Phase
<1> QED BY <1>3, <1>4, <1>5, <1>6, <1>7, <1>8 DEF Atomic!Next

\* The call is atomic, durable when it reports Ok, and loses nothing when it fails or
\* the machine stops.
THEOREM ReplaceImplementsAtomic == ReliableSpec => ReplaceIsAtomic
<1>1. ReliableInit => Atomic!Init
  BY DEF ReliableInit, Atomic!Init, Possible, Logical, Phase
<1> QED BY <1>1, AtomicStep, ReliableInvariance, ArtifactsStaySound, PTL
        DEF ReliableSpec, ReplaceIsAtomic, Atomic!Spec
===============================================================================
