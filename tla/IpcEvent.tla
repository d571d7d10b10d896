------------------------------- MODULE IpcEvent -------------------------------
(***************************************************************************)
(* Waitable events (src/kernel/ipc/event.cpp).  Every public function runs *)
(* under g_state_lock, so it is one step.                                  *)
(*                                                                         *)
(* The grant array of a slot is the set of the processes with an open      *)
(* grant; the code reuses a grant entry as soon as it is closed, so only   *)
(* their number matters.  The last four variables are history: how often   *)
(* the present event of a slot was signalled and observed, whether reset() *)
(* was the last of signal() and reset(), and the grants made to a process  *)
(* after it exited.                                                        *)
(***************************************************************************)
EXTENDS Integers, FiniteSets, FiniteSetsExt

CONSTANTS
  Pids,           \* process identifiers
  NoPid,          \* INVALID_PROCESS_ID
  NEvents,        \* MAX_EVENTS
  EventGrants,    \* MAX_GRANTS_PER_EVENT
  EventCreates,   \* bound: a slot is used this often
  MaxSignals      \* bound: signal() succeeds this often on one event

ASSUME NoPidIsNone == NoPid \notin Pids
ASSUME EventCapacities ==
  {NEvents, EventGrants, EventCreates, MaxSignals} \subseteq Nat \ {0}

VARIABLES
  events,         \* g_events
  exited,         \* processes that went through KU_SYS_EXIT
  event_handles,  \* every handle returned so far
  raised, observed, lowered, late

Live == Pids \ exited

event_vars == <<events, exited, event_handles, raised, observed, lowered, late>>

Events == 1..NEvents
Modes == {"auto", "manual"}

FreeEvent(g) ==
  [active |-> FALSE, generation |-> g, owner |-> NoPid, mode |-> "auto",
   signaled |-> FALSE, owner_open |-> FALSE, grants |-> {}]

EventInit ==
  /\ events = [e \in Events |-> FreeEvent(0)]
  /\ exited = {} /\ event_handles = {}
  /\ raised = [e \in Events |-> 0] /\ observed = [e \in Events |-> 0]
  /\ lowered = [e \in Events |-> FALSE] /\ late = {}

-------------------------------------------------------------------------------
\* encode()
EventHandle(e, g) == [index |-> e, generation |-> g]

DecodesEvent(h) == events[h.index].active /\ events[h.index].generation = h.generation

CanAccess(ev, p) == (ev.owner = p /\ ev.owner_open) \/ p \in ev.grants

\* maybe_reclaim(): only the generation survives.
ReclaimEvent(ev) ==
  IF ev.owner_open \/ ev.grants # {} THEN ev ELSE FreeEvent(ev.generation)

CreateEvent(p, mode, signaled) ==
  /\ \E e \in Events : ~events[e].active
  /\ LET e == Min({f \in Events : ~events[f].active})
         g == events[e].generation + 1
     IN  /\ g <= EventCreates
         /\ events' = [events EXCEPT ![e] =
              [FreeEvent(g) EXCEPT !.active = TRUE, !.owner = p, !.owner_open = TRUE,
                                   !.mode = mode, !.signaled = signaled]]
         /\ event_handles' = event_handles \cup {EventHandle(e, g)}
         /\ raised' = [raised EXCEPT ![e] = IF signaled THEN 1 ELSE 0]
         /\ observed' = [observed EXCEPT ![e] = 0]
         /\ lowered' = [lowered EXCEPT ![e] = FALSE]
  /\ UNCHANGED <<exited, late>>

\* Nothing looks whether the target process exists, so q may have exited.
GrantEvent(p, h, q) ==
  /\ q # p
  /\ DecodesEvent(h)
  /\ LET ev == events[h.index] IN
       /\ ev.owner = p /\ ev.owner_open
       /\ q \notin ev.grants
       /\ Cardinality(ev.grants) < EventGrants
  /\ events' = [events EXCEPT ![h.index].grants = @ \cup {q}]
  /\ late' = IF q \in exited THEN late \cup {<<h, q>>} ELSE late
  /\ UNCHANGED <<exited, event_handles, raised, observed, lowered>>

Signal(p, h) ==
  /\ DecodesEvent(h) /\ CanAccess(events[h.index], p)
  /\ raised[h.index] < MaxSignals
  /\ events' = [events EXCEPT ![h.index].signaled = TRUE]
  /\ raised' = [raised EXCEPT ![h.index] = @ + 1]
  /\ lowered' = [lowered EXCEPT ![h.index] = FALSE]
  /\ UNCHANGED <<exited, event_handles, observed, late>>

Reset(p, h) ==
  /\ DecodesEvent(h) /\ CanAccess(events[h.index], p)
  /\ events' = [events EXCEPT ![h.index].signaled = FALSE]
  /\ lowered' = [lowered EXCEPT ![h.index] = TRUE]
  /\ UNCHANGED <<exited, event_handles, raised, observed, late>>

\* What a poll() that finds the event signalled leaves.  AfterPollKeeps is
\* a mutant.
AfterPollKeeps(ev) == ev
AfterPoll(ev) == [ev EXCEPT !.signaled = ev.mode # "auto"]

\* poll(); a poll of an event that is not signalled (WouldBlock) changes
\* nothing.  Only the observations of an auto-reset event are counted.
Poll(p, h) ==
  /\ DecodesEvent(h) /\ CanAccess(events[h.index], p)
  /\ events[h.index].signaled
  /\ events' = [events EXCEPT ![h.index] = AfterPoll(@)]
  /\ observed' = [observed EXCEPT ![h.index] =
                    IF events[h.index].mode = "auto" THEN @ + 1 ELSE 0]
  /\ UNCHANGED <<exited, event_handles, raised, lowered, late>>

\* The owner's own reference goes first.
CloseEvent(p, h) ==
  /\ DecodesEvent(h)
  /\ LET ev == events[h.index] IN
       /\ CanAccess(ev, p)
       /\ events' = [events EXCEPT ![h.index] =
            ReclaimEvent(IF ev.owner = p /\ ev.owner_open
                         THEN [ev EXCEPT !.owner_open = FALSE]
                         ELSE [ev EXCEPT !.grants = @ \ {p}])]
  /\ UNCHANGED <<exited, event_handles, raised, observed, lowered, late>>

DropEvent(ev, p) ==
  IF ~ev.active THEN ev
  ELSE ReclaimEvent([ev EXCEPT !.owner_open = @ /\ ev.owner # p,
                               !.grants = @ \ {p}])

ReleaseEvents(p) ==
  /\ exited' = exited \cup {p}
  /\ events' = [e \in Events |-> DropEvent(events[e], p)]
  /\ UNCHANGED <<event_handles, raised, observed, lowered, late>>

EventNext ==
  \E p \in Live :
    \/ \E mode \in Modes, signaled \in BOOLEAN : CreateEvent(p, mode, signaled)
    \/ \E h \in event_handles, q \in Pids : GrantEvent(p, h, q)
    \/ \E h \in event_handles : Signal(p, h)
    \/ \E h \in event_handles : Reset(p, h)
    \/ \E h \in event_handles : Poll(p, h)
    \/ \E h \in event_handles : CloseEvent(p, h)
    \/ ReleaseEvents(p)

EventSpec == EventInit /\ [][EventNext]_event_vars

-------------------------------------------------------------------------------
\* Every slot has the declared shape.
EventTypeOK ==
  /\ events \in [Events ->
       [active : BOOLEAN, generation : 0..EventCreates, owner : Pids \cup {NoPid},
        mode : Modes, signaled : BOOLEAN, owner_open : BOOLEAN, grants : SUBSET Pids]]
  /\ exited \subseteq Pids
  /\ event_handles \subseteq [index : Events, generation : 1..EventCreates]
  /\ raised \in [Events -> 0..MaxSignals] /\ observed \in [Events -> Nat]
  /\ late \subseteq event_handles \X Pids

\* An active slot has a reference and a free slot is blank but for its generation,
\* which is never below that of a handle given out: the slot comes back exactly
\* when the last close() or exit drops the last reference, and no old handle names
\* its next event.  The owner never holds a grant of its own event besides.
SlotFollowsReferences ==
  /\ EventTypeOK
  /\ \A e \in Events :
       LET ev == events[e] IN
       /\ ev.active <=> ev.owner_open \/ ev.grants # {}
       /\ ~ev.active => ev = FreeEvent(ev.generation)
       /\ Cardinality(ev.grants) <= EventGrants
       /\ ev.owner \notin ev.grants
       /\ \A h \in event_handles : h.index = e => h.generation <= ev.generation

\* "An auto-reset event consumes one observed signal": over the life of an
\* auto-reset event, the processes together observe it no more often than it
\* was signalled, however their calls interleave.  "A manual-reset event remains
\* signaled until an authorized process resets it": whoever polls it, it is
\* signalled exactly when it was signalled (or created so) and reset() has not
\* run since.
SignalsConserved ==
  \A e \in Events : events[e].active =>
    IF events[e].mode = "auto"
    THEN observed[e] + (IF events[e].signaled THEN 1 ELSE 0) <= raised[e]
    ELSE events[e].signaled <=> raised[e] > 0 /\ ~lowered[e]

\* release_process() leaves an exited process no reference, except the grants
\* the owner made to it afterwards.
ExitedKeepOnlyLateGrants ==
  \A e \in Events : events[e].active =>
    /\ events[e].owner_open => events[e].owner \notin exited
    /\ \A p \in events[e].grants \cap exited :
         <<EventHandle(e, events[e].generation), p>> \in late

\* What create(), grant(), poll(), close() and release_process() together promise
\* of the event table: its slots, its signals and its references are exact.
EventsExact == SlotFollowsReferences /\ SignalsConserved /\ ExitedKeepOnlyLateGrants
===============================================================================
