----------------------------- MODULE MCProcessors -----------------------------
(***************************************************************************)
(* An instance for TLC of what several processors do to each other: the    *)
(* ticket lock, work on all processors, TLB shootdown, and the users of    *)
(* the scheduling policy.  They share no state, so each is explored while  *)
(* the others rest in their initial state.  With the policy, either kernel *)
(* threads are executed (Dispatch), or no slot is in use and the policy    *)
(* alone is driven (Turns).                                                *)
(***************************************************************************)
EXTENDS TicketSpinLock, SmpWork, TlbShootdown, Dispatch

\* Three threads on two processors, each bound to one, as main.cpp binds its
\* probe threads.
Bound == [t \in {1, 2, 3} |-> {(t + 1) % 2}]

NoSlots == slot = [t \in Threads |-> "Empty"]

processors_vars == <<vars, work_vars, tlb_vars, dispatch_vars>>

ProcessorsInit == Init /\ WorkInit /\ TlbInit /\ DispatchInit

ProcessorsNext ==
  \/ Next /\ WorkInit /\ TlbInit /\ DispatchInit /\ UNCHANGED <<work_vars, tlb_vars, dispatch_vars>>
  \/ WorkNext /\ Init /\ TlbInit /\ DispatchInit /\ UNCHANGED <<vars, tlb_vars, dispatch_vars>>
  \/ TlbNext /\ Init /\ WorkInit /\ DispatchInit /\ UNCHANGED <<vars, work_vars, dispatch_vars>>
  \/ /\ Init /\ WorkInit /\ TlbInit
     /\ \/ (NoSlots => DispatchInit) /\ DispatchNext
        \/ NoSlots /\ Turns /\ UNCHANGED <<slot, saved_context, yields, cpu, solo>>
     /\ UNCHANGED <<vars, work_vars, tlb_vars>>

ProcessorsSpec ==
  /\ ProcessorsInit /\ [][ProcessorsNext]_processors_vars
  /\ Fairness /\ TlbFairness
  /\ \A c \in AllCpus : KeepsPicking(c)

\* Everybody's turn comes: a processor that drew a ticket in lock() gets the lock,
\* and a thread that is ready is picked by a processor that keeps picking.
TurnsCome == SpinnerEnters /\ NoStarvation
===============================================================================
