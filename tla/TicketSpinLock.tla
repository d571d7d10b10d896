---------------------------- MODULE TicketSpinLock ----------------------------
(***************************************************************************)
(* sync::TicketSpinLock (src/kernel/sync/spinlock.hpp), the lock behind    *)
(* every g_lock and g_policy_lock of the kernel's IPC, job and scheduling  *)
(* tables.  Each atomic access of the class is one step, so that lock(),   *)
(* try_lock() and unlock() of different processors interleave freely.      *)
(*                                                                         *)
(* Tickets have the width of the code's counters: they wrap at Wrap, which *)
(* is 2^32 in the code.  try_lock() compares two loads made at different   *)
(* times and then exchanges the second one, so a processor that is stopped *)
(* inside it for a whole turn of the counter would see its old value       *)
(* again.  fresh counts the tickets drawn while a processor is inside      *)
(* try_lock(), and WithinTurn bounds it; see README.md.                    *)
(***************************************************************************)
EXTENDS Integers, FiniteSets

CONSTANTS Cpus,     \* the processors that use the lock
          Wrap      \* the number of values of a uint32_t ticket

ASSUME CpusFinite == IsFiniteSet(Cpus)
ASSUME WrapLarge == Wrap \in Nat /\ Wrap > Cardinality(Cpus) + 1

VARIABLES next_ticket,  \* next_ticket_
          serving,      \* serving_
          pc,           \* where each processor is in the class
          ticket,       \* the local ticket (lock) or serving/next (try_lock)
          fresh         \* tickets drawn since try_lock() loaded serving_

vars == <<next_ticket, serving, pc, ticket, fresh>>

Tickets == 0..(Wrap - 1)
N == Cardinality(Cpus)

\* Mutants: a spin loop that does not wait, an unlock() that does not advance, and
\* a try_lock() that skips its comparison.
LeaveSpinAtOnce(c) ==
  /\ pc[c] = "spin"
  /\ pc' = [pc EXCEPT ![c] = "held"]
  /\ UNCHANGED <<next_ticket, serving, ticket, fresh>>
TryLoadNextUnchecked(c) ==
  /\ pc[c] = "loaded"
  /\ pc' = [pc EXCEPT ![c] = "cas"]
  /\ ticket' = [ticket EXCEPT ![c] = next_ticket]
  /\ UNCHANGED <<next_ticket, serving, fresh>>

Inc(x) == IF x = Wrap - 1 THEN 0 ELSE x + 1

Init ==
  /\ next_ticket = 0 /\ serving = 0
  /\ pc = [c \in Cpus |-> "idle"]
  /\ ticket = [c \in Cpus |-> 0]
  /\ fresh = [c \in Cpus |-> 0]

Trying(c) == pc[c] \in {"loaded", "cas"}

\* No processor stays inside try_lock() for a whole turn of the counter.
WithinTurn == \A c \in Cpus : Trying(c) => N + fresh[c] + 1 < Wrap

\* The effect of incrementing next_ticket_ by one, in lock() and in the
\* exchange of try_lock().
DrawTicket ==
  /\ WithinTurn
  /\ next_ticket' = Inc(next_ticket)
  /\ fresh' = [c \in Cpus |-> IF Trying(c) THEN fresh[c] + 1 ELSE 0]

Lock(c) ==
  /\ pc[c] = "idle"
  /\ DrawTicket
  /\ ticket' = [ticket EXCEPT ![c] = next_ticket]
  /\ pc' = [pc EXCEPT ![c] = "spin"]
  /\ UNCHANGED serving

LeaveSpin(c) ==
  /\ pc[c] = "spin"
  /\ serving = ticket[c]
  /\ pc' = [pc EXCEPT ![c] = "held"]
  /\ UNCHANGED <<next_ticket, serving, ticket, fresh>>

TryLoadServing(c) ==
  /\ pc[c] = "idle"
  /\ pc' = [pc EXCEPT ![c] = "loaded"]
  /\ ticket' = [ticket EXCEPT ![c] = serving]
  /\ fresh' = [fresh EXCEPT ![c] = 0]
  /\ UNCHANGED <<next_ticket, serving>>

TryLoadNext(c) ==
  /\ pc[c] = "loaded"
  /\ pc' = [pc EXCEPT ![c] = IF next_ticket = ticket[c] THEN "cas" ELSE "idle"]
  /\ UNCHANGED <<next_ticket, serving, ticket, fresh>>

TryExchange(c) ==
  /\ pc[c] = "cas"
  /\ next_ticket = ticket[c]
  /\ DrawTicket
  /\ pc' = [pc EXCEPT ![c] = "held"]
  /\ UNCHANGED <<serving, ticket>>

TryExchangeFails(c) ==
  /\ pc[c] = "cas"
  /\ next_ticket # ticket[c]
  /\ pc' = [pc EXCEPT ![c] = "idle"]
  /\ UNCHANGED <<next_ticket, serving, ticket, fresh>>

Unlock(c) ==
  /\ pc[c] = "held"
  /\ serving' = Inc(serving)
  /\ pc' = [pc EXCEPT ![c] = "idle"]
  /\ UNCHANGED <<next_ticket, ticket, fresh>>

Next ==
  \E c \in Cpus :
    \/ Lock(c) \/ LeaveSpin(c) \/ Unlock(c)
    \/ TryLoadServing(c) \/ TryLoadNext(c)
    \/ TryExchange(c) \/ TryExchangeFails(c)

\* The spin loop and the short critical sections it protects run on; a
\* processor need never ask for the lock again.
Fairness ==
  \A c \in Cpus : WF_vars(LeaveSpin(c)) /\ WF_vars(Unlock(c))

Spec == Init /\ [][Next]_vars /\ Fairness

-------------------------------------------------------------------------------
\* Every counter is a uint32_t and every processor is at a point of the class.
TypeOK ==
  /\ next_ticket \in Tickets /\ serving \in Tickets
  /\ pc \in [Cpus -> {"idle", "spin", "held", "loaded", "cas"}]
  /\ ticket \in [Cpus -> Tickets]
  /\ fresh \in [Cpus -> Nat]

\* At most one processor is between a lock() or successful try_lock() and its
\* unlock(), also across the wrap of the counters.
MutualExclusion ==
  \A c, d \in Cpus : pc[c] = "held" /\ pc[d] = "held" => c = d

\* A processor that drew a ticket in lock() eventually leaves the spin loop.
SpinnerEnters ==
  \A c \in Cpus : pc[c] = "spin" ~> pc[c] = "held"

-------------------------------------------------------------------------------
\* How far ticket y is ahead of ticket x, going round the counter.
Ahead(x, y) == IF y >= x THEN y - x ELSE y - x + Wrap

Waiting == {c \in Cpus : pc[c] \in {"spin", "held"}}

\* The inductive invariant behind MutualExclusion: the drawn tickets from
\* serving_ to next_ticket_ belong to different processors, one each, and what
\* a try_lock() loaded is still less than a turn behind next_ticket_.
TicketInv ==
  /\ Ahead(serving, next_ticket) = Cardinality(Waiting)
  /\ \A c \in Waiting : Ahead(serving, ticket[c]) < Ahead(serving, next_ticket)
  /\ \A c, d \in Waiting : ticket[c] = ticket[d] => c = d
  /\ \A c \in Cpus : pc[c] = "held" => ticket[c] = serving
  /\ \A c \in Cpus : Trying(c) =>
       /\ Ahead(ticket[c], next_ticket)
            = Ahead(ticket[c], serving) + Ahead(serving, next_ticket)
       /\ Ahead(ticket[c], next_ticket) <= N + fresh[c]
       /\ N + fresh[c] < Wrap

\* Refinement: the processors that drew a ticket, in ticket order.
Queue ==
  [i \in 1..Ahead(serving, next_ticket) |->
     CHOOSE c \in Waiting : Ahead(serving, ticket[c]) = i - 1]

Fifo == INSTANCE FifoLock
          WITH queue <- Queue, holders <- {c \in Cpus : pc[c] = "held"}

\* The lock is first come, first served: a ticket drawn earlier is served
\* earlier, and a try_lock() never overtakes a waiting processor.
FifoSpec == Fifo!AbsSpec
===============================================================================
