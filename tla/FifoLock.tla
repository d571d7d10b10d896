------------------------------- MODULE FifoLock -------------------------------
(***************************************************************************)
(* What sync::TicketSpinLock promises its callers: the processors that     *)
(* asked for the lock form a queue, only the head of the queue holds it,   *)
(* and a try_lock joins the queue only when nobody is in it.               *)
(***************************************************************************)
EXTENDS Naturals, Sequences

CONSTANT Cpus       \* the processors that use the lock

VARIABLES queue,    \* processors that asked for the lock, oldest first
          holders   \* processors inside the critical section

absVars == <<queue, holders>>

AbsInit == queue = <<>> /\ holders = {}

Queued == {queue[i] : i \in 1..Len(queue)}

Request(c) ==
  /\ c \notin Queued
  /\ queue' = Append(queue, c)
  /\ UNCHANGED holders

Grant(c) ==
  /\ queue # <<>> /\ Head(queue) = c /\ c \notin holders
  /\ holders' = holders \cup {c}
  /\ UNCHANGED queue

GrantAtOnce(c) ==
  /\ queue = <<>>
  /\ queue' = <<c>>
  /\ holders' = holders \cup {c}

Return(c) ==
  /\ c \in holders
  /\ holders' = holders \ {c}
  /\ queue' = Tail(queue)

AbsNext == \E c \in Cpus : Request(c) \/ Grant(c) \/ GrantAtOnce(c) \/ Return(c)

AbsSpec == AbsInit /\ [][AbsNext]_absVars
===============================================================================
