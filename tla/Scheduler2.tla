------------------------------ MODULE Scheduler2 ------------------------------
(***************************************************************************)
(* The scheduling policy (src/kernel/task/scheduler2.cpp): the thread      *)
(* table and one run queue per processor, under g_policy_lock, so every    *)
(* public function is one step.                                            *)
(*                                                                         *)
(* The functions are operators on a policy record, so that the execution   *)
(* layer (module Thread) can use them several times in one of its steps.   *)
(* A queue keeps every registered thread of its processor, whatever its    *)
(* state; the cursor is 0-based.  Dispatch, steal and migration counters   *)
(* are left out.                                                           *)
(***************************************************************************)
EXTENDS Integers, Sequences, FiniteSets, Functions

CONSTANTS
  Threads,        \* thread identifiers
  NCpus,          \* MAX_CPUS
  NSlots,         \* MAX_SCHEDULABLE_THREADS
  MAX_PRIORITY,
  Priorities,     \* the priorities threads are given
  NoThread        \* INVALID_THREAD_ID

ASSUME PolicyCapacities ==
  /\ {NCpus, NSlots} \subseteq Nat \ {0}
  /\ MAX_PRIORITY \in Nat /\ Priorities \subseteq 0 .. MAX_PRIORITY

VARIABLES
  policy,         \* g_threads and g_queues
  cpu_count       \* g_cpu_count

pvars == <<policy, cpu_count>>

AllCpus == 0 .. NCpus - 1
OnlineCpus == 0 .. cpu_count - 1
\* Blocked, Sleeping and Terminated are one to the policy: not to be dispatched.
States == {"Ready", "Running", "Waiting"}

Unused ==
  [used |-> FALSE, state |-> "Ready", priority |-> 0, affinity |-> {}, home |-> 0, last |-> NCpus]
Empty == [ids |-> <<>>, cursor |-> 0]

\* configure()
PolicyInit ==
  /\ cpu_count = 1
  /\ policy = [stat |-> [t \in Threads |-> Unused], queue |-> [c \in AllCpus |-> Empty]]

-------------------------------------------------------------------------------
Registered(P) == {t \in Threads : P.stat[t].used}
Count(P, c) == Len(P.queue[c].ids)

QueueContains(q, t) == \E i \in 1 .. Len(q.ids) : q.ids[i] = t

\* queue_add(): the cursor of a queue that was empty starts at 0.
QueueAdd(q, t) ==
  IF QueueContains(q, t) THEN q
  ELSE [ids |-> Append(q.ids, t), cursor |-> IF q.ids = <<>> THEN 0 ELSE q.cursor]

\* queue_remove(): later entries move down, the cursor only if it falls off the
\* end.
QueueRemove(q, t) ==
  LET index == CHOOSE i \in DOMAIN q.ids : q.ids[i] = t /\ \A j \in 1 .. i - 1 : q.ids[j] # t
      count == Len(q.ids) - 1
  IN  IF ~QueueContains(q, t) THEN q
      ELSE [ids |-> [i \in 1 .. count |-> IF i < index THEN q.ids[i] ELSE q.ids[i + 1]],
            cursor |-> IF count = 0 THEN 0
                       ELSE IF q.cursor >= count THEN q.cursor % count ELSE q.cursor]

\* choose_home(): the preferred processor if the affinity allows it, otherwise
\* the first of the least loaded ones it allows.
ChooseHome(P, affinity, preferred) ==
  IF preferred \in affinity THEN preferred
  ELSE CHOOSE c \in affinity : \A d \in affinity :
         Count(P, c) < Count(P, d) \/ (Count(P, c) = Count(P, d) /\ c <= d)

\* The thread at an offset from the cursor of queue c.
PolicyAt(P, c, offset) ==
  P.queue[c].ids[((P.queue[c].cursor + offset) % Count(P, c)) + 1]

\* Thread t, waiting in some queue, may be dispatched on processor c.
Dispatchable(P, t, c, excluded) ==
  /\ t # excluded /\ P.stat[t].used
  /\ P.stat[t].state = "Ready" /\ c \in P.stat[t].affinity

\* select_from_queue(): the offset of the first thread of the highest priority;
\* -1 if there is none.
Eligible(P, c, excluded) ==
  {o \in 0 .. Count(P, c) - 1 : Dispatchable(P, PolicyAt(P, c, o), c, excluded)}
SelectOffset(P, c, excluded) ==
  LET E == Eligible(P, c, excluded)
      Priority(o) == P.stat[PolicyAt(P, c, o)].priority
  IN  IF E = {} THEN -1
      ELSE CHOOSE o \in E : \A q \in E :
             Priority(o) > Priority(q) \/ (Priority(o) = Priority(q) /\ o <= q)

\* select_steal_candidate(): processors in order, each from its cursor, the
\* first thread of the highest priority.
Candidates(P, cs, c, excluded) ==
  {co \in (cs \ {c}) \X (0 .. NSlots - 1) :
     co[2] < Count(P, co[1]) /\ Dispatchable(P, PolicyAt(P, co[1], co[2]), c, excluded)}
StealCandidate(P, cs, c, excluded) ==
  LET C == Candidates(P, cs, c, excluded)
      Priority(co) == P.stat[PolicyAt(P, co[1], co[2])].priority
      Before(x, y) == x[1] < y[1] \/ (x[1] = y[1] /\ x[2] <= y[2])
      best == CHOOSE x \in C : \A y \in C :
                Priority(x) > Priority(y) \/ (Priority(x) = Priority(y) /\ Before(x, y))
  IN  PolicyAt(P, best[1], best[2])

\* Thread t moves to the queue of processor c.
Migrate(P, t, c) ==
  LET donor == P.stat[t].home
      removed == [P.queue EXCEPT ![donor] = QueueRemove(@, t)]
  IN  [stat |-> [P.stat EXCEPT ![t].home = c],
       queue |-> [removed EXCEPT ![c] = QueueAdd(@, t)]]

-------------------------------------------------------------------------------
\* The functions of the interface, on a policy record; cs is the set of online
\* processors.
RegisterThread(P, t, priority, affinity, preferred) ==
  LET home == ChooseHome(P, affinity, preferred) IN
  [stat |-> [P.stat EXCEPT ![t] =
              [used |-> TRUE, state |-> "Ready", priority |-> priority,
               affinity |-> affinity, home |-> home, last |-> NCpus]],
   queue |-> [P.queue EXCEPT ![home] = QueueAdd(@, t)]]

UnregisterThread(P, t) ==
  IF ~P.stat[t].used THEN P
  ELSE [stat |-> [P.stat EXCEPT ![t] = Unused],
        queue |-> [P.queue EXCEPT ![P.stat[t].home] = QueueRemove(@, t)]]

\* The loop of reap_terminated() over n slots of the execution layer; dead[k] is
\* the thread of slot k, for the slots that are Terminated.
UnregisterInTurn(P, dead, n) ==
  LET upto[k \in 0 .. n] ==
        IF k = 0 THEN P
        ELSE IF k \in DOMAIN dead THEN UnregisterThread(upto[k - 1], dead[k]) ELSE upto[k - 1]
  IN  upto[n]

SetState(P, t, state) ==
  IF ~P.stat[t].used THEN P ELSE [P EXCEPT !.stat[t].state = state]

SetAffinity(P, t, affinity) ==
  LET Q == [P EXCEPT !.stat[t].affinity = affinity] IN
  IF P.stat[t].home \in affinity THEN Q
  ELSE Migrate(Q, t, ChooseHome(Q, affinity, NCpus))

SetPriority(P, t, priority) == [P EXCEPT !.stat[t].priority = priority]

\* The selected thread becomes Running in the same step: a reservation.
\* CursorStays is a mutant that forgets to advance the cursor.
CursorStays(P, c, excluded) ==
  LET t == PolicyAt(P, c, SelectOffset(P, c, excluded)) IN
  [P EXCEPT !.stat[t].state = "Running", !.stat[t].last = c]
Dispatch(P, c, excluded) ==
  LET offset == SelectOffset(P, c, excluded)
      t == PolicyAt(P, c, offset)
  IN  [stat |-> [P.stat EXCEPT ![t] = [@ EXCEPT !.state = "Running", !.last = c]],
       queue |-> [P.queue EXCEPT ![c].cursor = (@ + offset + 1) % Count(P, c)]]

\* pick_next(): a thread of the local queue, otherwise one stolen from another
\* processor.  Picked is the thread, NoThread if there is none.
Picked(P, cs, c, excluded) ==
  IF Eligible(P, c, excluded) # {} THEN PolicyAt(P, c, SelectOffset(P, c, excluded))
  ELSE IF Candidates(P, cs, c, excluded) # {} THEN StealCandidate(P, cs, c, excluded)
  ELSE NoThread
\* StealKeepsHome is a mutant that runs a stolen thread from its old queue.
StealKeepsHome(P, cs, c, excluded) ==
  IF Eligible(P, c, excluded) # {} THEN Dispatch(P, c, excluded)
  ELSE IF Candidates(P, cs, c, excluded) # {}
  THEN LET t == StealCandidate(P, cs, c, excluded) IN
       [P EXCEPT !.stat[t].state = "Running", !.stat[t].last = c, !.stat[t].home = c]
  ELSE P
PickNext(P, cs, c, excluded) ==
  IF Eligible(P, c, excluded) # {} THEN Dispatch(P, c, excluded)
  ELSE IF Candidates(P, cs, c, excluded) # {}
  THEN Dispatch(Migrate(P, StealCandidate(P, cs, c, excluded), c), c, excluded)
  ELSE P

CancelDispatch(P, t, c) ==
  IF P.stat[t].used /\ P.stat[t].state = "Running" /\ P.stat[t].last = c
  THEN SetState(P, t, "Ready") ELSE P

-------------------------------------------------------------------------------
\* One call of each function, by any thread or processor.
Masks == (SUBSET OnlineCpus) \ {{}}

Register(t, priority, affinity, preferred) ==
  /\ ~policy.stat[t].used /\ Cardinality(Registered(policy)) < NSlots
  /\ policy' = RegisterThread(policy, t, priority, affinity, preferred)
  /\ UNCHANGED cpu_count

Unregister(t) ==
  /\ t \in Registered(policy)
  /\ policy' = UnregisterThread(policy, t)
  /\ UNCHANGED cpu_count

ChangeState(t, state) ==
  /\ t \in Registered(policy)
  /\ policy' = SetState(policy, t, state)
  /\ UNCHANGED cpu_count

ChangeAffinity(t, affinity) ==
  /\ t \in Registered(policy)
  /\ policy' = SetAffinity(policy, t, affinity)
  /\ UNCHANGED cpu_count

ChangePriority(t, priority) ==
  /\ t \in Registered(policy)
  /\ policy' = SetPriority(policy, t, priority)
  /\ UNCHANGED cpu_count

Pick(c, excluded) ==
  /\ policy' = PickNext(policy, OnlineCpus, c, excluded)
  /\ UNCHANGED cpu_count

Cancel(t, c) ==
  /\ policy' = CancelDispatch(policy, t, c)
  /\ UNCHANGED cpu_count

\* expand_cpu_count(): the queues of the new processors start empty.
ExpandCpuCount(n) ==
  /\ n > cpu_count
  /\ cpu_count' = n
  /\ policy' = [policy EXCEPT !.queue =
                  [c \in AllCpus |-> IF c \in cpu_count .. n - 1 THEN Empty ELSE @[c]]]

PolicyNext ==
  \/ \E t \in Threads, p \in Priorities, m \in Masks, c \in AllCpus \cup {NCpus} :
       Register(t, p, m, c)
  \/ \E t \in Threads : Unregister(t)
  \/ \E t \in Threads, s \in States : ChangeState(t, s)
  \/ \E t \in Threads, m \in Masks : ChangeAffinity(t, m)
  \/ \E t \in Threads, p \in Priorities : ChangePriority(t, p)
  \/ \E c \in OnlineCpus, x \in Threads \cup {NoThread} : Pick(c, x)
  \/ \E t \in Threads, c \in OnlineCpus : Cancel(t, c)
  \/ \E n \in 1 .. NCpus : ExpandCpuCount(n)

PolicySpec == PolicyInit /\ [][PolicyNext]_pvars

-------------------------------------------------------------------------------
(***************************************************************************)
(* Properties                                                              *)
(***************************************************************************)

\* Every thread has a state, a priority, an affinity and a home of the declared
\* kinds; every queue holds at most as many threads as the table, so queue_add
\* never reports QueueFull.
PolicyTypeOK ==
  /\ cpu_count \in 1 .. NCpus
  /\ policy.stat \in [Threads ->
       [used : BOOLEAN, state : States, priority : Priorities \cup {0},
        affinity : SUBSET AllCpus, home : AllCpus, last : AllCpus \cup {NCpus}]]
  /\ \A c \in AllCpus : Range(policy.queue[c].ids) \subseteq Threads
                        /\ Len(policy.queue[c].ids) <= NSlots

\* The thread table and the queues agree through registration, migration,
\* stealing and changes of affinity: each registered thread stands exactly once,
\* in the queue of its home processor, which is online and in its affinity; no
\* other thread stands in a queue; a cursor points into its queue.
QueuesMatchTable ==
  /\ PolicyTypeOK
  /\ \A c \in AllCpus :
       LET q == policy.queue[c] IN
       /\ IsInjective(q.ids)
       /\ Range(q.ids) = {t \in Registered(policy) : policy.stat[t].home = c}
       /\ q.cursor < Len(q.ids) \/ q = Empty
  /\ \A t \in Registered(policy) :
       policy.stat[t].home \in policy.stat[t].affinity /\ policy.stat[t].affinity \subseteq OnlineCpus

\* What pick_next promises, in terms of the thread table alone: if some thread
\* may run on the processor, exactly one of them becomes Running there.  It is of
\* the highest priority among those at home on the processor, and only when
\* there are none of these is it of the highest priority among all of them.
PickIsBest ==
  \A c \in OnlineCpus, x \in Threads \cup {NoThread} :
    LET D == {t \in Registered(policy) : /\ t # x /\ policy.stat[t].state = "Ready"
                                         /\ c \in policy.stat[t].affinity}
        Local == {t \in D : policy.stat[t].home = c}
        Pool == IF Local # {} THEN Local ELSE D
        best == {t \in Pool : \A u \in Pool : policy.stat[t].priority >= policy.stat[u].priority}
        after == PickNext(policy, OnlineCpus, c, x)
    IN  IF D = {} THEN after = policy
        ELSE \E t \in best :
               after.stat = [policy.stat EXCEPT
                               ![t] = [@ EXCEPT !.state = "Running", !.last = c, !.home = c]]

\* Tables and queues agree, and whatever led to them, the next pick is the best.
PolicyExact == QueuesMatchTable /\ PickIsBest
===============================================================================
