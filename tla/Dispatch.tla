------------------------------- MODULE Dispatch -------------------------------
(***************************************************************************)
(* Cooperative execution of kernel threads on several processors           *)
(* (src/kernel/task/thread.cpp): create() and set_affinity() before a run, *)
(* run_dispatch_once() in a rendezvous, run_until_idle() on the boot       *)
(* processor outside of one, yield() and exit_current().  Each processor   *)
(* disables only its own interrupts, so the steps of one function that     *)
(* others can see are separate here.                                       *)
(*                                                                         *)
(* A thread is its slot, 1 .. MAX_THREADS; what it has done is the number  *)
(* of times it has yielded, and a saved context is that number at the      *)
(* moment of saving.                                                       *)
(***************************************************************************)
EXTENDS Scheduler2

CONSTANTS
  Affinity,       \* the affinity each thread is given after its creation
  Budgets,        \* switch budgets of run_until_idle()
  MaxYields       \* bound: yields of one thread

\* MAX_THREADS is no more than MAX_SCHEDULABLE_THREADS, and a thread is bound to
\* one processor, as main.cpp binds those it runs in a rendezvous.
ASSUME DispatchCapacities ==
  /\ Cardinality(Threads) \in 1 .. NSlots /\ Threads = 1 .. Cardinality(Threads)
  /\ NoThread \notin Threads /\ 1 \in Priorities
  /\ \A t \in Threads : \E c \in AllCpus : Affinity[t] = {c}

VARIABLES
  slot,           \* State of each thread's slot
  saved_context,  \* saved context.stack_pointer of each thread
  yields,         \* how often each thread has yielded
  cpu,            \* each processor: its step, the thread whose stack it runs on,
                  \* the thread it has chosen, how far its thread got, its budget
  solo            \* the boot processor is in run_until_idle(): no rendezvous

dispatch_vars == <<policy, cpu_count, slot, saved_context, yields, cpu, solo>>

Boot == [pc |-> "boot", thread |-> NoThread, next |-> NoThread, pos |-> 0, budget |-> 0, switches |-> 0]

DispatchInit ==
  /\ cpu_count = NCpus
  /\ policy = [stat |-> [t \in Threads |-> Unused], queue |-> [c \in AllCpus |-> Empty]]
  /\ slot = [t \in Threads |-> "Empty"]
  /\ saved_context = [t \in Threads |-> 0] /\ yields = [t \in Threads |-> 0]
  /\ cpu = [c \in AllCpus |-> Boot] /\ solo = FALSE

-------------------------------------------------------------------------------
\* reap_terminated(): the loop over the slots, of which D are Terminated; and
\* what it leaves of the policy, the slots, and the context and the yields in them.
Dead == {t \in Threads : slot[t] = "Terminated"}
ReapedBy(P, D) == UnregisterInTurn(P, [t \in D |-> t], Cardinality(Threads))
Reaped == ReapedBy(policy, Dead)
Cleared(f, D, value) == [t \in Threads |-> IF t \in D THEN value ELSE f[t]]
Reap ==
  /\ slot' = Cleared(slot, Dead, "Empty")
  /\ saved_context' = Cleared(saved_context, Dead, 0) /\ yields' = Cleared(yields, Dead, 0)

\* create() and set_affinity(), on the boot processor while no thread runs: the
\* first empty slot, if there is one.
Create ==
  LET free == {t \in Threads : slot[t] \in {"Empty", "Terminated"}}
      t == CHOOSE u \in free : \A v \in free : u <= v
  IN  /\ \A c \in AllCpus : cpu[c].pc = "boot"
      /\ IF free = {} THEN UNCHANGED <<policy, slot, saved_context, yields>>
         ELSE /\ policy' = SetAffinity(RegisterThread(Reaped, t, 1, AllCpus, 0), t, Affinity[t])
              /\ slot' = [Cleared(slot, Dead, "Empty") EXCEPT ![t] = "Ready"]
              /\ saved_context' = Cleared(saved_context, Dead, 0) /\ yields' = Cleared(yields, Dead, 0)
      /\ UNCHANGED <<cpu_count, cpu, solo>>

\* The first half of find_ready(): pick_next() reserves a thread.
Reserve(P, c, r, excluded) ==
  /\ Picked(P, OnlineCpus, c, excluded) # NoThread
  /\ policy' = PickNext(P, OnlineCpus, c, excluded)
  /\ cpu' = [cpu EXCEPT ![c] = [r EXCEPT !.pc = "picked", !.next = Picked(P, OnlineCpus, c, excluded)]]

Finds(P, c, excluded) == Picked(P, OnlineCpus, c, excluded) # NoThread

\* run_dispatch_once().
RunDispatchOnce(c) ==
  /\ cpu[c].pc = "boot" /\ ~solo
  /\ Reserve(policy, c, [Boot EXCEPT !.budget = 1, !.switches = 1], NoThread)
  /\ UNCHANGED <<cpu_count, slot, saved_context, yields, solo>>

\* run_until_idle(), on the boot processor while the others wait for work.
RunUntilIdle(budget) ==
  /\ \A c \in AllCpus : cpu[c].pc = "boot"
  /\ Reap
  /\ \/ /\ Reserve(Reaped, 0, [Boot EXCEPT !.budget = budget, !.switches = 1], NoThread)
        /\ solo' = TRUE
     \/ /\ ~Finds(Reaped, 0, NoThread)
        /\ policy' = Reaped /\ UNCHANGED <<cpu, solo>>
  /\ UNCHANGED cpu_count

\* The second half of find_ready(): the slot must be Ready too, or the
\* reservation is cancelled.
Accept(c) ==
  LET r == cpu[c]
      current == r.thread
      ok == slot[r.next] = "Ready"
      idle == current = NoThread
      exiting == ~idle /\ slot[current] = "Terminated"
      then == IF ok THEN (IF idle \/ exiting THEN "switch" ELSE "leave")
              ELSE IF idle THEN "boot" ELSE IF exiting THEN "switch" ELSE "run"
  IN  /\ r.pc = "picked"
      /\ cpu' = [cpu EXCEPT ![c] = IF then = "boot" THEN Boot
                                   ELSE [r EXCEPT !.pc = then, !.next = IF ok THEN @ ELSE NoThread]]
      /\ policy' = IF ok THEN policy ELSE CancelDispatch(policy, r.next, c)
      /\ solo' = (solo /\ then # "boot")
      /\ UNCHANGED <<cpu_count, slot, saved_context, yields>>

\* yield() up to switch_to() or switch_to_boot().
Yield(c) ==
  LET r == [cpu[c] EXCEPT !.pos = @ + 1]
      t == r.thread
      spent == r.switches >= r.budget
  IN  /\ cpu[c].pc = "run" /\ yields[t] < MaxYields
      /\ yields' = [yields EXCEPT ![t] = @ + 1]
      /\ \/ /\ spent
            /\ cpu' = [cpu EXCEPT ![c] = [r EXCEPT !.pc = "leave"]]
            /\ UNCHANGED policy
         \/ /\ ~spent /\ ~Finds(policy, c, t)
            /\ cpu' = [cpu EXCEPT ![c] = r]
            /\ UNCHANGED policy
         \/ ~spent /\ Reserve(policy, c, r, t)
      /\ UNCHANGED <<cpu_count, slot, saved_context, solo>>

\* exit_current() up to switch_to() or switch_to_boot().
ExitCurrent(c) ==
  LET r == cpu[c]
      P == SetState(policy, r.thread, "Waiting")
  IN  /\ r.pc = "run"
      /\ slot' = [slot EXCEPT ![r.thread] = "Terminated"]
      /\ \/ r.switches < r.budget /\ Reserve(P, c, r, r.thread)
         \/ /\ r.switches >= r.budget \/ ~Finds(P, c, r.thread)
            /\ cpu' = [cpu EXCEPT ![c].pc = "switch"]
            /\ policy' = P
      /\ UNCHANGED <<cpu_count, saved_context, yields, solo>>

\* set_slot_state(old, Ready): the slot, then the policy.
Leave(c) ==
  /\ cpu[c].pc = "leave"
  /\ slot' = [slot EXCEPT ![cpu[c].thread] = "Ready"]
  /\ cpu' = [cpu EXCEPT ![c].pc = "offer"]
  /\ UNCHANGED <<policy, cpu_count, saved_context, yields, solo>>

Offer(c) ==
  /\ cpu[c].pc = "offer"
  /\ policy' = SetState(policy, cpu[c].thread, "Ready")
  /\ cpu' = [cpu EXCEPT ![c].pc = "switch"]
  /\ UNCHANGED <<cpu_count, slot, saved_context, yields, solo>>

\* x86_64_thread_context_switch(): the old context is saved, the chosen one
\* loaded; or control returns to the caller of the run.
\* SwitchWithoutSave is a mutant that does not save.
SwitchWithoutSave(c) ==
  LET r == cpu[c] IN
  /\ r.pc = "switch" /\ r.next # NoThread
  /\ slot' = [slot EXCEPT ![r.next] = "Running"]
  /\ policy' = SetState(policy, r.next, "Running")
  /\ cpu' = [cpu EXCEPT ![c] = [r EXCEPT !.pc = "run", !.thread = r.next, !.next = NoThread,
                                  !.pos = saved_context[r.next]]]
  /\ UNCHANGED <<cpu_count, saved_context, yields, solo>>
SwitchTo(c) ==
  LET r == cpu[c] IN
  /\ r.pc = "switch" /\ r.next # NoThread
  /\ slot' = [slot EXCEPT ![r.next] = "Running"]
  /\ policy' = SetState(policy, r.next, "Running")
  /\ saved_context' = IF r.thread = NoThread THEN saved_context ELSE [saved_context EXCEPT ![r.thread] = r.pos]
  /\ cpu' = [cpu EXCEPT ![c] = [r EXCEPT !.pc = "run", !.thread = r.next, !.next = NoThread,
                                  !.pos = saved_context[r.next],
                                  !.switches = IF r.thread = NoThread THEN @ ELSE @ + 1]]
  /\ UNCHANGED <<cpu_count, yields, solo>>

\* The context of an exited thread is saved too, and cleared with its slot.
SwitchToBoot(c) ==
  LET r == cpu[c]
      saved == [saved_context EXCEPT ![r.thread] = r.pos]
  IN  /\ r.pc = "switch" /\ r.next = NoThread
      /\ cpu' = [cpu EXCEPT ![c] = Boot]
      /\ IF solo
         THEN /\ policy' = Reaped /\ slot' = Cleared(slot, Dead, "Empty")
              /\ saved_context' = Cleared(saved, Dead, 0) /\ yields' = Cleared(yields, Dead, 0)
         ELSE saved_context' = saved /\ UNCHANGED <<policy, slot, yields>>
      /\ solo' = FALSE
      /\ UNCHANGED cpu_count

-------------------------------------------------------------------------------
DispatchNext ==
  \/ \E c \in AllCpus :
       \/ RunDispatchOnce(c) \/ Accept(c) \/ Yield(c) \/ ExitCurrent(c)
       \/ Leave(c) \/ Offer(c) \/ SwitchTo(c) \/ SwitchToBoot(c)
  \/ Create
  \/ \E b \in Budgets : RunUntilIdle(b)

DispatchSpec == DispatchInit /\ [][DispatchNext]_dispatch_vars

-------------------------------------------------------------------------------
(***************************************************************************)
(* Properties                                                              *)
(***************************************************************************)

\* No two processors ever execute on one thread's stack: run_dispatch_once() is
\* said to be safe to invoke concurrently from a rendezvous.
OneOnStack ==
  \A c, d \in AllCpus : c # d /\ cpu[c].thread # NoThread => cpu[c].thread # cpu[d].thread

\* A thread continues where it left off: whichever processors it has been on, and
\* however it was left, the context loaded is the one saved last.
ContinuesWhereLeft ==
  \A c \in AllCpus : cpu[c].pc = "run" => cpu[c].pos = yields[cpu[c].thread]

\* A slot is cleared only when no processor is on its stack any more: the reason
\* run_dispatch_once() performs no global reap pass, and main.cpp reaps only after
\* the rendezvous.
ReapedOffStack ==
  \A c \in AllCpus : cpu[c].thread # NoThread => slot[cpu[c].thread] # "Empty"

\* A thread's stack belongs to the processor that executes it: no other runs on
\* it, nobody clears it under the thread, and whoever continues the thread does
\* so where it was left last.
StackExclusive == OneOnStack /\ ContinuesWhereLeft /\ ReapedOffStack

-------------------------------------------------------------------------------
(***************************************************************************)
(* The fairness of pick_next (src/kernel/task/scheduler2.cpp) among        *)
(* threads of one priority, any of which may run on every processor:       *)
(* threads come, go, wait and wake, and every processor keeps picking.     *)
(* Affinities and priorities do not change here: a caller that moves a     *)
(* thread whenever its turn comes keeps it from ever running.              *)
(***************************************************************************)

Waits(P, t) == P.stat[t].used /\ P.stat[t].state = "Ready"

Turns ==
  \/ \E t \in Threads, p \in Priorities, c \in OnlineCpus : Register(t, p, OnlineCpus, c)
  \/ \E t \in Threads : Unregister(t)
  \/ \E t \in Threads, s \in {"Ready", "Waiting"} : ChangeState(t, s)
  \/ \E c \in OnlineCpus : Pick(c, NoThread)

\* The scheduling loop of every processor calls pick_next again and again: weak
\* fairness of Pick, with what enables it written out.
CanPick(c) ==
  Eligible(policy, c, NoThread) # {} \/ Candidates(policy, OnlineCpus, c, NoThread) # {}
KeepsPicking(c) == []<>~CanPick(c) \/ []<><<Pick(c, NoThread)>>_pvars

\* A thread that stays Ready is dispatched in the end, whatever other threads of
\* its priority register, leave, wait and wake meanwhile, and although removing a
\* thread from the queue does not move the cursor with the entries behind it.
NoStarvation == \A t \in Threads : Waits(policy, t) ~> ~Waits(policy, t)
===============================================================================
