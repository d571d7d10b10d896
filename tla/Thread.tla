-------------------------------- MODULE Thread --------------------------------
(***************************************************************************)
(* The execution layer (src/kernel/task/thread.cpp) on the boot processor, *)
(* which runs all processes: the kernel loop calls run_preemptive_for, the *)
(* timer interrupt and the end of every system call switch threads.        *)
(* Composed with the policy of Scheduler2 and with the socket waiters of   *)
(* the runtime, whose pre-dispatch hook wakes blocked threads.             *)
(*                                                                         *)
(* Scheduler code runs with interrupts off, so one call is one step.  The  *)
(* timer may interrupt everything else; cpu.mode says what that is:        *)
(*   loop      the kernel loop, no thread                                  *)
(*   boot      a process thread in the kernel, before it enters Ring 3     *)
(*   user      Ring 3; doomed: Ring 3, at the exit trampoline              *)
(*   syscall   in a handler; return: the handler is done, the rescheduling *)
(*             hook is not                                                 *)
(*   halt      the hook, waiting for an interrupt                          *)
(*   exit, gone   after the exit system call; the address space released   *)
(*   kernel    a kernel thread                                             *)
(* A sleeping thread's wake tick and the ticks of a run are kept relative  *)
(* to the present tick.                                                    *)
(***************************************************************************)
EXTENDS Scheduler2, FiniteSetsExt

CONSTANTS
  NThreads,       \* MAX_THREADS
  MaxGen,         \* bound: threads created
  Limit,          \* maximum_timer_ticks of run_preemptive_for
  MaxSleep        \* longest sleep

ASSUME ThreadCapacities ==
  /\ {NThreads, MaxGen, Limit, MaxSleep} \subseteq Nat \ {0}
  /\ Threads = (1 .. NThreads) \X (1 .. MaxGen) /\ NoThread \notin Threads
  /\ NThreads <= NSlots /\ 0 \in Priorities

VARIABLES
  slots,          \* g_slots
  cpu,            \* g_cpu_execution of the boot processor
  waiters         \* g_socket_waiters: the identifiers of waiting threads

tvars == <<policy, cpu_count, slots, cpu, waiters>>

Slots == 1 .. NThreads
NoSlot == 0
EmptySlot(g) ==
  [state |-> "Empty", gen |-> g, process |-> FALSE, frame |-> "none", started |-> FALSE,
   wake |-> 0, yield |-> FALSE, space |-> FALSE]
Loop == [mode |-> "loop", current |-> NoSlot, elapsed |-> 0]

ThreadInit ==
  /\ PolicyInit
  /\ slots = [i \in Slots |-> EmptySlot(0)]
  /\ cpu = Loop
  /\ waiters = {}

-------------------------------------------------------------------------------
\* The scheduler's operators work on the slots and the policy together.
World == [slots |-> slots, policy |-> policy]
Id(W, i) == <<i, W.slots[i].gen>>

\* scheduler_state()
PolicyState(s) == IF s \in {"Ready", "Running"} THEN s ELSE "Waiting"

\* set_slot_state(), for a set of slots.
SetSlotStates(W, I, s) ==
  [slots |-> [i \in Slots |-> IF i \in I THEN [W.slots[i] EXCEPT !.state = s] ELSE W.slots[i]],
   policy |-> [W.policy EXCEPT !.stat =
                 [t \in Threads |-> IF W.policy.stat[t].used /\ \E i \in I : t = Id(W, i)
                                    THEN [W.policy.stat[t] EXCEPT !.state = PolicyState(s)]
                                    ELSE W.policy.stat[t]]]]
SetSlotState(W, i, s) == SetSlotStates(W, {i}, s)

\* find_ready(): the slot of the thread that the policy picks, or NoSlot; a pick
\* that the slot does not confirm is cancelled.
Excluded(W, i) == IF i = NoSlot THEN NoThread ELSE Id(W, i)
Found(W, previous) ==
  LET t == Picked(W.policy, OnlineCpus, 0, Excluded(W, previous)) IN
  IF t # NoThread /\ t = Id(W, t[1]) /\ W.slots[t[1]].state = "Ready" THEN t[1] ELSE NoSlot
FindReady(W, previous) ==
  LET t == Picked(W.policy, OnlineCpus, 0, Excluded(W, previous))
      picked == PickNext(W.policy, OnlineCpus, 0, Excluded(W, previous))
  IN  [W EXCEPT !.policy =
         IF t # NoThread /\ Found(W, previous) = NoSlot
         THEN CancelDispatch(picked, t, 0) ELSE picked]

\* wake_sleepers(), after the tick.  TickOnly is a mutant that wakes
\* nobody.
TickOnly(W) ==
  [W EXCEPT !.slots = [i \in Slots |-> [W.slots[i] EXCEPT !.wake = IF @ = 0 THEN 0 ELSE @ - 1]]]
TickAndWake(W) ==
  LET Due == {i \in Slots : W.slots[i].state = "Sleeping" /\ W.slots[i].wake <= 1}
      ticked == [W EXCEPT !.slots =
                   [i \in Slots |-> [W.slots[i] EXCEPT !.wake = IF i \in Due \/ @ = 0 THEN 0 ELSE @ - 1]]]
  IN  SetSlotStates(ticked, Due, "Ready")

\* reap_terminated(), slot by slot.
ReapTerminated(W) ==
  LET Dead == {i \in Slots : W.slots[i].state = "Terminated"} IN
  [slots |-> [i \in Slots |-> IF i \in Dead THEN EmptySlot(W.slots[i].gen) ELSE W.slots[i]],
   policy |-> UnregisterInTurn(W.policy, [i \in Dead |-> Id(W, i)], NThreads)]

\* The processor continues with the frame saved in slot i.
ModeOf(slot) ==
  CASE slot.frame = "boot" -> IF slot.process THEN "boot" ELSE "kernel"
    [] slot.frame = "user" -> "user"
    [] slot.frame = "doom" -> "doomed"
    [] OTHER -> "kernel"
SwitchTo(W, i, elapsed) ==
  LET V == SetSlotState(W, i, "Running") IN
  /\ slots' = V.slots /\ policy' = V.policy
  /\ cpu' = [mode |-> ModeOf(W.slots[i]), current |-> i, elapsed |-> elapsed]
Stay(W, mode, elapsed) ==
  /\ slots' = W.slots /\ policy' = W.policy
  /\ cpu' = [cpu EXCEPT !.mode = mode, !.elapsed = elapsed]
\* The run ends; run_preemptive_for() reaps before interrupts are enabled again.
ToLoop(W) ==
  LET V == ReapTerminated(W) IN slots' = V.slots /\ policy' = V.policy /\ cpu' = Loop
-------------------------------------------------------------------------------
\* create_for_process(), by the kernel loop or by a process in a system call.
\* Outside a run the frame is made by the next run.  CreateUnframed is a mutant
\* that never makes one.
Created == MapThenSumSet(LAMBDA i : slots[i].gen, Slots)
CreateUnframed(process) ==
  /\ cpu.mode \in {"loop", "syscall"}
  /\ LET W == ReapTerminated(World)
         Free == {i \in Slots : W.slots[i].state = "Empty"}
         i == Min(Free)
         t == <<i, W.slots[i].gen + 1>>
         running == cpu.mode # "loop"
     IN  /\ Free # {} /\ Created < MaxGen /\ t \in Threads
         /\ slots' = [W.slots EXCEPT ![i] =
              [EmptySlot(t[2]) EXCEPT !.state = "Ready", !.process = process, !.started = running]]
         /\ policy' = RegisterThread(W.policy, t, 0, OnlineCpus, 0)
  /\ cpu' = IF cpu.mode = "syscall" THEN [cpu EXCEPT !.mode = "return"] ELSE cpu
  /\ UNCHANGED <<cpu_count, waiters>>
Create(process) ==
  /\ cpu.mode \in {"loop", "syscall"}
  /\ LET W == ReapTerminated(World)
         Free == {i \in Slots : W.slots[i].state = "Empty"}
         i == Min(Free)
         t == <<i, W.slots[i].gen + 1>>
         running == cpu.mode # "loop"
     IN  /\ Free # {} /\ Created < MaxGen /\ t \in Threads
         /\ slots' = [W.slots EXCEPT ![i] =
              [EmptySlot(t[2]) EXCEPT !.state = "Ready", !.process = process, !.started = running,
                 !.frame = IF running THEN "boot" ELSE "none"]]
         /\ policy' = RegisterThread(W.policy, t, 0, OnlineCpus, 0)
  /\ cpu' = IF cpu.mode = "syscall" THEN [cpu EXCEPT !.mode = "return"] ELSE cpu
  /\ UNCHANGED <<cpu_count, waiters>>

\* socket_wait_pre_dispatch(): waiters of threads that are not blocked any more
\* are dropped, those in Done (ready, failed or timed out) wake their threads
\* with wake_user().
Awaited == {t \in waiters : Id(World, t[1]) = t /\ slots[t[1]].state = "Blocked"}
PreDispatch(Done) ==
  SetSlotStates(World, {t[1] : t \in {u \in Done : slots[u[1]].frame = "user"}}, "Ready")

\* run_preemptive_for(), up to the first thread.
RunPreemptiveFor(Done) ==
  LET W == ReapTerminated(PreDispatch(Done))
      first == Found(W, NoSlot)
      V == FindReady(W, NoSlot)
      Fresh == {i \in Slots : V.slots[i].state = "Ready" /\ ~V.slots[i].started}
      framed == [V EXCEPT !.slots = [i \in Slots |->
                  IF i \in Fresh THEN [V.slots[i] EXCEPT !.frame = "boot", !.started = TRUE]
                  ELSE V.slots[i]]]
  IN  /\ cpu.mode = "loop"
      /\ waiters' = Awaited \ Done
      /\ IF first = NoSlot THEN ToLoop(V) ELSE SwitchTo(framed, first, 0)
      /\ UNCHANGED cpu_count

-------------------------------------------------------------------------------
\* What a thread does in its own time.  cur is its slot.
cur == cpu.current
InMode(from, to) == cpu.mode = from /\ cpu' = [cpu EXCEPT !.mode = to]

\* runtime::run(): the address space is bound and the thread enters Ring 3, or
\* the image cannot be loaded.
EnterUser ==
  /\ InMode("boot", "user")
  /\ slots' = [slots EXCEPT ![cur].space = TRUE]
  /\ UNCHANGED <<policy, cpu_count, waiters>>
LoadFails ==
  /\ \E mode \in {"exit", "gone"} : InMode("boot", mode)
  /\ UNCHANGED <<slots, policy, cpu_count, waiters>>

EnterSyscall ==
  /\ InMode("user", "syscall")
  /\ UNCHANGED <<slots, policy, cpu_count, waiters>>

\* A handler that leaves the scheduler alone.
OtherCall ==
  /\ InMode("syscall", "return")
  /\ UNCHANGED <<slots, policy, cpu_count, waiters>>

\* request_yield()
RequestYield ==
  /\ InMode("syscall", "return")
  /\ slots' = [slots EXCEPT ![cur].yield = TRUE]
  /\ UNCHANGED <<policy, cpu_count, waiters>>

\* sleep_current()
SleepCurrent(n) ==
  /\ InMode("syscall", "return")
  /\ LET W == SetSlotState(World, cur, "Sleeping") IN
     slots' = [W.slots EXCEPT ![cur].wake = n] /\ policy' = W.policy
  /\ UNCHANGED <<cpu_count, waiters>>

\* KU_SYS_SOCKET_WAIT on a socket that is not ready: a waiter, then
\* block_current().
SocketWait ==
  /\ InMode("syscall", "return")
  /\ waiters' = waiters \cup {Id(World, cur)}
  /\ LET W == SetSlotState(World, cur, "Blocked") IN
     slots' = [W.slots EXCEPT ![cur].wake = 0, ![cur].yield = FALSE] /\ policy' = W.policy
  /\ UNCHANGED cpu_count

\* KU_SYS_TERMINATE_CHILD: request_termination() and redirect_user() make the
\* child continue at the exit trampoline, if it has a Ring 3 frame.
TerminateChild(i) ==
  /\ InMode("syscall", "return")
  /\ i # cur /\ slots[i].process
  /\ slots[i].state \notin {"Empty", "Terminated"} /\ slots[i].frame \in {"user", "doom"}
  /\ LET W == SetSlotState(World, i, "Ready") IN
     slots' = [W.slots EXCEPT ![i].frame = "doom", ![i].wake = 0] /\ policy' = W.policy
  /\ UNCHANGED <<cpu_count, waiters>>

\* KU_SYS_EXIT, also reached through a fault or the trampoline:
\* finish_from_interrupt() and retire_current_user_frame().
Exit ==
  /\ cpu.mode \in {"user", "doomed"} /\ cpu' = [cpu EXCEPT !.mode = "exit"]
  /\ slots' = IF slots[cur].state # "Running" THEN slots
              ELSE [slots EXCEPT ![cur].frame = "none", ![cur].wake = 0, ![cur].yield = FALSE]
  /\ UNCHANGED <<policy, cpu_count, waiters>>

\* runtime cleanup(): the waiter goes, bind_address_space(nullptr), then the
\* address space is destroyed.
Cleanup ==
  /\ InMode("exit", "gone")
  /\ waiters' = waiters \ {Id(World, cur)}
  /\ slots' = [slots EXCEPT ![cur].space = FALSE, ![cur].frame = "none",
                            ![cur].wake = 0, ![cur].yield = FALSE]
  /\ UNCHANGED <<policy, cpu_count>>
-------------------------------------------------------------------------------
\* exit_current() of a thread that has released everything.
ExitCurrent ==
  LET W == SetSlotState(World, cur, "Terminated")
      next == Found(W, cur)
      V == FindReady(W, cur)
  IN  /\ cpu.mode \in {"gone", "kernel"}
      /\ IF next = NoSlot THEN ToLoop(V) ELSE SwitchTo(V, next, cpu.elapsed)
      /\ UNCHANGED <<cpu_count, waiters>>

\* The loop of software_interrupt_schedule(), once: the time of the run is up, or
\* another thread runs, or this one goes on, or it is blocked and the run ends, or
\* it waits for an interrupt.
Reschedule(W, elapsed) ==
  LET old == W.slots[cur]
      next == Found(W, cur)
      V == FindReady(W, cur)
  IN  IF elapsed >= Limit
      THEN ToLoop(IF old.state = "Running" THEN SetSlotState(W, cur, "Ready") ELSE W)
      ELSE IF next # NoSlot THEN SwitchTo(V, next, elapsed)
      ELSE IF old.state = "Blocked" THEN ToLoop(V)
      ELSE IF old.state = "Sleeping" THEN Stay(V, "halt", elapsed)
      ELSE LET R == SetSlotState(V, cur, "Running") IN
           Stay([R EXCEPT !.slots[cur].wake = 0], "user", elapsed)

\* software_interrupt_schedule(): the Ring 3 frame is saved; a thread that is still
\* Running and did not ask to yield goes on.
SoftwareInterruptSchedule ==
  LET saved == [World EXCEPT !.slots[cur].frame = "user", !.slots[cur].yield = FALSE]
      asked == slots[cur].yield
      W == IF asked /\ slots[cur].state = "Running"
           THEN SetSlotState(saved, cur, "Ready") ELSE saved
  IN  /\ cpu.mode = "return"
      /\ IF ~asked /\ slots[cur].state = "Running"
         THEN Stay(saved, "user", cpu.elapsed)
         ELSE Reschedule(W, cpu.elapsed)
      /\ UNCHANGED <<cpu_count, waiters>>

-------------------------------------------------------------------------------
\* timer_irq_schedule().  It switches threads only from Ring 3 and from kernel
\* threads; a process in the kernel goes on.
Elapsed == IF cpu.mode = "loop" THEN 0 ELSE Min({cpu.elapsed + 1, Limit})
Interrupted == CASE cpu.mode = "user" -> "user" [] cpu.mode = "doomed" -> "doom" [] OTHER -> "kernel"

TimerInKernel ==
  /\ cpu.mode \in {"loop", "boot", "syscall", "return", "exit", "gone"}
  /\ Stay(TickAndWake(World), cpu.mode, Elapsed)
  /\ UNCHANGED <<cpu_count, waiters>>

TimerInHalt ==
  /\ cpu.mode = "halt"
  /\ Reschedule(TickAndWake(World), Elapsed)
  /\ UNCHANGED <<cpu_count, waiters>>

TimerPreempts ==
  LET W == [TickAndWake(World) EXCEPT !.slots[cur].frame = Interrupted]
      old == W.slots[cur]
      calm == [W EXCEPT !.slots[cur].yield = FALSE]
      next == Found(calm, cur)
      V == FindReady(calm, cur)
      aside == IF old.state = "Running" THEN SetSlotState(V, cur, "Ready") ELSE V
  IN  /\ cpu.mode \in {"user", "doomed", "kernel"}
      /\ IF Elapsed >= Limit
         THEN ToLoop(IF old.state = "Running" THEN SetSlotState(W, cur, "Ready") ELSE W)
         ELSE IF next # NoSlot THEN SwitchTo(aside, next, Elapsed)
         ELSE IF old.state = "Sleeping" THEN Stay(V, cpu.mode, Elapsed)
         ELSE Stay(SetSlotState(V, cur, "Running"), cpu.mode, Elapsed)
      /\ UNCHANGED <<cpu_count, waiters>>

Timer == TimerInKernel \/ TimerInHalt \/ TimerPreempts

-------------------------------------------------------------------------------
\* What the kernel does for a process in bounded time.
KernelStep ==
  \/ EnterUser \/ LoadFails
  \/ OtherCall \/ RequestYield \/ SocketWait
  \/ \E n \in 1 .. MaxSleep : SleepCurrent(n)
  \/ \E i \in Slots : TerminateChild(i)
  \/ Cleanup \/ (cpu.mode = "gone" /\ ExitCurrent)
  \/ SoftwareInterruptSchedule

ThreadNext ==
  \/ \E process \in BOOLEAN : Create(process)
  \/ \E Done \in SUBSET Awaited : RunPreemptiveFor(Done)
  \/ EnterSyscall \/ Exit \/ (cpu.mode = "kernel" /\ ExitCurrent)
  \/ KernelStep
  \/ Timer

ThreadSpec == ThreadInit /\ [][ThreadNext]_tvars

-------------------------------------------------------------------------------
(***************************************************************************)
(* Properties                                                              *)
(***************************************************************************)

\* Slots, processor and waiters have the declared kinds of values.
ThreadTypeOK ==
  /\ slots \in [Slots ->
       [state : States \cup {"Empty", "Blocked", "Sleeping", "Terminated"}, gen : 0 .. MaxGen,
        process : BOOLEAN, frame : {"none", "boot", "user", "doom", "kernel"}, started : BOOLEAN,
        wake : 0 .. MaxSleep, yield : BOOLEAN, space : BOOLEAN]]
  /\ cpu \in [mode : {"loop", "boot", "user", "doomed", "syscall", "return", "halt", "exit",
                      "gone", "kernel"}, current : Slots \cup {NoSlot}, elapsed : 0 .. Limit]
  /\ waiters \subseteq Threads

\* A thread that is not executing can be continued: it has a saved frame (or gets
\* its first one when the next run starts), and a Ring 3 frame is only kept while
\* its address space exists, so no switch returns into a released address space.
\* And no wakeup is lost: a blocked thread always has the waiter through which the
\* pre-dispatch hook wakes it.
Resumable ==
  \A i \in Slots :
    /\ slots[i].state \in {"Ready", "Sleeping", "Blocked"} /\ i # cur =>
         slots[i].frame # "none" \/ (~slots[i].started /\ cpu.mode = "loop")
    /\ slots[i].frame \in {"user", "doom"} => slots[i].space
    /\ slots[i].state = "Blocked" => Id(World, i) \in waiters

\* The two layers never disagree, whichever of the timer, the system calls and
\* the kernel loop moved a thread last: the policy knows exactly the threads that
\* have a slot, each in the state of its slot, so no pick of find_ready is ever
\* cancelled; and the queues hold exactly these threads.  One processor runs one
\* thread: a Running thread is the current one, and the current one is Running
\* wherever it executes outside a system call, so no reservation made by
\* find_ready is ever left behind.  And what does not execute is Resumable.
LayersAgree ==
  /\ ThreadTypeOK /\ QueuesMatchTable /\ Resumable
  /\ \A t \in Threads : policy.stat[t].used <=> (Id(World, t[1]) = t /\ slots[t[1]].state # "Empty")
  /\ \A i \in Slots : slots[i].state # "Empty" =>
       policy.stat[Id(World, i)].state = PolicyState(slots[i].state)
  /\ \A i \in Slots : slots[i].state = "Running" => i = cur
  /\ cpu.mode = "loop" <=> cur = NoSlot
  /\ cpu.mode \in {"boot", "user", "doomed", "exit", "gone", "kernel"} => slots[cur].state = "Running"

-------------------------------------------------------------------------------
\* The timer keeps ticking, also while Ring 3 or a kernel thread executes (strong
\* fairness of that interrupt); the kernel loop keeps calling run_preemptive_for;
\* the kernel ends what it does for a process.  The conditions are written out:
\* when the action is enabled and changes something.
InKernel == cpu.mode \in {"boot", "syscall", "return", "exit", "gone"}
Preemptible == cpu.mode \in {"user", "doomed", "kernel"}
TickMatters ==
  \/ Preemptible \/ cpu.mode = "halt"
  \/ InKernel /\ cpu.elapsed < Limit
  \/ \E i \in Slots : slots[i].state = "Sleeping"
ReadyWaits == cpu.mode = "loop" /\ \E i \in Slots : slots[i].state = "Ready"

ThreadFairness ==
  /\ []<>~TickMatters \/ []<><<Timer>>_tvars
  /\ <>[]~Preemptible \/ []<><<TimerPreempts>>_tvars
  /\ []<>~ReadyWaits \/ []<><<\E Done \in SUBSET Awaited : RunPreemptiveFor(Done)>>_tvars
  /\ []<>~InKernel \/ []<><<KernelStep>>_tvars

FairThreadSpec == ThreadSpec /\ ThreadFairness

\* The kernel loop (network, windows, input) gets the processor back again and
\* again, whatever the threads do: the limit of the run is enforced from Ring 3,
\* from the rescheduling hook and while the hook waits.
LoopRegains == []<>(cpu.mode = "loop")

\* No thread is forgotten: one that sleeps wakes up, and one that is Ready runs,
\* under the limited runs of the kernel loop and the round robin of the policy.
\* Nor is the kernel loop itself.
ThreadsProgress ==
  /\ LoopRegains
  /\ \A i \in Slots, waits \in {"Sleeping", "Ready"} :
       slots[i].state = waits ~> slots[i].state # waits
===============================================================================
