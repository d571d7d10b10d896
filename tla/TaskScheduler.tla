---------------------------- MODULE TaskScheduler ----------------------------
(***************************************************************************)
(* The older cooperative scheduler (src/kernel/task/scheduler.cpp): tasks  *)
(* are callbacks that run_pending() calls, periodic or once, and tick() is *)
(* the interrupt that finds the releases that are due.  The task side is   *)
(* cut where an interrupt can tell the difference: between an atomic       *)
(* exchange and the compare-and-swap that follows it, and between the      *)
(* writes of create() and resume() and the store that publishes them.      *)
(* tick() interrupts, so it is one step.  A callback may call everything.  *)
(* Counters for statistics are left out; ticks wrap around at TickSpace.   *)
(***************************************************************************)
EXTENDS Naturals, FiniteSets

CONSTANTS
  MAX_TASKS, TickSpace, Periods, Budget,
  TickSteps,                    \* how far the clock moves from one tick() to the next
  MaxTaskTicks, MaxTaskCalls, MaxTaskGenerations   \* bounds

TaskSlots == 0..(MAX_TASKS - 1)
MAX_FORWARD_TICK_DELTA == TickSpace \div 2 - 1

VARIABLES
  tasks,            \* g_tasks
  g_now, g_dispatch_cursor,
  run,              \* run_pending(): where it is, its task, and callbacks executed
  call,             \* create() or resume() between its writes and its publication
  claimed,          \* history: tasks released, and not claimed since
  spent_tasks

task_vars == <<tasks, g_now, g_dispatch_cursor, run, call, claimed, spent_tasks>>

EmptyTask(generation) ==
  [state |-> "Empty", pending |-> FALSE, cancel |-> FALSE, suspend |-> FALSE, yield |-> FALSE,
   id |-> <<>>, generation |-> generation, period |-> 0, next_release |-> 0]

NotActive == [at |-> "idle", slot |-> 0, executed |-> 0]
NoTaskCall == [op |-> "none"]

TasksInit ==
  /\ tasks = [i \in TaskSlots |-> EmptyTask(0)]
  /\ g_now = 0 /\ g_dispatch_cursor = 0
  /\ run = NotActive /\ call = NoTaskCall
  /\ claimed = [i \in TaskSlots |-> FALSE]
  /\ spent_tasks = [ticks |-> 0, calls |-> 0]

Plus(a, b) == (a + b) % TickSpace
Minus(a, b) == (a + TickSpace - b) % TickSpace

TimeReached(current, deadline) == Minus(current, deadline) <= MAX_FORWARD_TICK_DELTA

\* mark_due_releases(): the periods that ran out make one release.
\* MarkDueReleases_waiting is a mutant that looks at waiting tasks only.
DueAt(t, current) ==
  t.state \notin {"Empty", "Suspended"} /\ t.period # 0 /\ TimeReached(current, t.next_release)
Released(t, current) ==
  [t EXCEPT !.next_release = Plus(@, (Minus(current, @) \div t.period + 1) * t.period),
            !.pending = TRUE, !.state = IF @ = "Waiting" THEN "Ready" ELSE @]
MarkDueReleases(t, current) == IF DueAt(t, current) THEN Released(t, current) ELSE t

-------------------------------------------------------------------------------
\* tick(): any time, also in the middle of everything else.  A clock that goes
\* back is refused.
Tick(step) ==
  /\ spent_tasks.ticks < MaxTaskTicks
  /\ spent_tasks' = [spent_tasks EXCEPT !.ticks = @ + 1]
  /\ LET current == Plus(g_now, step) IN
     /\ Minus(current, g_now) <= MAX_FORWARD_TICK_DELTA
     /\ g_now' = current
     /\ tasks' = [i \in TaskSlots |-> MarkDueReleases(tasks[i], current)]
     /\ claimed' = [i \in TaskSlots |-> claimed[i] \/ DueAt(tasks[i], current)]
  /\ UNCHANGED <<g_dispatch_cursor, run, call>>

\* run_pending() claims the next ready task from the cursor on.  Nothing else
\* claims tasks, so the compare-and-swap that ends the claim succeeds.
\* ReadyFrom_first is a mutant that always starts at the first slot.
ReadyFrom_first(i) == tasks[i].state = "Ready" /\ \A j \in 0..(i - 1) : tasks[j].state # "Ready"
ReadyFrom(i) ==
  \E k \in 0..(MAX_TASKS - 1) :
    /\ i = (g_dispatch_cursor + k) % MAX_TASKS /\ tasks[i].state = "Ready"
    /\ \A j \in 0..(k - 1) : tasks[(g_dispatch_cursor + j) % MAX_TASKS].state # "Ready"

ClaimNextReady(i) ==
  /\ run.at = "idle" /\ run.executed < Budget /\ call = NoTaskCall /\ ReadyFrom(i)
  /\ tasks' = [tasks EXCEPT ![i].pending = FALSE]
  /\ claimed' = [claimed EXCEPT ![i] = FALSE]
  /\ run' = [run EXCEPT !.at = "claim", !.slot = i]
  /\ UNCHANGED <<g_now, g_dispatch_cursor, call, spent_tasks>>

StartCallback ==
  /\ run.at = "claim"
  /\ tasks' = [tasks EXCEPT ![run.slot] =
       [@ EXCEPT !.state = "Running", !.cancel = FALSE, !.suspend = FALSE, !.yield = FALSE]]
  /\ g_dispatch_cursor' = (run.slot + 1) % MAX_TASKS
  /\ run' = [run EXCEPT !.at = "callback"]
  /\ UNCHANGED <<g_now, call, claimed, spent_tasks>>

\* The callback returns: cancelled, suspended, completed or waiting again.
Settled(t) == IF t.pending /\ t.state = "Waiting" THEN [t EXCEPT !.state = "Ready"] ELSE t

EndCallback ==
  /\ run.at = "callback" /\ call = NoTaskCall
  /\ LET t == tasks[run.slot]
         kept == [t EXCEPT !.cancel = FALSE, !.suspend = FALSE, !.yield = FALSE, !.pending = @ \/ t.yield]
         retired == t.cancel \/ (~t.suspend /\ t.period = 0 /\ ~kept.pending)
     IN  /\ tasks' = [tasks EXCEPT ![run.slot] =
              IF retired THEN EmptyTask(t.generation)
              ELSE [kept EXCEPT !.state = IF t.suspend THEN "Suspended" ELSE "Waiting"]]
         /\ claimed' = [claimed EXCEPT ![run.slot] = @ /\ ~retired]
         /\ run' = [run EXCEPT !.at = IF retired \/ t.suspend THEN "idle" ELSE "promote", !.executed = @ + 1]
  /\ UNCHANGED <<g_now, g_dispatch_cursor, call, spent_tasks>>

Promote ==
  /\ run.at = "promote"
  /\ tasks' = [tasks EXCEPT ![run.slot] = Settled(@)]
  /\ run' = [run EXCEPT !.at = "idle"]
  /\ UNCHANGED <<g_now, g_dispatch_cursor, call, claimed, spent_tasks>>

\* run_pending() returns, and the main loop calls it again.
EndRun ==
  /\ run.at = "idle" /\ run.executed > 0
  /\ run.executed = Budget \/ \A i \in TaskSlots : ~ReadyFrom(i)
  /\ run' = NotActive
  /\ UNCHANGED <<tasks, g_now, g_dispatch_cursor, call, claimed, spent_tasks>>

-------------------------------------------------------------------------------
\* The calls of the main loop, between two runs, and of callbacks.
MayCall ==
  /\ call = NoTaskCall /\ (run = NotActive \/ run.at = "callback")
  /\ spent_tasks.calls < MaxTaskCalls
  /\ spent_tasks' = [spent_tasks EXCEPT !.calls = @ + 1]
Current(i) == run.at = "callback" /\ run.slot = i

\* create() takes the first empty slot and fills it; then it stores the state
\* and looks again at the clock.
CreateTask(period) ==
  /\ MayCall
  /\ \E i \in TaskSlots :
       /\ tasks[i].state = "Empty" /\ \A j \in 0..(i - 1) : tasks[j].state # "Empty"
       /\ tasks[i].generation < MaxTaskGenerations
       /\ LET g == tasks[i].generation + 1 IN
          call' = [op |-> "create", slot |-> i,
                   task |-> [EmptyTask(g) EXCEPT !.id = <<i, g>>, !.period = period,
                             !.next_release = IF period = 0 THEN 0 ELSE Plus(g_now, period),
                             !.pending = period = 0]]
  /\ UNCHANGED <<tasks, g_now, g_dispatch_cursor, run, claimed>>

PublishTask ==
  /\ call.op = "create"
  /\ LET t == [call.task EXCEPT !.state = IF call.task.period = 0 THEN "Ready" ELSE "Waiting"] IN
     /\ tasks' = [tasks EXCEPT ![call.slot] = MarkDueReleases(t, g_now)]
     /\ claimed' = [claimed EXCEPT ![call.slot] = t.pending \/ DueAt(t, g_now)]
  /\ call' = NoTaskCall
  /\ UNCHANGED <<g_now, g_dispatch_cursor, run, spent_tasks>>

\* cancel(), suspend() and resume() find the task by its id; a running task can
\* only be told so by itself.
FoundTask(id) == {i \in TaskSlots : tasks[i].state # "Empty" /\ tasks[i].id = id}

CancelTask(id) ==
  /\ MayCall
  /\ \E i \in FoundTask(id) :
       IF tasks[i].state = "Running"
       THEN /\ Current(i) /\ tasks' = [tasks EXCEPT ![i].cancel = TRUE] /\ UNCHANGED claimed
       ELSE /\ tasks' = [tasks EXCEPT ![i] = EmptyTask(@.generation)]
            /\ claimed' = [claimed EXCEPT ![i] = FALSE]
  /\ UNCHANGED <<g_now, g_dispatch_cursor, run, call>>

SuspendTask(id) ==
  /\ MayCall
  /\ \E i \in FoundTask(id) :
       \/ /\ tasks[i].state = "Running" /\ Current(i)
          /\ tasks' = [tasks EXCEPT ![i].suspend = TRUE]
       \/ /\ tasks[i].state \in {"Ready", "Waiting"}
          /\ tasks' = [tasks EXCEPT ![i].state = "Suspended"]
  /\ UNCHANGED <<g_now, g_dispatch_cursor, run, call, claimed>>

ResumeTask(id) ==
  /\ MayCall
  /\ \E i \in FoundTask(id) :
       \/ /\ tasks[i].state = "Running" /\ Current(i) /\ tasks[i].suspend
          /\ tasks' = [tasks EXCEPT ![i].suspend = FALSE] /\ UNCHANGED call
       \/ /\ tasks[i].state = "Suspended"
          /\ tasks' = [tasks EXCEPT ![i].next_release = Plus(g_now, tasks[i].period),
                                    ![i].pending = @ \/ tasks[i].period = 0]
          /\ call' = [op |-> "resume", slot |-> i]
  /\ UNCHANGED <<g_now, g_dispatch_cursor, run, claimed>>

PublishResumed ==
  /\ call.op = "resume"
  /\ LET t == tasks[call.slot]
         waiting == [t EXCEPT !.state = "Waiting"]
     IN  /\ tasks' = [tasks EXCEPT ![call.slot] =
              IF t.pending THEN [t EXCEPT !.state = "Ready"] ELSE MarkDueReleases(waiting, g_now)]
         /\ claimed' = [claimed EXCEPT ![call.slot] = @ \/ (~t.pending /\ DueAt(waiting, g_now))]
  /\ call' = NoTaskCall
  /\ UNCHANGED <<g_now, g_dispatch_cursor, run, spent_tasks>>

\* yield() asks for another run of the running task; it takes no call from the
\* bound, so that a task may yield for ever.
YieldTask ==
  /\ run.at = "callback" /\ call = NoTaskCall
  /\ ~tasks[run.slot].cancel /\ ~tasks[run.slot].yield
  /\ tasks' = [tasks EXCEPT ![run.slot].yield = TRUE]
  /\ UNCHANGED <<g_now, g_dispatch_cursor, run, call, claimed, spent_tasks>>

\* reset() is refused while run_pending() runs.
ResetTasks ==
  /\ MayCall /\ run = NotActive
  /\ tasks' = [i \in TaskSlots |-> EmptyTask(tasks[i].generation)]
  /\ g_now' = 0 /\ g_dispatch_cursor' = 0
  /\ claimed' = [i \in TaskSlots |-> FALSE]
  /\ UNCHANGED <<run, call>>

TaskIds == TaskSlots \X (1..MaxTaskGenerations)

RunStep ==
  \/ \E i \in TaskSlots : ClaimNextReady(i)
  \/ StartCallback
  \/ EndCallback
  \/ Promote
  \/ EndRun
  \/ PublishTask
  \/ PublishResumed

TasksNext ==
  \/ RunStep
  \/ \E step \in TickSteps : Tick(step)
  \/ \E period \in Periods : CreateTask(period)
  \/ \E id \in TaskIds : CancelTask(id) \/ SuspendTask(id) \/ ResumeTask(id)
  \/ YieldTask
  \/ ResetTasks

TasksSpec == TasksInit /\ [][TasksNext]_task_vars

\* The main loop (main.cpp) calls run_pending() for ever, and callbacks return.
TasksFair == TasksSpec /\ WF_task_vars(RunStep)

-------------------------------------------------------------------------------
\* The declared shapes.
TasksTypeOK ==
  /\ g_now \in 0..(TickSpace - 1) /\ g_dispatch_cursor \in TaskSlots /\ run.executed \in 0..Budget
  /\ \A i \in TaskSlots : LET t == tasks[i] IN
       /\ t.state \in {"Empty", "Waiting", "Ready", "Running", "Suspended"}
       /\ t.state # "Empty" => t.id = <<i, t.generation>>

\* No interleaving of ticks with the calls loses a release: until it is claimed
\* for a run, a release stays pending, also when it is found while the task
\* runs, is suspended, resumed or created, or between the exchange and the
\* compare-and-swap of a claim.  A task is ready just when it has something to
\* run for, and one task at most is running, the one run_pending() called.
NoReleaseLost ==
  /\ TasksTypeOK
  /\ \A i \in TaskSlots : LET t == tasks[i] IN
       /\ claimed[i] => t.pending
       /\ t.state = "Ready" => t.pending \/ (run.at = "claim" /\ run.slot = i)
       /\ t.state = "Waiting" /\ t.pending => run.at = "promote" /\ run.slot = i
       /\ t.state = "Running" <=> run.at = "callback" /\ run.slot = i

\* Round robin: a task that has something to run for runs, whatever the others
\* do (yield for ever, run at every tick), unless it is cancelled or suspended;
\* and no release is lost.
PendingTasksRun ==
  /\ []NoReleaseLost
  /\ \A i \in TaskSlots :
       (tasks[i].state = "Ready") ~>
         ((run.at = "callback" /\ run.slot = i) \/ tasks[i].state \in {"Empty", "Suspended"})
===============================================================================
