------------------------------- MODULE MCThread -------------------------------
(***************************************************************************)
(* An instance for TLC of what has to go on for ever: threads on the boot  *)
(* processor, the periodic tasks of the kernel loop, and the services that *)
(* init supervises.  They share no state, so each is explored while the    *)
(* others rest in their initial state.                                     *)
(***************************************************************************)
EXTENDS Thread, TaskScheduler, Supervisor

ThreadIds == (1 .. NThreads) \X (1 .. MaxGen)

\* Two of the services of init's table.
TwoServices == <<"eventd", "settingsd">>

loops_vars == <<tvars, task_vars, supervisor_vars>>

LoopsInit == ThreadInit /\ TasksInit /\ SupervisorInit

TaskStep(A) == A /\ ThreadInit /\ SupervisorInit /\ UNCHANGED <<tvars, supervisor_vars>>
SupervisorStep(A) == A /\ ThreadInit /\ TasksInit /\ UNCHANGED <<tvars, task_vars>>

LoopsNext ==
  \/ ThreadNext /\ TasksInit /\ SupervisorInit /\ UNCHANGED <<task_vars, supervisor_vars>>
  \/ TaskStep(TasksNext)
  \/ SupervisorStep(SupervisorNext)

LoopsSpec ==
  /\ LoopsInit /\ [][LoopsNext]_loops_vars
  /\ ThreadFairness
  /\ WF_loops_vars(TaskStep(RunStep))
  /\ WF_loops_vars(SupervisorStep(InitStep))
===============================================================================
