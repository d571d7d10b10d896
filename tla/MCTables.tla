------------------------------- MODULE MCTables -------------------------------
(***************************************************************************)
(* An instance for TLC of the tables that processes refer to by handles:   *)
(* waitable events, shared memory and jobs.  The tables have nothing in    *)
(* common but the processes, so a behaviour uses one of them and leaves    *)
(* the others as they were at boot.                                        *)
(***************************************************************************)
EXTENDS IpcEvent, SharedMemory, JobTable, TLC

NoEvents == event_handles = {} /\ exited = {}
NoObjects == ended = {} /\ \A o \in Objects : objects[o].generation = 0
NoJobs == \A i \in JobSlots : jobs[i].gen = 0

TablesInit == EventInit /\ ShmInit /\ JobsInit

TablesNext ==
  \/ NoObjects /\ NoJobs /\ EventNext /\ UNCHANGED <<shm_vars, jobs>>
  \/ NoEvents /\ NoJobs /\ ShmNext /\ UNCHANGED <<event_vars, jobs>>
  \/ NoEvents /\ NoObjects /\ JobsNext /\ UNCHANGED <<event_vars, shm_vars>>

TablesSpec == TablesInit /\ [][TablesNext]_<<event_vars, shm_vars, jobs>>

Interchangeable == Permutations(Pids)
===============================================================================
