-------------------------------- MODULE Process --------------------------------
(***************************************************************************)
(* The process table (src/kernel/task/process.cpp) over the job table: a   *)
(* process is spawned, starts when its thread is first dispatched, opens   *)
(* and closes files, ends as a zombie, and its slot is cleared by its      *)
(* parent's wait() or, once the parent is gone, by a later spawn().        *)
(* System calls are not preempted, so every operation is one step.         *)
(*                                                                         *)
(* A pid is <<slot, generation>>; PID 1 is <<1, 0>>.  Paths, names, exit   *)
(* codes and working directories are left out.                             *)
(***************************************************************************)
EXTENDS JobTable

CONSTANTS
  NProcs,         \* MAX_PROCESSES
  MaxGen,         \* bound: processes allocated in one slot
  MaxHandles      \* kMaximumHandles

\* A job has room for every process: MAX_JOB_MEMBERS is MAX_PROCESSES.
ASSUME ProcessCapacities ==
  {NProcs, MaxGen} \subseteq Nat \ {0} /\ MaxHandles \in Nat /\ NMembers >= NProcs

VARIABLES
  procs,          \* g_slots
  init_spawned    \* g_init_spawned

vars == <<jobs, procs, init_spawned>>

Slots == 1 .. NProcs
AllPids == Slots \X (0 .. MaxGen)
NullPid == <<0, 0>>
InitPid == <<1, 0>>

\* A slot that clear_bytes() has emptied, with the fields spawn() sets.
NewSlot(state, pid, parent, gen, job) ==
  [state |-> state, pid |-> pid, parent |-> parent, gen |-> gen, handles |-> 0,
   job |-> job, doomed |-> FALSE]
Cleared(gen) == NewSlot("Empty", NullPid, NullPid, gen, NoJob)

Init == JobsInit /\ procs = [i \in Slots |-> Cleared(0)] /\ init_spawned = FALSE

-------------------------------------------------------------------------------
\* find() and live_parent()
Found(T, pid) == pid[1] \in Slots /\ T[pid[1]].state # "Empty" /\ T[pid[1]].pid = pid
\* KnownParent is a mutant for which a zombie is a live parent.
KnownParent(T, pid) == Found(T, pid)
LiveParent(T, pid) == Found(T, pid) /\ T[pid[1]].state # "Zombie"

\* A running process in a system call, or the kernel itself before init runs.
ProcessCalls(pid) ==
  \/ Found(procs, pid) /\ procs[pid[1]].state = "Running" /\ ~procs[pid[1]].doomed
  \/ pid = NullPid /\ ~init_spawned

\* reap_orphan_zombies()
OrphanZombies(T) ==
  {i \in Slots : /\ T[i].state = "Zombie" /\ T[i].handles = 0
                 /\ ~LiveParent(T, T[i].parent)}
Clear(T, S) == [i \in Slots |-> IF i \in S THEN Cleared(T[i].gen) ELSE T[i]]
PidsOf(T, S) == {T[i].pid : i \in S}

-------------------------------------------------------------------------------
\* spawn(), for the calling process or the kernel: orphans are reaped first,
\* whatever the outcome.
ReapedProcs == Clear(procs, OrphanZombies(procs))
ReapedJobs == ReleaseProcesses(jobs, PidsOf(procs, OrphanZombies(procs)))
FreeSlots == {i \in Slots : ReapedProcs[i].state = "Empty"}
SpawnSlot == Min(FreeSlots)
ParentJob(caller) == IF Found(ReapedProcs, caller) THEN procs[caller[1]].job ELSE NoJob
Child(caller) ==
  LET gen == ReapedProcs[SpawnSlot].gen + 1 IN
  NewSlot("Ready", <<SpawnSlot, gen>>, caller, gen, ParentJob(caller))

SpawnCapacityReached(caller) ==
  /\ ProcessCalls(caller) /\ FreeSlots = {}
  /\ procs' = ReapedProcs /\ jobs' = ReapedJobs
  /\ UNCHANGED init_spawned

\* The path does not fit: the slot stays Empty, with some fields already set.
SpawnPathTooLong(caller) ==
  /\ ProcessCalls(caller) /\ FreeSlots # {}
  /\ procs' = [ReapedProcs EXCEPT ![SpawnSlot] =
                 NewSlot("Empty", NullPid, caller, @.gen, ParentJob(caller))]
  /\ jobs' = ReapedJobs
  /\ UNCHANGED init_spawned

Joins(caller) ==
  ParentJob(caller) = NoJob \/ CanAdd(ReapedJobs, ParentJob(caller), Child(caller).pid)

Joined(caller) ==
  IF ParentJob(caller) = NoJob THEN ReapedJobs
  ELSE AddMember(ReapedJobs, ParentJob(caller), Child(caller).pid)

\* The job refuses the child, or there is no thread for it: the slot has a new
\* generation, and a child that has joined leaves again.  SpawnFailsKeeping is a
\* mutant that leaves it in the job.
SpawnFailsKeeping(caller) ==
  /\ ProcessCalls(caller) /\ FreeSlots # {} /\ ReapedProcs[SpawnSlot].gen < MaxGen
  /\ procs' = [ReapedProcs EXCEPT ![SpawnSlot] = Cleared(@.gen + 1)]
  /\ jobs' = IF Joins(caller) THEN Joined(caller) ELSE ReapedJobs
  /\ UNCHANGED init_spawned
SpawnFails(caller) ==
  /\ ProcessCalls(caller) /\ FreeSlots # {} /\ ReapedProcs[SpawnSlot].gen < MaxGen
  /\ procs' = [ReapedProcs EXCEPT ![SpawnSlot] = Cleared(@.gen + 1)]
  /\ jobs' = IF Joins(caller) THEN ReleaseProcess(Joined(caller), Child(caller).pid)
             ELSE ReapedJobs
  /\ UNCHANGED init_spawned

SpawnOk(caller) ==
  /\ ProcessCalls(caller) /\ FreeSlots # {} /\ ReapedProcs[SpawnSlot].gen < MaxGen
  /\ Joins(caller)
  /\ procs' = [ReapedProcs EXCEPT ![SpawnSlot] = Child(caller)]
  /\ jobs' = Joined(caller)
  /\ UNCHANGED init_spawned

Spawn(caller) ==
  \/ SpawnCapacityReached(caller) \/ SpawnPathTooLong(caller)
  \/ SpawnFails(caller) \/ SpawnOk(caller)

\* spawn_init(): PID 1 in the first slot, owner of the job "system".
SpawnInit ==
  /\ ~init_spawned /\ procs[1].state = "Empty" /\ HasRoom(jobs)
  /\ procs' = [procs EXCEPT ![1] = NewSlot("Ready", InitPid, NullPid, @.gen, CreatedId(jobs))]
  /\ jobs' = CreateJob(jobs, InitPid)
  /\ init_spawned' = TRUE

SpawnInitThreadFails ==
  /\ ~init_spawned /\ procs[1].state = "Empty" /\ HasRoom(jobs)
  /\ procs' = [procs EXCEPT ![1] = Cleared(@.gen)]
  /\ jobs' = ReleaseProcess(CreateJob(jobs, InitPid), InitPid)
  /\ UNCHANGED init_spawned

-------------------------------------------------------------------------------
\* process_entry(): the thread of the process is dispatched for the first time.
Start(i) ==
  /\ procs[i].state = "Ready"
  /\ procs' = [procs EXCEPT ![i].state = "Running"]
  /\ UNCHANGED <<jobs, init_spawned>>

\* run_image() returns, after the cleanup of the runtime.
End(i) ==
  /\ procs[i].state = "Running"
  /\ procs' = [procs EXCEPT ![i].state = "Zombie", ![i].handles = 0]
  /\ UNCHANGED <<jobs, init_spawned>>

\* KU_SYS_OPEN and KU_SYS_CLOSE, as far as set_handle_count() goes.
Open(i) ==
  /\ procs[i].pid # NullPid /\ ProcessCalls(procs[i].pid) /\ procs[i].handles < MaxHandles
  /\ procs' = [procs EXCEPT ![i].handles = @ + 1]
  /\ UNCHANGED <<jobs, init_spawned>>
CloseHandle(i) ==
  /\ procs[i].pid # NullPid /\ ProcessCalls(procs[i].pid) /\ procs[i].handles > 0
  /\ procs' = [procs EXCEPT ![i].handles = @ - 1]
  /\ UNCHANGED <<jobs, init_spawned>>

\* wait()
Wait(caller, pid) ==
  /\ ProcessCalls(caller) /\ Found(procs, pid)
  /\ caller # NullPid => procs[pid[1]].parent = caller
  /\ procs[pid[1]].state = "Zombie" /\ procs[pid[1]].handles = 0
  /\ procs' = Clear(procs, {pid[1]})
  /\ jobs' = ReleaseProcess(jobs, pid)
  /\ UNCHANGED init_spawned

\* KU_SYS_TERMINATE_CHILD: the child, once started, makes no further call; a child
\* that has not started yet is not found by the runtime.
TerminateChild(caller, pid) ==
  /\ ProcessCalls(caller) /\ caller # NullPid /\ Found(procs, pid)
  /\ pid # InitPid /\ caller # pid /\ procs[pid[1]].parent = caller
  /\ procs[pid[1]].state = "Running"
  /\ procs' = [procs EXCEPT ![pid[1]].doomed = TRUE]
  /\ UNCHANGED <<jobs, init_spawned>>

Callers == {procs[i].pid : i \in Slots} \cup {NullPid}

Next ==
  \/ SpawnInit \/ SpawnInitThreadFails
  \/ \E i \in Slots : Start(i) \/ End(i) \/ Open(i) \/ CloseHandle(i)
  \/ \E c \in Callers : Spawn(c)
  \/ \E c, p \in Callers : Wait(c, p) \/ TerminateChild(c, p)

Spec == Init /\ [][Next]_vars

-------------------------------------------------------------------------------
(***************************************************************************)
(* Properties                                                              *)
(***************************************************************************)

\* Slots hold what their state allows, and an occupied slot the pid that names it;
\* a process that has ended holds no file, so that wait() never answers
\* ResourcesBusy and its slot can be recycled.
TypeOK ==
  \A i \in Slots :
    LET p == procs[i] IN
    /\ p.state \in {"Empty", "Ready", "Running", "Zombie"} /\ p.gen \in 0 .. MaxGen
    /\ p.handles \in 0 .. MaxHandles /\ p.job \in JobIds /\ p.parent \in AllPids \cup {NullPid}
    /\ (p.state = "Empty") = (p.pid = NullPid)
    /\ p.pid \in {NullPid, InitPid, <<i, p.gen>>}
    /\ p.state = "Zombie" => p.handles = 0

\* With as many members as processes, spawn() never fails for want of room in the
\* job, or because the job is gone: neither the death of the owner of the job nor
\* of any ancestor keeps a process from spawning.
InheritSucceeds ==
  \A c \in Callers : ProcessCalls(c) /\ FreeSlots # {} => Joins(c)

\* The two tables agree after every outcome of spawn, wait and reaping: the members
\* of a job are exactly the processes, zombies included, that were spawned into it,
\* and their job exists.
MembersAreProcesses ==
  /\ TypeOK
  /\ \A j \in JobSlots : jobs[j].active =>
       jobs[j].members = PidsOf(procs, {i \in Slots : /\ procs[i].state # "Empty"
                                                      /\ procs[i].job = <<j, jobs[j].gen>>})
  /\ \A i \in Slots : procs[i].state # "Empty" /\ procs[i].job # NoJob => Decodes(jobs, procs[i].job)
  /\ InheritSucceeds

\* A process whose parent is gone never acquires another: no later process, PID 1
\* included, gets the pid of the dead one.
OrphansStayOrphans ==
  [][\A i \in Slots :
       /\ procs[i].state # "Empty" /\ procs'[i].pid = procs[i].pid
       /\ procs[i].parent # NullPid /\ ~LiveParent(procs, procs[i].parent)
       => ~LiveParent(procs', procs[i].parent)]_vars

\* A zombie stays as long as somebody may ask for its exit status, and no longer.
\* The slot of a child that has ended is cleared by its parent's wait() (or the
\* kernel's), and by nobody else while the parent lives; and after a spawn,
\* whatever its outcome, no zombie is left whose parent is gone, also when the
\* parent is itself a zombie or its slot has a new process.  Orphans stay orphans.
ZombiesStayForTheirParent ==
  /\ OrphansStayOrphans
  /\ [][/\ \A i \in Slots :
             /\ procs[i].state # "Empty" /\ procs'[i].pid # procs[i].pid
             /\ LiveParent(procs, procs[i].parent)
             => \/ Wait(procs[i].parent, procs[i].pid)
                \/ ~init_spawned /\ Wait(NullPid, procs[i].pid)
        /\ \A i \in Slots :
             LET p == procs'[i].parent IN
             procs'[i].state = "Zombie" /\ (Found(procs', p) => procs'[p[1]].state = "Zombie")
             => \A c \in Callers : ~Spawn(c)]_vars
===============================================================================
