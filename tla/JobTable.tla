------------------------------- MODULE JobTable -------------------------------
(***************************************************************************)
(* Process jobs (src/kernel/task/job.cpp): a table of jobs with an owner   *)
(* and members, under one TicketSpinLock, so every function is one step.   *)
(* The functions are operators on the table, which the process table       *)
(* (module Process) uses inside its own steps.  Names are left out, and    *)
(* the member array is the set of its entries.                             *)
(***************************************************************************)
EXTENDS Naturals, FiniteSets, FiniteSetsExt

CONSTANTS
  JobPids,        \* process identifiers
  NoOwner,        \* INVALID_PROCESS_ID
  NJobs,          \* MAX_JOBS
  NMembers,       \* MAX_JOB_MEMBERS
  MaxJobGen       \* bound: uses of one slot

ASSUME NoOwnerIsNone == NoOwner \notin JobPids
ASSUME JobCapacities == {NJobs, NMembers, MaxJobGen} \subseteq Nat \ {0}

VARIABLE jobs

JobSlots == 1 .. NJobs
NoJob == <<0, 0>>       \* INVALID_JOB_ID
JobIds == {NoJob} \cup (JobSlots \X (1 .. MaxJobGen))

FreeJob(gen) == [gen |-> gen, active |-> FALSE, owner |-> NoOwner, members |-> {}]
JobsInit == jobs = [i \in JobSlots |-> FreeJob(0)]

-------------------------------------------------------------------------------
\* decode()
Decodes(J, id) == id[1] \in JobSlots /\ J[id[1]].active /\ J[id[1]].gen = id[2]

\* create(): the first inactive slot, with its owner as the first member.
CreateSlot(J) == Min({i \in JobSlots : ~J[i].active})
HasRoom(J) == (\E i \in JobSlots : ~J[i].active) /\ J[CreateSlot(J)].gen < MaxJobGen
CreatedId(J) == <<CreateSlot(J), J[CreateSlot(J)].gen + 1>>
CreateJob(J, owner) ==
  [J EXCEPT ![CreateSlot(J)] =
     [gen |-> @.gen + 1, active |-> TRUE, owner |-> owner, members |-> {owner}]]

\* add_member() and remove_member()
CanAdd(J, id, pid) ==
  /\ Decodes(J, id)
  /\ pid \notin J[id[1]].members /\ Cardinality(J[id[1]].members) < NMembers
AddMember(J, id, pid) == [J EXCEPT ![id[1]].members = @ \cup {pid}]
RemoveMember(J, id, pid) == [J EXCEPT ![id[1]].members = @ \ {pid}]

\* reclaim_if_empty().  ReclaimForgets is a mutant that starts the generations again.
ReclaimForgets(job) == IF job.active /\ job.members = {} THEN FreeJob(0) ELSE job
ReclaimIfEmpty(job) == IF job.active /\ job.members = {} THEN FreeJob(job.gen) ELSE job

\* release_process(), for each of a set of processes; their order makes no
\* difference.
ReleaseProcesses(J, S) ==
  [i \in JobSlots |->
     ReclaimIfEmpty([J[i] EXCEPT !.members = @ \ S,
                                 !.owner = IF @ \in S THEN NoOwner ELSE @])]
ReleaseProcess(J, pid) == ReleaseProcesses(J, {pid})

-------------------------------------------------------------------------------
\* One call of each function.
OwnerCreates(owner) == HasRoom(jobs) /\ jobs' = CreateJob(jobs, owner)
Attach(owner, id, pid) ==
  CanAdd(jobs, id, pid) /\ jobs[id[1]].owner = owner /\ jobs' = AddMember(jobs, id, pid)
\* DetachOwnerToo is a mutant that lets the owner leave.
DetachOwnerToo(owner, id, pid) ==
  /\ Decodes(jobs, id) /\ jobs[id[1]].owner = owner
  /\ pid \in jobs[id[1]].members
  /\ jobs' = RemoveMember(jobs, id, pid)
Detach(owner, id, pid) ==
  /\ Decodes(jobs, id) /\ jobs[id[1]].owner = owner /\ pid # owner
  /\ pid \in jobs[id[1]].members
  /\ jobs' = RemoveMember(jobs, id, pid)
InheritMember(id, pid) == CanAdd(jobs, id, pid) /\ jobs' = AddMember(jobs, id, pid)
MemberReleased(pid) == jobs' = ReleaseProcess(jobs, pid)

JobsNext ==
  \/ \E p \in JobPids : OwnerCreates(p) \/ MemberReleased(p)
  \/ \E id \in JobIds, p, q \in JobPids : Attach(p, id, q) \/ Detach(p, id, q)
  \/ \E id \in JobIds, p \in JobPids : InheritMember(id, p)

JobsSpec == JobsInit /\ [][JobsNext]_jobs

-------------------------------------------------------------------------------
(***************************************************************************)
(* Properties                                                              *)
(***************************************************************************)

\* An active job has a member, and its owner, while it has one, is a member: so
\* whatever the order in which owner and members are released, detached or
\* attached, the last release reclaims the slot.  An inactive slot is clear.
JobsReclaimable ==
  \A i \in JobSlots :
    LET j == jobs[i] IN
    IF j.active THEN /\ j.members # {} /\ Cardinality(j.members) <= NMembers
                     /\ j.owner # NoOwner => j.owner \in j.members
    ELSE j = FreeJob(j.gen)

\* An identifier that has stopped naming a job never names one again: a slot's
\* generation survives its reclamation and grows with every use.
StaleJobIds ==
  [][\A i \in JobSlots :
       /\ jobs'[i].gen >= jobs[i].gen
       /\ jobs'[i].active /\ ~jobs[i].active => jobs'[i].gen > jobs[i].gen]_jobs
===============================================================================
