---------------------------- MODULE ProcessProofs ----------------------------
(***************************************************************************)
(* Jobs and processes, for every number of jobs, members, processes and    *)
(* generations: jobs are never lost and their identifiers never used again,*)
(* the job table and the process table agree after every outcome of spawn, *)
(* wait and reaping, and a zombie stays for its parent.                    *)
(***************************************************************************)
EXTENDS Process, FiniteSetTheorems, WellFoundedInduction, TLAPS

\* A set of naturals has a least element, which is what Min chooses.
LEMMA MinOfNaturals ==
  ASSUME NEW S \in SUBSET Nat, S # {}
  PROVE  Min(S) \in S
<1> DEFINE Less == {ss \in Nat \X Nat : ss[1] < ss[2]}
<1>1. IsWellFoundedOn(Less, Nat)
  BY NatLessThanWellFounded DEF OpToRel
<1>2. \A a, b \in Nat : a < b => <<a, b>> \in Less
  OBVIOUS
<1>3. PICK x \in S : \A y \in S : ~(<<y, x>> \in Less)
  <2> HIDE DEF Less
  <2> QED BY <1>1, WFMin, Zenon
<1>4. ASSUME NEW y \in S PROVE x <= y
  <2>1. x \in Nat /\ y \in Nat /\ ~(y < x)
    <3> HIDE DEF Less
    <3> QED BY <1>2, <1>3, <1>4, Zenon
  <2> QED BY <2>1
<1> QED BY <1>4, Zenon DEF Min

\* create() takes an inactive slot whenever there is one.
LEMMA CreateSlotFree ==
  ASSUME NEW J, \E i \in JobSlots : ~J[i].active
  PROVE  CreateSlot(J) \in JobSlots /\ ~J[CreateSlot(J)].active
<1> DEFINE S == {i \in JobSlots : ~J[i].active}
<1>1. S \in SUBSET Nat /\ S # {}
  BY JobCapacities, NoOwnerIsNone DEF JobSlots
<1>2. Min(S) \in S
  <2> HIDE DEF S
  <2> QED BY <1>1, MinOfNaturals
<1> QED BY <1>2 DEF CreateSlot

\* The inductive invariant, for one job.
JobRecords == [gen : Nat, active : BOOLEAN, owner : JobPids \cup {NoOwner}, members : SUBSET JobPids]
JobOK(j) ==
  /\ j \in JobRecords /\ IsFiniteSet(j.members)
  /\ IF j.active THEN /\ j.members # {} /\ Cardinality(j.members) <= NMembers
                      /\ j.owner # NoOwner => j.owner \in j.members
     ELSE j = FreeJob(j.gen)
JobsInv == jobs = [i \in JobSlots |-> jobs[i]] /\ \A i \in JobSlots : JobOK(jobs[i])

\* A free slot is in order.
LEMMA FreeJobOK == ASSUME NEW g \in Nat PROVE JobOK(FreeJob(g))
BY FS_EmptySet DEF JobOK, FreeJob, JobRecords

\* A job with one more member, while there is room, is still in order.
LEMMA AddedOK ==
  ASSUME NEW j, JobOK(j), j.active, NEW pid \in JobPids, pid \notin j.members,
         Cardinality(j.members) < NMembers
  PROVE  JobOK([j EXCEPT !.members = @ \cup {pid}])
<1>1. /\ IsFiniteSet(j.members \cup {pid})
      /\ Cardinality(j.members \cup {pid}) = Cardinality(j.members) + 1
  BY FS_AddElement DEF JobOK
<1>2. Cardinality(j.members) \in Nat
  BY FS_CardinalityType DEF JobOK
<1> QED BY <1>1, <1>2, JobCapacities, NoOwnerIsNone DEF JobOK, JobRecords

\* So is a job that a member other than its owner has left.
LEMMA RemovedOK ==
  ASSUME NEW j, JobOK(j), j.active, j.owner \in JobPids, NEW pid \in JobPids, pid # j.owner
  PROVE  JobOK([j EXCEPT !.members = @ \ {pid}])
<1>1. /\ IsFiniteSet(j.members \ {pid})
      /\ Cardinality(j.members \ {pid}) <= Cardinality(j.members)
  BY FS_Subset DEF JobOK
<1>2. Cardinality(j.members) \in Nat /\ Cardinality(j.members \ {pid}) \in Nat
  BY <1>1, FS_CardinalityType DEF JobOK
<1>3. j.owner \in j.members \ {pid}
  BY JobCapacities, NoOwnerIsNone DEF JobOK
<1> QED BY <1>1, <1>2, <1>3, JobCapacities, NoOwnerIsNone DEF JobOK, JobRecords

\* So is a job after release_process(), reclaimed when the process was its last member.
Released(j, pid) ==
  ReclaimIfEmpty([j EXCEPT !.members = @ \ {pid}, !.owner = IF @ = pid THEN NoOwner ELSE @])
\* The exit of a process leaves a job in order, or frees it.
LEMMA ReleasedOK ==
  ASSUME NEW j, JobOK(j), NEW pid \in JobPids
  PROVE  /\ JobOK(Released(j, pid))
         /\ Released(j, pid).gen = j.gen
         /\ Released(j, pid).active => j.active
<1> DEFINE k == [j EXCEPT !.members = @ \ {pid}, !.owner = IF @ = pid THEN NoOwner ELSE @]
<1>1. /\ IsFiniteSet(j.members \ {pid})
      /\ Cardinality(j.members \ {pid}) <= Cardinality(j.members)
  BY FS_Subset DEF JobOK
<1>2. Cardinality(j.members) \in Nat /\ Cardinality(j.members \ {pid}) \in Nat
  BY <1>1, FS_CardinalityType DEF JobOK
<1>3. /\ k \in JobRecords /\ k.gen = j.gen /\ k.active = j.active
      /\ k.members = j.members \ {pid} /\ k.owner = IF j.owner = pid THEN NoOwner ELSE j.owner
  BY Zenon DEF JobOK, JobRecords
<1>4. CASE j.active /\ k.members = {}
  <2>1. Released(j, pid) = FreeJob(j.gen)
    BY <1>3, <1>4 DEF Released, ReclaimIfEmpty
  <2>2. j.gen \in Nat
    BY DEF JobOK, JobRecords
  <2> QED BY <1>4, <2>1, <2>2, FreeJobOK DEF FreeJob
<1>5. CASE ~(j.active /\ k.members = {})
  <2>1. Released(j, pid) = k
    BY <1>3, <1>5 DEF Released, ReclaimIfEmpty
  <2>2. JobOK(k)
    <3>1. CASE j.active
      BY <1>1, <1>2, <1>3, <1>5, <3>1, JobCapacities, NoOwnerIsNone DEF JobOK
    <3>2. CASE ~j.active
      <4>1. j = FreeJob(j.gen)
        BY <3>2 DEF JobOK
      <4>2. j.owner = NoOwner /\ j.members = {} /\ pid # NoOwner
        BY <4>1, JobCapacities, NoOwnerIsNone DEF FreeJob
      <4>3. k = FreeJob(j.gen)
        BY <3>2, <4>1, <4>2, Zenon DEF FreeJob
      <4> QED BY <4>1, <4>3
    <3> QED BY <3>1, <3>2
  <2> QED BY <1>3, <2>1, <2>2
<1> QED BY <1>4, <1>5
-------------------------------------------------------------------------------
\* All slots are free at boot.
LEMMA JobsInvInit == JobsInit => JobsInv
<1> SUFFICES ASSUME JobsInit PROVE JobsInv
  OBVIOUS
<1>1. \A i \in JobSlots : jobs[i] = FreeJob(0)
  BY DEF JobsInit
<1> QED BY <1>1, FreeJobOK DEF JobsInit, JobsInv

\* What one call does to one slot: it stays in order, its generation never falls,
\* and rises when the slot is taken again.
SlotStep(i) ==
  /\ JobOK(jobs'[i])
  /\ jobs'[i].gen >= jobs[i].gen
  /\ jobs'[i].active /\ ~jobs[i].active => jobs'[i].gen > jobs[i].gen

\* Every call keeps the slots in order, and their generations never go back.
LEMMA StepOfSlots ==
  ASSUME JobsInv, JobsNext
  PROVE  jobs' = [i \in JobSlots |-> jobs'[i]] /\ \A i \in JobSlots : SlotStep(i)
<1>0. jobs = [i \in JobSlots |-> jobs[i]] /\ \A i \in JobSlots : JobOK(jobs[i]) /\ jobs[i].gen \in Nat
  BY DEF JobsInv, JobOK, JobRecords
<1>1. \A i \in JobSlots : jobs'[i] = jobs[i] => SlotStep(i)
  BY <1>0 DEF SlotStep
<1>2. ASSUME NEW p \in JobPids, OwnerCreates(p)
      PROVE  jobs' = [i \in JobSlots |-> jobs'[i]] /\ \A i \in JobSlots : SlotStep(i)
  <2> DEFINE s == CreateSlot(jobs)
             new == [gen |-> jobs[s].gen + 1, active |-> TRUE, owner |-> p, members |-> {p}]
  <2>1. s \in JobSlots /\ ~jobs[s].active
    BY <1>2, CreateSlotFree DEF OwnerCreates, HasRoom
  <2>2. jobs' = [jobs EXCEPT ![s] = new]
    BY <1>0, <1>2, <2>1 DEF OwnerCreates, CreateJob
  <2>3. JobOK(new)
    <3>1. IsFiniteSet({p}) /\ Cardinality({p}) = 1
      BY FS_Singleton, Zenon
    <3>2. new \in JobRecords /\ NMembers >= 1
      BY <1>0, <2>1, JobCapacities, NoOwnerIsNone DEF JobRecords
    <3>3. new.active /\ new.members = {p} /\ new.owner = p
      OBVIOUS
    <3> HIDE DEF new
    <3> QED BY <3>1, <3>2, <3>3 DEF JobOK
  <2>4. SlotStep(s)
    <3>1. jobs'[s] = new BY <1>0, <2>1, <2>2
    <3>2. new.gen = jobs[s].gen + 1 OBVIOUS
    <3> HIDE DEF s, new
    <3> QED BY <1>0, <2>1, <2>3, <3>1, <3>2 DEF SlotStep
  <2>5. ASSUME NEW i \in JobSlots, i # s PROVE SlotStep(i)
    BY <1>0, <1>1, <2>2, <2>5
  <2>6. jobs' = [i \in JobSlots |-> jobs'[i]]
    BY <1>0, <2>2, Zenon
  <2> QED BY <2>4, <2>5, <2>6
<1>3. ASSUME NEW p \in JobPids, MemberReleased(p)
      PROVE  jobs' = [i \in JobSlots |-> jobs'[i]] /\ \A i \in JobSlots : SlotStep(i)
  <2>1. jobs' = [i \in JobSlots |-> Released(jobs[i], p)]
    <3>1. \A o : o \in {p} <=> o = p
      OBVIOUS
    <3> QED BY <1>3, <3>1, Zenon DEF MemberReleased, ReleaseProcess, ReleaseProcesses, Released
  <2>2. ASSUME NEW i \in JobSlots PROVE SlotStep(i)
    <3>1. jobs'[i] = Released(jobs[i], p) BY <2>1
    <3>2. /\ JobOK(Released(jobs[i], p)) /\ Released(jobs[i], p).gen = jobs[i].gen
          /\ Released(jobs[i], p).active => jobs[i].active
      BY <1>0, ReleasedOK
    <3> QED BY <1>0, <3>1, <3>2 DEF SlotStep
  <2> QED BY <2>1, <2>2
<1>4. ASSUME NEW id \in JobIds, NEW pid \in JobPids, CanAdd(jobs, id, pid),
             jobs' = AddMember(jobs, id, pid)
      PROVE  jobs' = [i \in JobSlots |-> jobs'[i]] /\ \A i \in JobSlots : SlotStep(i)
  <2> DEFINE s == id[1]
             new == [jobs[s] EXCEPT !.members = @ \cup {pid}]
  <2>1. s \in JobSlots /\ jobs[s].active /\ pid \notin jobs[s].members /\ Cardinality(jobs[s].members) < NMembers
    BY <1>4 DEF CanAdd, Decodes
  <2>2. jobs' = [jobs EXCEPT ![s] = new]
    BY <1>0, <1>4, <2>1 DEF AddMember
  <2>3. JobOK(new)
    BY <1>0, <2>1, AddedOK
  <2>4. SlotStep(s)
    <3>1. jobs'[s] = new /\ jobs[s] \in JobRecords BY <1>0, <2>1, <2>2 DEF JobOK
    <3>2. new.gen = jobs[s].gen BY <3>1 DEF JobRecords
    <3> HIDE DEF s, new
    <3> QED BY <1>0, <2>1, <2>3, <3>1, <3>2 DEF SlotStep
  <2>5. ASSUME NEW i \in JobSlots, i # s PROVE SlotStep(i)
    BY <1>0, <1>1, <2>2, <2>5
  <2>6. jobs' = [i \in JobSlots |-> jobs'[i]]
    BY <1>0, <2>2, Zenon
  <2> QED BY <2>4, <2>5, <2>6
<1>5. ASSUME NEW owner \in JobPids, NEW id \in JobIds, NEW pid \in JobPids, Detach(owner, id, pid)
      PROVE  jobs' = [i \in JobSlots |-> jobs'[i]] /\ \A i \in JobSlots : SlotStep(i)
  <2> DEFINE s == id[1]
             new == [jobs[s] EXCEPT !.members = @ \ {pid}]
  <2>1. s \in JobSlots /\ jobs[s].active /\ jobs[s].owner = owner /\ pid # owner
    BY <1>5 DEF Detach, Decodes
  <2>2. jobs' = [jobs EXCEPT ![s] = new]
    BY <1>0, <1>5, <2>1 DEF Detach, RemoveMember
  <2>3. JobOK(new)
    BY <1>0, <2>1, RemovedOK
  <2>4. SlotStep(s)
    <3>1. jobs'[s] = new /\ jobs[s] \in JobRecords BY <1>0, <2>1, <2>2 DEF JobOK
    <3>2. new.gen = jobs[s].gen BY <3>1 DEF JobRecords
    <3> HIDE DEF s, new
    <3> QED BY <1>0, <2>1, <2>3, <3>1, <3>2 DEF SlotStep
  <2>5. ASSUME NEW i \in JobSlots, i # s PROVE SlotStep(i)
    BY <1>0, <1>1, <2>2, <2>5
  <2>6. jobs' = [i \in JobSlots |-> jobs'[i]]
    BY <1>0, <2>2, Zenon
  <2> QED BY <2>4, <2>5, <2>6
<1> QED
  BY <1>2, <1>3, <1>4, <1>5 DEF JobsNext, Attach, InheritMember
\* Jobs in order are an invariant.
LEMMA JobsInvariance == JobsSpec => []JobsInv
<1>1. JobsInv /\ [JobsNext]_jobs => JobsInv'
  BY StepOfSlots DEF JobsInv, SlotStep
<1> QED BY <1>1, JobsInvInit, PTL DEF JobsSpec

\* Whatever the order of create, attach, detach, inherit_member and
\* release_process, an active job has a member, among them its owner while it has
\* one, so the last release reclaims it.
THEOREM JobsStayReclaimable == JobsSpec => []JobsReclaimable
<1>1. JobsInv => JobsReclaimable
  BY DEF JobsInv, JobOK, JobsReclaimable
<1> QED BY <1>1, JobsInvariance, PTL

\* decode() never accepts again an identifier that has stopped naming a job.
THEOREM JobIdsStayStale == JobsSpec => StaleJobIds
<1>1. JobsInv /\ [JobsNext]_jobs
      => [\A i \in JobSlots :
            /\ jobs'[i].gen >= jobs[i].gen
            /\ jobs'[i].active /\ ~jobs[i].active => jobs'[i].gen > jobs[i].gen]_jobs
  BY StepOfSlots DEF SlotStep
<1> QED BY <1>1, JobsInvariance, PTL DEF JobsSpec, StaleJobIds

-------------------------------------------------------------------------------
\* Processes and their jobs.

ProcessRecords ==
  [state : {"Empty", "Ready", "Running", "Zombie"}, pid : AllPids \cup {NullPid},
   parent : AllPids \cup {NullPid}, gen : 0 .. MaxGen, handles : 0 .. MaxHandles,
   job : JobIds, doomed : BOOLEAN]
JobShapes == [gen : 0 .. MaxJobGen, active : BOOLEAN, owner : AllPids \cup {NoOwner}, members : SUBSET AllPids]

\* A process is found under a pid that names its slot: PID 1, or one with the
\* generation of the slot.
SlotOK(r, i) ==
  /\ r \in ProcessRecords
  /\ r.state = "Empty" <=> r.pid = NullPid
  /\ r.state # "Empty" => r.pid \in {<<1, 0>>, <<i, r.gen>>} /\ r.pid[1] = i
  /\ r.state = "Zombie" => r.handles = 0
SlotsOK(T) == T \in [Slots -> ProcessRecords] /\ \A i \in Slots : SlotOK(T[i], i)

\* The process table T and the job table J say the same of who is in which job.
SpawnedInto(T, id) == {i \in Slots : T[i].state # "Empty" /\ T[i].job = id}
Agree(T, J) ==
  /\ J \in [JobSlots -> JobShapes]
  /\ \A j \in JobSlots : J[j].active => J[j].members = PidsOf(T, SpawnedInto(T, <<j, J[j].gen>>))
  /\ \A i \in Slots : T[i].state # "Empty" /\ T[i].job # NoJob => Decodes(J, T[i].job)

\* Two processes never have one pid.
LEMMA PidsDiffer ==
  ASSUME NEW T, SlotsOK(T), NEW i \in Slots, NEW k \in Slots,
         T[i].state # "Empty", T[k].state # "Empty", T[i].pid = T[k].pid
  PROVE  i = k
BY DEF SlotsOK, SlotOK

\* A job that decodes is named by its slot and generation.
LEMMA DecodedId ==
  ASSUME NEW J, NEW id \in JobIds, Decodes(J, id)
  PROVE  id = <<id[1], J[id[1]].gen>> /\ id[1] \in JobSlots
BY JobCapacities DEF Decodes, JobIds, JobSlots, NoJob

\* What releasing the processes S does to one job.
LEMMA ReleasedJob ==
  ASSUME NEW J \in [JobSlots -> JobShapes], NEW S, NEW j \in JobSlots
  PROVE  LET K == ReleaseProcesses(J, S) IN
         /\ K[j] \in JobShapes
         /\ K[j].active => J[j].active /\ K[j].gen = J[j].gen /\ K[j].members = J[j].members \ S
         /\ J[j].active /\ J[j].members \ S # {} => K[j].active /\ K[j].gen = J[j].gen
<1> DEFINE o == IF J[j].owner \in S THEN NoOwner ELSE J[j].owner
           r == [J[j] EXCEPT !.members = @ \ S, !.owner = o]
<1>1. /\ r \in JobShapes /\ r.members = J[j].members \ S
      /\ r.gen = J[j].gen /\ r.active = J[j].active
  BY Zenon DEF JobShapes
<1>2. ReleaseProcesses(J, S)[j] = ReclaimIfEmpty(r)
  BY DEF ReleaseProcesses
<1>3. FreeJob(r.gen) \in JobShapes /\ FreeJob(r.gen).active = FALSE
  BY <1>1 DEF JobShapes, FreeJob
<1> HIDE DEF r
<1> QED BY <1>1, <1>2, <1>3 DEF ReclaimIfEmpty

\* Releasing processes in the job table and clearing their slots keeps the tables
\* in agreement, also when a job goes with its last member.
LEMMA ReleaseAgrees ==
  ASSUME NEW T, SlotsOK(T), NEW J, Agree(T, J),
         NEW S \in SUBSET Slots, \A i \in S : T[i].state # "Empty"
  PROVE  /\ Agree(Clear(T, S), ReleaseProcesses(J, PidsOf(T, S)))
         /\ SlotsOK(Clear(T, S))
<1>1. PICK C : C = Clear(T, S)
  BY Zenon
<1>2. PICK P : P = PidsOf(T, S)
  BY Zenon
<1>3. PICK K : K = ReleaseProcesses(J, P)
  BY Zenon
<1>4. /\ J \in [JobSlots -> JobShapes] /\ T \in [Slots -> ProcessRecords]
      /\ \A i \in Slots : C[i] = IF i \in S THEN Cleared(T[i].gen) ELSE T[i]
  BY <1>1 DEF Agree, SlotsOK, Clear
<1>5. \A g \in 0 .. MaxGen : \A i \in Slots : SlotOK(Cleared(g), i) /\ Cleared(g).state = "Empty"
  BY ProcessCapacities, JobCapacities DEF SlotOK, Cleared, NewSlot, ProcessRecords, JobIds
<1>6. SlotsOK(C)
  <2>1. \A i \in Slots : SlotOK(C[i], i)
    BY <1>4, <1>5 DEF SlotsOK, ProcessRecords
  <2>2. C = [i \in Slots |-> IF i \in S THEN Cleared(T[i].gen) ELSE T[i]]
    BY <1>1 DEF Clear
  <2>3. C \in [Slots -> ProcessRecords]
    BY <2>1, <2>2, <1>4 DEF SlotOK
  <2> QED BY <2>1, <2>3 DEF SlotsOK
<1>7. \A id : SpawnedInto(C, id) = SpawnedInto(T, id) \ S
  BY <1>4, <1>5 DEF SpawnedInto, ProcessRecords
<1>8. ASSUME NEW j \in JobSlots, K[j].active
      PROVE  K[j].members = PidsOf(C, SpawnedInto(C, <<j, K[j].gen>>))
  <2>1. J[j].active /\ K[j].gen = J[j].gen /\ K[j].members = J[j].members \ P
    BY <1>3, <1>4, <1>8, ReleasedJob
  <2>2. PICK M : M = SpawnedInto(T, <<j, J[j].gen>>)
    BY Zenon
  <2>3. J[j].members = PidsOf(T, M)
    BY <2>1, <2>2 DEF Agree
  <2>4. SpawnedInto(C, <<j, K[j].gen>>) = M \ S
    BY <2>1, <2>2, <1>7
  <2>5. PidsOf(C, M \ S) = PidsOf(T, M \ S)
    BY <1>4, <2>2 DEF PidsOf, SpawnedInto
  <2>6. PidsOf(T, M \ S) = PidsOf(T, M) \ PidsOf(T, S)
    <3>1. \A i \in M, k \in S : T[i].pid = T[k].pid => i = k
      BY <2>2, PidsDiffer DEF SpawnedInto
    <3> QED BY <3>1 DEF PidsOf
  <2> QED BY <2>1, <2>3, <2>4, <2>5, <2>6, <1>2
<1>9. ASSUME NEW i \in Slots, C[i].state # "Empty", C[i].job # NoJob
      PROVE  Decodes(K, C[i].job)
  <2>1. i \notin S /\ C[i] = T[i] /\ T[i].job \in JobIds
    BY <1>4, <1>5, <1>9 DEF ProcessRecords
  <2>2. Decodes(J, T[i].job)
    BY <2>1, <1>9 DEF Agree
  <2>3. PICK id : id = T[i].job
    BY Zenon
  <2>4. id = <<id[1], J[id[1]].gen>> /\ id[1] \in JobSlots /\ J[id[1]].active /\ J[id[1]].gen = id[2]
    BY <2>1, <2>2, <2>3, DecodedId DEF Decodes
  <2>5. T[i].pid \in J[id[1]].members
    BY <2>1, <2>3, <2>4, <1>9 DEF Agree, PidsOf, SpawnedInto
  <2>6. T[i].pid \notin P
    BY <2>1, <1>2, <1>9, PidsDiffer DEF PidsOf
  <2>7. K[id[1]].active /\ K[id[1]].gen = J[id[1]].gen
    BY <2>4, <2>5, <2>6, <1>3, <1>4, ReleasedJob
  <2> QED BY <2>1, <2>3, <2>4, <2>7 DEF Decodes
<1>10. K \in [JobSlots -> JobShapes]
  <2>1. \A j \in JobSlots : K[j] \in JobShapes
    BY <1>3, <1>4, ReleasedJob
  <2>2. K = [j \in JobSlots |-> K[j]]
    BY <1>3, Zenon DEF ReleaseProcesses
  <2> QED BY <2>1, <2>2
<1> QED BY <1>1, <1>2, <1>3, <1>6, <1>8, <1>9, <1>10 DEF Agree

\* Steps that change neither who is there nor in which job.
LEMMA SameAgree ==
  ASSUME NEW T, NEW U, NEW J, Agree(T, J),
         \A i \in Slots : /\ U[i].pid = T[i].pid /\ U[i].job = T[i].job
                          /\ U[i].state = "Empty" <=> T[i].state = "Empty"
  PROVE  Agree(U, J)
<1>1. \A id : SpawnedInto(U, id) = SpawnedInto(T, id)
  BY DEF SpawnedInto
<1>2. \A S \in SUBSET Slots : PidsOf(U, S) = PidsOf(T, S)
  BY DEF PidsOf
<1>3. \A id : SpawnedInto(T, id) \in SUBSET Slots
  BY DEF SpawnedInto
<1>4. \A j \in JobSlots : J[j].active => J[j].members = PidsOf(U, SpawnedInto(U, <<j, J[j].gen>>))
  BY <1>1, <1>2, <1>3 DEF Agree
<1>5. \A i \in Slots : U[i].state # "Empty" /\ U[i].job # NoJob => Decodes(J, U[i].job)
  BY DEF Agree
<1> QED BY <1>4, <1>5 DEF Agree

\* Table U is T with record r in slot i.
Put(T, U, i, r) ==
  U \in [Slots -> ProcessRecords] /\ U[i] = r /\ \A k \in Slots : k # i => U[k] = T[k]
\* Writing a record that fits a slot leaves a table of such records.
LEMMA SlotSet ==
  ASSUME NEW T, SlotsOK(T), NEW i \in Slots, NEW r, SlotOK(r, i)
  PROVE  /\ Put(T, [T EXCEPT ![i] = r], i, r)
         /\ \A U : Put(T, U, i, r) => SlotsOK(U)
<1>1. T \in [Slots -> ProcessRecords] /\ r \in ProcessRecords
  BY DEF SlotsOK, SlotOK
<1>2. Put(T, [T EXCEPT ![i] = r], i, r)
  BY <1>1 DEF Put
<1>3. \A U : Put(T, U, i, r) => SlotsOK(U)
  BY DEF Put, SlotsOK
<1> QED BY <1>2, <1>3

\* A spawn that fails leaves an empty slot in the place of an empty slot.
LEMMA EmptyAgrees ==
  ASSUME NEW T, SlotsOK(T), NEW J, Agree(T, J),
         NEW i \in Slots, T[i].state = "Empty", NEW r, SlotOK(r, i), r.state = "Empty"
  PROVE  SlotsOK([T EXCEPT ![i] = r]) /\ Agree([T EXCEPT ![i] = r], J)
<1>0. PICK U : U = [T EXCEPT ![i] = r]
  BY Zenon
<1>1. Put(T, U, i, r) /\ SlotsOK(U)
  BY <1>0, SlotSet, Zenon
<1>2. U[i] = r /\ \A k \in Slots : k # i => U[k] = T[k]
  BY <1>1 DEF Put
<1>3. \A id : SpawnedInto(U, id) = SpawnedInto(T, id)
  BY <1>2 DEF SpawnedInto
<1>4. \A id : PidsOf(U, SpawnedInto(T, id)) = PidsOf(T, SpawnedInto(T, id))
  BY <1>2 DEF PidsOf, SpawnedInto
<1>5. \A j \in JobSlots : J[j].active => J[j].members = PidsOf(U, SpawnedInto(U, <<j, J[j].gen>>))
  BY <1>3, <1>4 DEF Agree
<1>6. \A k \in Slots : U[k].state # "Empty" /\ U[k].job # NoJob => Decodes(J, U[k].job)
  BY <1>2 DEF Agree
<1> QED BY <1>0, <1>1, <1>5, <1>6, Zenon DEF Agree

\* The pids of a table with one more process.
LEMMA OneMore ==
  ASSUME NEW T, SlotsOK(T), NEW i \in Slots, T[i].state = "Empty",
         NEW r, SlotOK(r, i), r.state # "Empty", NEW U, Put(T, U, i, r), NEW id
  PROVE  PidsOf(U, SpawnedInto(U, id)) =
           PidsOf(T, SpawnedInto(T, id)) \cup (IF r.job = id THEN {r.pid} ELSE {})
<1>2. U[i] = r /\ \A k \in Slots : k # i => U[k] = T[k]
  BY DEF Put
<1>3. SpawnedInto(U, id) = SpawnedInto(T, id) \cup (IF r.job = id THEN {i} ELSE {})
  BY <1>2 DEF SpawnedInto
<1>4. SpawnedInto(T, id) \in SUBSET (Slots \ {i})
  BY DEF SpawnedInto
<1>5. PidsOf(U, SpawnedInto(T, id)) = PidsOf(T, SpawnedInto(T, id))
  BY <1>2, <1>4 DEF PidsOf
<1>6. PidsOf(U, SpawnedInto(U, id)) = PidsOf(U, SpawnedInto(T, id)) \cup (IF r.job = id THEN {r.pid} ELSE {})
  <2>1. PidsOf(U, SpawnedInto(T, id) \cup {i}) = PidsOf(U, SpawnedInto(T, id)) \cup {U[i].pid}
    BY DEF PidsOf
  <2> QED BY <2>1, <1>2, <1>3
<1> QED BY <1>5, <1>6

\* A process that is spawned into no job, or into one that exists.
LEMMA ChildAgrees ==
  ASSUME NEW T, SlotsOK(T), NEW J, Agree(T, J),
         NEW i \in Slots, T[i].state = "Empty", NEW r, SlotOK(r, i), r.state # "Empty",
         r.job # NoJob => Decodes(J, r.job),
         NEW K, K = IF r.job = NoJob THEN J ELSE AddMember(J, r.job, r.pid)
  PROVE  SlotsOK([T EXCEPT ![i] = r]) /\ Agree([T EXCEPT ![i] = r], K)
<1>0. PICK U : U = [T EXCEPT ![i] = r]
  BY Zenon
<1>1. Put(T, U, i, r) /\ SlotsOK(U)
  BY <1>0, SlotSet, Zenon
<1>2. U[i] = r /\ \A k \in Slots : k # i => U[k] = T[k]
  BY <1>1 DEF Put
<1>3. /\ J \in [JobSlots -> JobShapes] /\ r.job \in JobIds /\ r.pid \in AllPids
  BY DEF Agree, SlotOK, ProcessRecords
<1>4. /\ K \in [JobSlots -> JobShapes]
      /\ \A j \in JobSlots :
           /\ K[j].active = J[j].active /\ K[j].gen = J[j].gen
           /\ K[j].members = J[j].members \cup
                (IF r.job # NoJob /\ r.job[1] = j THEN {r.pid} ELSE {})
  <2>1. CASE r.job = NoJob
    BY <2>1, <1>3
  <2>2. CASE r.job # NoJob
    BY <2>2, <1>3, ZenonT(30) DEF AddMember, JobShapes
  <2> QED BY <2>1, <2>2
<1>5. ASSUME NEW j \in JobSlots, K[j].active
      PROVE  K[j].members = PidsOf(U, SpawnedInto(U, <<j, K[j].gen>>))
  <2>1. PidsOf(U, SpawnedInto(U, <<j, J[j].gen>>)) =
          J[j].members \cup (IF r.job = <<j, J[j].gen>> THEN {r.pid} ELSE {})
    <3>1. J[j].members = PidsOf(T, SpawnedInto(T, <<j, J[j].gen>>))
      BY <1>4, <1>5 DEF Agree
    <3> QED BY <3>1, <1>1, OneMore
  <2>2. r.job = <<j, J[j].gen>> <=> r.job # NoJob /\ r.job[1] = j
    <3>1. r.job # NoJob => r.job = <<r.job[1], J[r.job[1]].gen>>
      BY <1>3, DecodedId
    <3>2. <<j, J[j].gen>> # NoJob
      BY JobCapacities DEF NoJob, JobSlots
    <3> QED BY <3>1, <3>2
  <2> QED BY <2>1, <2>2, <1>4, Zenon
<1>6. ASSUME NEW k \in Slots, U[k].state # "Empty", U[k].job # NoJob
      PROVE  Decodes(K, U[k].job)
  <2>1. Decodes(J, U[k].job)
    BY <1>2, <1>6 DEF Agree
  <2> QED BY <2>1, <1>4 DEF Decodes
<1> QED BY <1>0, <1>1, <1>4, <1>5, <1>6, Zenon DEF Agree

\* PID 1 and its job, made in a slot that no process can name yet.
LEMMA InitAgrees ==
  ASSUME NEW T, SlotsOK(T), NEW J, Agree(T, J), HasRoom(J), NEW i \in Slots, T[i].state = "Empty",
         NEW r, SlotOK(r, i), r.state # "Empty", r.job = CreatedId(J),
         NEW K, K = CreateJob(J, r.pid)
  PROVE  SlotsOK([T EXCEPT ![i] = r]) /\ Agree([T EXCEPT ![i] = r], K)
<1>0. PICK U : U = [T EXCEPT ![i] = r]
  BY Zenon
<1>1. Put(T, U, i, r) /\ SlotsOK(U)
  BY <1>0, SlotSet, Zenon
<1>2. U[i] = r /\ \A k \in Slots : k # i => U[k] = T[k]
  BY <1>1 DEF Put
<1>3. /\ J \in [JobSlots -> JobShapes] /\ r.pid \in AllPids
  BY DEF Agree, SlotOK, ProcessRecords
<1>4. PICK s : s = CreateSlot(J)
  BY Zenon
<1>5. s \in JobSlots /\ ~J[s].active /\ J[s].gen < MaxJobGen
  BY <1>4, CreateSlotFree DEF HasRoom
<1>6. PICK n : n = [gen |-> J[s].gen + 1, active |-> TRUE, owner |-> r.pid, members |-> {r.pid}]
  BY Zenon
<1>7. /\ n \in JobShapes /\ n.gen = J[s].gen + 1 /\ n.members = {r.pid}
      /\ r.job = <<s, n.gen>> /\ r.job # NoJob
  BY <1>3, <1>4, <1>5, <1>6, JobCapacities DEF JobShapes, CreatedId, NoJob, JobSlots
<1>8. K = [J EXCEPT ![s] = n]
  BY <1>3, <1>4, <1>5, <1>6 DEF CreateJob
<1>9. /\ K \in [JobSlots -> JobShapes] /\ K[s] = n
      /\ \A j \in JobSlots : j # s => K[j] = J[j]
  BY <1>3, <1>5, <1>7, <1>8
<1>10. \A k \in Slots : T[k].state # "Empty" /\ T[k].job # NoJob =>
         /\ T[k].job[1] # s /\ Decodes(J, T[k].job)
  BY <1>5 DEF Agree, Decodes
<1>11. SpawnedInto(T, r.job) = {}
  <2>1. r.job[1] = s
    BY <1>7
  <2>2. \A k \in Slots : T[k].state # "Empty" => T[k].job # r.job
    BY <2>1, <1>7, <1>10, Zenon
  <2> QED BY <2>2 DEF SpawnedInto
<1>12. ASSUME NEW j \in JobSlots, K[j].active
       PROVE  K[j].members = PidsOf(U, SpawnedInto(U, <<j, K[j].gen>>))
  <2>1. CASE j = s
    <3>1. PidsOf(T, SpawnedInto(T, r.job)) = {}
      BY <1>11 DEF PidsOf
    <3>2. PidsOf(U, SpawnedInto(U, r.job)) = {} \cup {r.pid}
      BY <3>1, <1>1, OneMore
    <3> QED BY <2>1, <3>2, <1>7, <1>9
  <2>2. CASE j # s
    <3>1. J[j].active /\ K[j] = J[j] /\ r.job # <<j, J[j].gen>>
      BY <2>2, <1>7, <1>9, <1>12
    <3>2. J[j].members = PidsOf(T, SpawnedInto(T, <<j, J[j].gen>>))
      BY <3>1 DEF Agree
    <3>3. PidsOf(U, SpawnedInto(U, <<j, J[j].gen>>)) =
            PidsOf(T, SpawnedInto(T, <<j, J[j].gen>>)) \cup (IF r.job = <<j, J[j].gen>> THEN {r.pid} ELSE {})
      BY <1>1, OneMore
    <3> QED BY <3>1, <3>2, <3>3, Zenon
  <2> QED BY <2>1, <2>2
<1>13. ASSUME NEW k \in Slots, U[k].state # "Empty", U[k].job # NoJob
       PROVE  Decodes(K, U[k].job)
  <2>1. CASE k = i
    <3>1. U[k].job = <<s, n.gen>> /\ n.active = TRUE
      BY <2>1, <1>2, <1>6, <1>7
    <3> QED BY <3>1, <1>5, <1>9 DEF Decodes
  <2>2. CASE k # i
    BY <2>2, <1>2, <1>9, <1>10, <1>13 DEF Decodes
  <2> QED BY <2>1, <2>2
<1> QED BY <1>0, <1>1, <1>9, <1>12, <1>13, Zenon DEF Agree

\* Nobody is the child of a process that is still to come: a parent's pid was
\* given out in its slot before, and PID 1 only by spawn_init().
Traced(T, spawned) ==
  \A i \in Slots :
    /\ InitPid \in {T[i].pid, T[i].parent} => spawned
    /\ T[i].parent # NullPid =>
         T[i].parent[1] \in Slots /\ T[i].parent[2] <= T[T[i].parent[1]].gen

\* The inductive invariant.
ProcessesInv ==
  SlotsOK(procs) /\ Agree(procs, jobs) /\ Traced(procs, init_spawned) /\ init_spawned \in BOOLEAN

\* reap_orphan_zombies() keeps the tables in agreement and everybody else in place.
LEMMA Reaping ==
  ASSUME ProcessesInv
  PROVE  /\ SlotsOK(ReapedProcs) /\ Agree(ReapedProcs, ReapedJobs)
         /\ \A i \in Slots :
              IF i \in OrphanZombies(procs) THEN ReapedProcs[i] = Cleared(procs[i].gen)
              ELSE ReapedProcs[i] = procs[i]
<1>1. /\ OrphanZombies(procs) \in SUBSET Slots
      /\ \A i \in OrphanZombies(procs) : procs[i].state # "Empty"
  BY DEF OrphanZombies
<1>2. SlotsOK(procs) /\ Agree(procs, jobs)
  BY DEF ProcessesInv
<1>3. SlotsOK(ReapedProcs) /\ Agree(ReapedProcs, ReapedJobs)
  BY <1>1, <1>2, ReleaseAgrees DEF ReapedProcs, ReapedJobs
<1>4. \A i \in Slots : ReapedProcs[i] = IF i \in OrphanZombies(procs) THEN Cleared(procs[i].gen) ELSE procs[i]
  BY DEF ReapedProcs, Clear
<1> QED BY <1>3, <1>4

\* The slot spawn() takes is empty after reaping.
LEMMA SpawnSlotFree ==
  ASSUME FreeSlots # {}
  PROVE  SpawnSlot \in Slots /\ ReapedProcs[SpawnSlot].state = "Empty"
<1>1. FreeSlots \in SUBSET Nat
  BY ProcessCapacities DEF FreeSlots, Slots
<1>2. SpawnSlot \in FreeSlots
  BY <1>1, MinOfNaturals DEF SpawnSlot
<1> QED BY <1>2 DEF FreeSlots

\* A caller is the kernel or a process of the table.
LEMMA CallerKnown ==
  ASSUME ProcessesInv, NEW c \in Callers
  PROVE  /\ c \in AllPids \cup {NullPid}
         /\ c # NullPid => /\ c[1] \in Slots /\ c[2] <= procs[c[1]].gen
                           /\ procs[c[1]].pid = c /\ procs[c[1]].state # "Empty"
                           /\ c = InitPid => init_spawned
<1>1. CASE c = NullPid
  BY <1>1
<1>2. ASSUME NEW i \in Slots, c = procs[i].pid, c # NullPid
      PROVE  /\ c \in AllPids /\ c[1] \in Slots /\ c[2] <= procs[c[1]].gen
             /\ procs[c[1]].pid = c /\ procs[c[1]].state # "Empty"
             /\ c = InitPid => init_spawned
  <2>1. SlotOK(procs[i], i) /\ procs[i].gen \in Nat /\ procs[i].pid \in AllPids \cup {NullPid}
    BY DEF ProcessesInv, SlotsOK, SlotOK, ProcessRecords
  <2>2. procs[i].state # "Empty" /\ c \in {<<1, 0>>, <<i, procs[i].gen>>} /\ c[1] = i
    BY <2>1, <1>2 DEF SlotOK
  <2>3. c[2] <= procs[i].gen
    BY <2>1, <2>2
  <2>4. c = InitPid => init_spawned
    BY <1>2, Zenon DEF ProcessesInv, Traced
  <2> QED BY <2>1, <2>2, <2>3, <2>4, <1>2
<1> QED BY <1>1, <1>2 DEF Callers

\* The job a child inherits is still there after reaping.
LEMMA ParentJobThere ==
  ASSUME ProcessesInv, NEW c
  PROVE  /\ ParentJob(c) \in JobIds
         /\ ParentJob(c) # NoJob => Decodes(ReapedJobs, ParentJob(c))
<1>1. SlotsOK(ReapedProcs) /\ Agree(ReapedProcs, ReapedJobs)
  BY Reaping
<1>2. ASSUME ParentJob(c) # NoJob
      PROVE  Decodes(ReapedJobs, ParentJob(c))
  <2>2. Found(ReapedProcs, c) /\ ParentJob(c) = procs[c[1]].job
    BY <1>2 DEF ParentJob
  <2>3. c[1] \in Slots /\ ReapedProcs[c[1]].state # "Empty"
    BY <2>2 DEF Found
  <2>4. ReapedProcs[c[1]] = procs[c[1]]
    <3>1. Cleared(procs[c[1]].gen).state = "Empty"
      BY DEF Cleared, NewSlot
    <3> QED BY <3>1, <2>3, Reaping
  <2> QED BY <1>2, <2>2, <2>3, <2>4, <1>1 DEF Agree
<1>3. ParentJob(c) \in JobIds
  <2>1. NoJob \in JobIds
    BY DEF JobIds
  <2>2. Found(ReapedProcs, c) => procs[c[1]].job \in JobIds
    BY DEF Found, ProcessesInv, SlotsOK, ProcessRecords
  <2> QED BY <2>1, <2>2 DEF ParentJob
<1> QED BY <1>2, <1>3

\* A child gets a record that fits the slot, a pid its slot never had, and a job
\* that is still there after reaping.
LEMMA ChildFits ==
  ASSUME ProcessesInv, NEW c \in Callers, FreeSlots # {}, ReapedProcs[SpawnSlot].gen < MaxGen
  PROVE  /\ SlotOK(Child(c), SpawnSlot) /\ Child(c).state = "Ready"
         /\ Child(c).gen = procs[SpawnSlot].gen + 1 /\ Child(c).pid = <<SpawnSlot, Child(c).gen>>
         /\ Child(c).parent = c /\ Child(c).job = ParentJob(c)
         /\ ParentJob(c) # NoJob => Decodes(ReapedJobs, ParentJob(c))
<1>1. /\ SpawnSlot \in Slots /\ SlotOK(ReapedProcs[SpawnSlot], SpawnSlot)
      /\ SlotsOK(ReapedProcs) /\ Agree(ReapedProcs, ReapedJobs)
  BY SpawnSlotFree, Reaping DEF SlotsOK
<1>2. PICK g : g = ReapedProcs[SpawnSlot].gen + 1
  BY Zenon
<1>3. g \in 1 .. MaxGen
  BY <1>1, <1>2, ProcessCapacities DEF SlotOK, ProcessRecords
<1>4. g = procs[SpawnSlot].gen + 1
  <2>1. ReapedProcs[SpawnSlot].gen = procs[SpawnSlot].gen
    <3>1. Cleared(procs[SpawnSlot].gen).gen = procs[SpawnSlot].gen
      BY DEF Cleared, NewSlot
    <3>2. \/ ReapedProcs[SpawnSlot] = Cleared(procs[SpawnSlot].gen)
          \/ ReapedProcs[SpawnSlot] = procs[SpawnSlot]
      BY <1>1, Reaping
    <3> QED BY <3>1, <3>2
  <2> QED BY <2>1, <1>2
<1>5. ParentJob(c) \in JobIds /\ (ParentJob(c) # NoJob => Decodes(ReapedJobs, ParentJob(c)))
  BY ParentJobThere
<1>7. c \in AllPids \cup {NullPid}
  BY CallerKnown
<1>8. Child(c) = [state |-> "Ready", pid |-> <<SpawnSlot, g>>, parent |-> c, gen |-> g, handles |-> 0,
                  job |-> ParentJob(c), doomed |-> FALSE]
  BY <1>2 DEF Child, NewSlot
<1>9. <<SpawnSlot, g>> \in AllPids /\ <<SpawnSlot, g>> # NullPid
  BY <1>1, <1>3, ProcessCapacities DEF AllPids, NullPid, Slots
<1>10. SlotOK(Child(c), SpawnSlot)
  <2>1. Child(c) \in ProcessRecords
    BY <1>3, <1>5, <1>7, <1>8, <1>9, ProcessCapacities DEF ProcessRecords
  <2> QED BY <2>1, <1>8, <1>9 DEF SlotOK
<1> QED BY <1>4, <1>5, <1>8, <1>10

\* There is always room for a child in the job of its parent: its members are
\* the processes of other slots, and there are as many members as slots.
LEMMA RoomForChild ==
  ASSUME ProcessesInv, NEW c \in Callers, FreeSlots # {}
  PROVE  Joins(c)
<1> SUFFICES ASSUME ParentJob(c) # NoJob
             PROVE  CanAdd(ReapedJobs, ParentJob(c), Child(c).pid)
  BY DEF Joins
<1>1. /\ SpawnSlot \in Slots /\ ReapedProcs[SpawnSlot].state = "Empty"
      /\ SlotsOK(ReapedProcs) /\ Agree(ReapedProcs, ReapedJobs)
  BY SpawnSlotFree, Reaping
<1>2. PICK s : s = SpawnSlot
  BY Zenon
<1>3. PICK T : T = ReapedProcs
  BY Zenon
<1>4. PICK id : id = ParentJob(c)
  BY Zenon
<1>5. Decodes(ReapedJobs, id) /\ id \in JobIds
  BY <1>4, ParentJobThere
<1>6. PICK M : M = ReapedJobs[id[1]].members
  BY Zenon
<1>7. M = PidsOf(T, SpawnedInto(T, id))
  <2>1. id = <<id[1], ReapedJobs[id[1]].gen>> /\ id[1] \in JobSlots /\ ReapedJobs[id[1]].active
    BY <1>5, DecodedId DEF Decodes
  <2>2. ReapedJobs[id[1]].members = PidsOf(ReapedProcs, SpawnedInto(ReapedProcs, <<id[1], ReapedJobs[id[1]].gen>>))
    BY <2>1, <1>1 DEF Agree
  <2> QED BY <2>1, <2>2, <1>3, <1>6
<1>8. PICK R : R = Slots \ {s}
  BY Zenon
<1>9. SpawnedInto(T, id) \subseteq R
  BY <1>1, <1>2, <1>3, <1>8 DEF SpawnedInto
<1>10. Child(c).pid \notin M
  <2>1. Child(c).pid[1] = s
    BY <1>2 DEF Child, NewSlot
  <2>2. \A i \in SpawnedInto(T, id) : T[i].pid[1] = i
    BY <1>1, <1>3 DEF SpawnedInto, SlotsOK, SlotOK
  <2>3. \A m \in M : m[1] \in R
    BY <2>2, <1>7, <1>9 DEF PidsOf
  <2> QED BY <2>1, <2>3, <1>8
<1>11. Cardinality(M) < NMembers
  <2>1. IsFiniteSet(Slots) /\ Cardinality(Slots) = NProcs
    <3>1. NProcs \in Nat /\ 1 \in Nat
      BY ProcessCapacities
    <3> QED BY <3>1, FS_Interval DEF Slots
  <2>2. IsFiniteSet(R) /\ Cardinality(R) = NProcs - 1
    BY <2>1, <1>1, <1>2, <1>8, FS_RemoveElement
  <2>3. IsFiniteSet(SpawnedInto(T, id)) /\ Cardinality(SpawnedInto(T, id)) <= NProcs - 1
    BY <2>2, <1>9, FS_Subset
  <2>4. Cardinality(M) <= Cardinality(SpawnedInto(T, id)) /\ IsFiniteSet(M)
    <3>1. PICK S : S = SpawnedInto(T, id)
      BY Zenon
    <3>2. PICK f : f = [i \in S |-> T[i].pid]
      BY Zenon
    <3>3. f \in Surjection(S, M)
      BY <3>1, <3>2, <1>7 DEF Surjection, PidsOf
    <3> QED BY <3>1, <3>3, <2>3, FS_Surjection
  <2>5. Cardinality(M) \in Nat /\ Cardinality(SpawnedInto(T, id)) \in Nat
    BY <2>3, <2>4, FS_CardinalityType
  <2> QED BY <2>3, <2>4, <2>5, ProcessCapacities, JobCapacities
<1> QED BY <1>4, <1>5, <1>6, <1>10, <1>11 DEF CanAdd

\* A cleared slot is a slot of the table.
LEMMA ClearedFits ==
  ASSUME NEW g \in 0 .. MaxGen, NEW i \in Slots
  PROVE  /\ SlotOK(Cleared(g), i) /\ Cleared(g).state = "Empty" /\ Cleared(g).pid = NullPid
         /\ Cleared(g).gen = g /\ Cleared(g).parent = NullPid
BY ProcessCapacities, JobCapacities DEF SlotOK, Cleared, NewSlot, ProcessRecords, JobIds

\* What spawn() leaves in slot i, where r was, for the caller c.
Respawned(r, n, i, c) ==
  /\ n.parent \in {c, NullPid}
  /\ \/ n.state = "Empty" /\ n.pid = NullPid /\ n.gen \in {r.gen, r.gen + 1}
     \/ n.state = "Ready" /\ n.pid = <<i, r.gen + 1>> /\ n.gen = r.gen + 1

\* Slots that are neither empty nor reaped keep their process.
Spared(T, U, c) ==
  \A i \in Slots :
    \/ i \notin OrphanZombies(T) /\ U[i] = T[i]
    \/ (i \in OrphanZombies(T) \/ T[i].state = "Empty") /\ Respawned(T[i], U[i], i, c)

\* A table in which spawn() writes one record, into the slot it has chosen.
LEMMA SparedBySpawn ==
  ASSUME ProcessesInv, NEW c, NEW U,
         \/ U = ReapedProcs
         \/ /\ FreeSlots # {}
            /\ \E n : Put(ReapedProcs, U, SpawnSlot, n) /\ Respawned(ReapedProcs[SpawnSlot], n, SpawnSlot, c)
  PROVE  Spared(procs, U, c)
<1>1. \A i \in Slots : procs[i].gen \in 0 .. MaxGen
  BY DEF ProcessesInv, SlotsOK, ProcessRecords
<1>2. \A i \in Slots :
        /\ ReapedProcs[i].gen = procs[i].gen
        /\ i \in OrphanZombies(procs) => Respawned(procs[i], ReapedProcs[i], i, c)
        /\ i \notin OrphanZombies(procs) => ReapedProcs[i] = procs[i]
  BY <1>1, ClearedFits, Reaping DEF Respawned
<1>3. CASE U = ReapedProcs
  BY <1>2, <1>3 DEF Spared
<1>4. ASSUME FreeSlots # {}, NEW n, Put(ReapedProcs, U, SpawnSlot, n),
             Respawned(ReapedProcs[SpawnSlot], n, SpawnSlot, c)
      PROVE  Spared(procs, U, c)
  <2>1. SpawnSlot \in Slots /\ ReapedProcs[SpawnSlot].state = "Empty"
    BY <1>4, SpawnSlotFree
  <2>2. PICK s : s = SpawnSlot
    BY Zenon
  <2>3. U[s] = n /\ \A i \in Slots : i # s => U[i] = ReapedProcs[i]
    BY <1>4, <2>2 DEF Put
  <2>4. Respawned(procs[s], U[s], s, c)
    BY <2>1, <2>2, <2>3, <1>2, <1>4 DEF Respawned
  <2>5. s \in OrphanZombies(procs) \/ procs[s].state = "Empty"
    BY <2>1, <2>2, <1>2
  <2> QED BY <2>3, <2>4, <2>5, <1>2 DEF Spared
<1> QED BY <1>3, <1>4

\* Every outcome of spawn() leaves the tables in agreement, and takes a slot from
\* nobody but an orphan zombie.
LEMMA SpawnEffect ==
  ASSUME ProcessesInv, NEW c \in Callers, Spawn(c)
  PROVE  /\ SlotsOK(procs') /\ Agree(procs', jobs') /\ Spared(procs, procs', c)
         /\ UNCHANGED init_spawned
<1>1. /\ SlotsOK(ReapedProcs) /\ Agree(ReapedProcs, ReapedJobs)
      /\ FreeSlots # {} => SpawnSlot \in Slots /\ ReapedProcs[SpawnSlot].state = "Empty"
  BY SpawnSlotFree, Reaping
<1>2. PICK T : T = ReapedProcs
  BY Zenon
<1>3. PICK J : J = ReapedJobs
  BY Zenon
<1>4. PICK s : s = SpawnSlot
  BY Zenon
<1>5. SlotsOK(T) /\ Agree(T, J)
  BY <1>1, <1>2, <1>3
<1>6. ASSUME FreeSlots # {}
      PROVE  /\ s \in Slots /\ T[s].state = "Empty" /\ T[s].gen \in 0 .. MaxGen
  BY <1>1, <1>2, <1>4, <1>5, <1>6 DEF SlotsOK, ProcessRecords
<1>7. ASSUME FreeSlots # {}, NEW n, SlotOK(n, s), Respawned(T[s], n, s, c), procs' = [T EXCEPT ![s] = n]
      PROVE  Spared(procs, procs', c)
  <2>1. Put(T, procs', s, n)
    BY <1>5, <1>6, <1>7, SlotSet, Zenon
  <2> QED BY <2>1, <1>2, <1>4, <1>7, SparedBySpawn
<1>8. CASE SpawnCapacityReached(c)
  BY <1>8, <1>1, SparedBySpawn DEF SpawnCapacityReached
<1>9. CASE SpawnPathTooLong(c)
  <2>1. FreeSlots # {} /\ jobs' = J /\ UNCHANGED init_spawned
    BY <1>9, <1>3 DEF SpawnPathTooLong
  <2>2. PICK n : n = NewSlot("Empty", NullPid, c, T[s].gen, ParentJob(c))
    BY Zenon
  <2>3. procs' = [T EXCEPT ![s] = n]
    BY <1>2, <1>4, <1>5, <1>6, <1>9, <2>1, <2>2 DEF SpawnPathTooLong, SlotsOK
  <2>4. SlotOK(n, s) /\ n.state = "Empty" /\ Respawned(T[s], n, s, c)
    BY <2>1, <2>2, <1>6, CallerKnown, ParentJobThere, ProcessCapacities
       DEF SlotOK, NewSlot, ProcessRecords, Respawned
  <2>5. SlotsOK(procs') /\ Agree(procs', jobs')
    BY <2>1, <2>3, <2>4, <1>5, <1>6, EmptyAgrees, Zenon
  <2> QED BY <2>1, <2>3, <2>4, <2>5, <1>7, Zenon
<1>10. ASSUME FreeSlots # {}, ReapedProcs[SpawnSlot].gen < MaxGen
       PROVE  /\ SlotOK(Child(c), s) /\ Child(c).state # "Empty" /\ Child(c).gen = T[s].gen + 1
              /\ Respawned(T[s], Child(c), s, c)
              /\ SlotsOK([T EXCEPT ![s] = Child(c)]) /\ Agree([T EXCEPT ![s] = Child(c)], Joined(c))
  <2>1. /\ SlotOK(Child(c), s) /\ Child(c).state = "Ready" /\ Child(c).pid = <<s, Child(c).gen>>
        /\ Child(c).parent = c /\ Child(c).job = ParentJob(c)
        /\ ParentJob(c) # NoJob => Decodes(J, ParentJob(c))
    BY <1>3, <1>4, <1>10, ChildFits
  <2>2. Child(c).gen = T[s].gen + 1
    BY <1>2, <1>4 DEF Child, NewSlot
  <2>3. Joined(c) = IF Child(c).job = NoJob THEN J ELSE AddMember(J, Child(c).job, Child(c).pid)
    BY <2>1, <1>3, Zenon DEF Joined
  <2>4. Respawned(T[s], Child(c), s, c)
    BY <2>1, <2>2 DEF Respawned
  <2>5. SlotsOK([T EXCEPT ![s] = Child(c)]) /\ Agree([T EXCEPT ![s] = Child(c)], Joined(c))
    BY <2>1, <2>3, <1>5, <1>6, <1>10, ChildAgrees
  <2> QED BY <2>1, <2>2, <2>4, <2>5
<1>11. CASE SpawnFails(c)
  <2>1. FreeSlots # {} /\ ReapedProcs[SpawnSlot].gen < MaxGen /\ UNCHANGED init_spawned
    BY <1>11 DEF SpawnFails
  <2>2. PICK n : n = Cleared(T[s].gen + 1)
    BY Zenon
  <2>3. procs' = [T EXCEPT ![s] = n]
    BY <1>2, <1>4, <1>5, <1>6, <1>11, <2>1, <2>2 DEF SpawnFails, SlotsOK
  <2>4. SlotOK(n, s) /\ n.state = "Empty" /\ Respawned(T[s], n, s, c)
    <3>1. T[s].gen + 1 \in 0 .. MaxGen /\ s \in Slots
      BY <2>1, <1>2, <1>4, <1>6, ProcessCapacities
    <3> QED BY <3>1, <2>2, ClearedFits DEF Respawned
  <2>5. CASE ~Joins(c)
    <3>1. jobs' = J
      BY <2>5, <1>3, <1>11 DEF SpawnFails
    <3>2. SlotsOK(procs') /\ Agree(procs', jobs')
      BY <3>1, <2>1, <2>3, <2>4, <1>5, <1>6, EmptyAgrees, Zenon
    <3> QED BY <3>2, <2>1, <2>3, <2>4, <1>7, Zenon
  <2>6. CASE Joins(c)
    <3>1. PICK U : U = [T EXCEPT ![s] = Child(c)]
      BY Zenon
    <3>2. SlotsOK(U) /\ Agree(U, Joined(c)) /\ s \in Slots /\ Put(T, U, s, Child(c))
      BY <3>1, <2>1, <1>5, <1>6, <1>10, SlotSet, Zenon
    <3>3. U[s] = Child(c) /\ U[s].state # "Empty" /\ U[s].gen = T[s].gen + 1
      BY <3>2, <2>1, <1>10 DEF Put
    <3>4. jobs' = ReleaseProcesses(Joined(c), PidsOf(U, {s}))
      <4>1. PidsOf(U, {s}) = {Child(c).pid}
        BY <3>3 DEF PidsOf
      <4> QED BY <4>1, <2>6, <1>11 DEF SpawnFails, ReleaseProcess
    <3>5. procs' = Clear(U, {s})
      <4>1. \A i \in Slots : Clear(U, {s})[i] = procs'[i]
        BY <3>2, <3>3, <2>2, <2>3, <1>5 DEF Clear, Put, SlotsOK
      <4>2. Clear(U, {s}) = [i \in Slots |-> Clear(U, {s})[i]] /\ procs' = [i \in Slots |-> procs'[i]]
        BY <2>3, <1>5, Zenon DEF Clear, SlotsOK
      <4> QED BY <4>1, <4>2, Zenon
    <3>6. SlotsOK(procs') /\ Agree(procs', jobs')
      BY <3>2, <3>3, <3>4, <3>5, ReleaseAgrees
    <3> QED BY <3>6, <2>1, <2>3, <2>4, <1>7, Zenon
  <2> QED BY <2>5, <2>6
<1>12. CASE SpawnOk(c)
  <2>1. /\ FreeSlots # {} /\ ReapedProcs[SpawnSlot].gen < MaxGen /\ UNCHANGED init_spawned
        /\ procs' = [T EXCEPT ![s] = Child(c)] /\ jobs' = Joined(c)
    BY <1>2, <1>4, <1>12 DEF SpawnOk
  <2> QED BY <2>1, <1>7, <1>10, Zenon
<1> QED BY <1>8, <1>9, <1>11, <1>12 DEF Spawn

\* spawn_init() makes PID 1 and its job together, or leaves both tables as if it
\* had not been called.
LEMMA InitEffect ==
  ASSUME ProcessesInv, SpawnInit \/ SpawnInitThreadFails
  PROVE  /\ SlotsOK(procs') /\ Agree(procs', jobs')
         /\ 1 \in Slots /\ ~init_spawned /\ procs[1].state = "Empty"
         /\ procs'[1].gen = procs[1].gen /\ procs'[1].parent = NullPid
         /\ procs'[1].state \in {"Empty", "Ready"}
         /\ IF init_spawned' THEN procs'[1].pid = InitPid ELSE procs'[1].pid = NullPid
         /\ \A i \in Slots : i # 1 => procs'[i] = procs[i]
         /\ init_spawned' \in BOOLEAN
<1>1. /\ ~init_spawned /\ procs[1].state = "Empty" /\ HasRoom(jobs)
      /\ SlotsOK(procs) /\ Agree(procs, jobs) /\ 1 \in Slots /\ procs[1].gen \in 0 .. MaxGen
  BY ProcessCapacities DEF SpawnInit, SpawnInitThreadFails, ProcessesInv, SlotsOK, ProcessRecords, Slots
<1>2. PICK J : J = jobs
  BY Zenon
<1>3. PICK T : T = procs
  BY Zenon
<1>4. PICK n : n = NewSlot("Ready", InitPid, NullPid, T[1].gen, CreatedId(J))
  BY Zenon
<1>5. /\ n.state = "Ready" /\ n.pid = InitPid /\ n.gen = T[1].gen /\ n.parent = NullPid
      /\ n.job = CreatedId(J) /\ InitPid # NullPid
  BY <1>4 DEF NewSlot, InitPid, NullPid
<1>6. SlotOK(n, 1)
  <2>1. CreatedId(J) \in JobIds
    <3>1. CreateSlot(J) \in JobSlots /\ J[CreateSlot(J)].gen < MaxJobGen
      BY <1>1, <1>2, CreateSlotFree DEF HasRoom
    <3>2. J[CreateSlot(J)].gen \in 0 .. MaxJobGen
      BY <3>1, <1>1, <1>2 DEF Agree, JobShapes
    <3> QED BY <3>1, <3>2, JobCapacities DEF CreatedId, JobIds
  <2>2. InitPid \in AllPids
    BY <1>1, ProcessCapacities DEF InitPid, AllPids
  <2>3. n \in ProcessRecords
    BY <2>1, <2>2, <1>1, <1>3, <1>4, ProcessCapacities DEF ProcessRecords, NewSlot
  <2> QED BY <2>3, <1>5 DEF SlotOK, InitPid
<1>7. PICK U : U = [T EXCEPT ![1] = n]
  BY Zenon
<1>8. PICK K : K = CreateJob(J, n.pid)
  BY Zenon
<1>9. SlotsOK(U) /\ Agree(U, K) /\ Put(T, U, 1, n)
  BY <1>1, <1>2, <1>3, <1>5, <1>6, <1>7, <1>8, InitAgrees, SlotSet, Zenon
<1>10. CASE SpawnInit
  <2>1. procs' = U /\ jobs' = K /\ init_spawned' = TRUE
    <3>1. T \in [Slots -> ProcessRecords]
      BY <1>1, <1>3 DEF SlotsOK
    <3> QED BY <3>1, <1>1, <1>2, <1>3, <1>4, <1>5, <1>7, <1>8, <1>10 DEF SpawnInit
  <2> QED BY <2>1, <1>1, <1>3, <1>5, <1>9 DEF Put
<1>11. CASE SpawnInitThreadFails
  <2>1. PICK z : z = Cleared(T[1].gen)
    BY Zenon
  <2>2. procs' = [T EXCEPT ![1] = z] /\ UNCHANGED init_spawned
    BY <2>1, <1>1, <1>3, <1>11 DEF SpawnInitThreadFails, SlotsOK
  <2>3. SlotOK(z, 1) /\ z.state = "Empty" /\ z.pid = NullPid /\ z.gen = T[1].gen /\ z.parent = NullPid
    BY <2>1, <1>1, <1>3, ClearedFits
  <2>4. Put(T, procs', 1, z)
    BY <2>2, <2>3, <1>1, <1>3, SlotSet, Zenon
  <2>5. U[1] = n /\ \A i \in Slots : i # 1 => U[i] = T[i]
    BY <1>9 DEF Put
  <2>6. jobs' = ReleaseProcesses(K, PidsOf(U, {1}))
    <3>1. PidsOf(U, {1}) = {InitPid}
      BY <2>5, <1>5 DEF PidsOf
    <3> QED BY <3>1, <1>2, <1>5, <1>8, <1>11 DEF SpawnInitThreadFails, ReleaseProcess
  <2>7. procs' = Clear(U, {1})
    <3>1. \A i \in Slots : Clear(U, {1})[i] = procs'[i]
      BY <2>1, <2>4, <2>5, <1>5 DEF Clear, Put
    <3>2. Clear(U, {1}) = [i \in Slots |-> Clear(U, {1})[i]] /\ procs' = [i \in Slots |-> procs'[i]]
      BY <2>4 DEF Clear, Put
    <3> QED BY <3>1, <3>2, Zenon
  <2>8. SlotsOK(procs') /\ Agree(procs', jobs')
    BY <2>5, <2>6, <2>7, <1>1, <1>5, <1>9, ReleaseAgrees
  <2> QED BY <2>2, <2>3, <2>4, <2>8, <1>1, <1>3 DEF Put, ProcessesInv
<1> QED BY <1>10, <1>11

\* wait() empties the slot of the zombie it found, and no other.
LEMMA WaitEffect ==
  ASSUME ProcessesInv, NEW c \in Callers, NEW p \in Callers, Wait(c, p)
  PROVE  /\ SlotsOK(procs') /\ Agree(procs', jobs') /\ UNCHANGED init_spawned
         /\ p[1] \in Slots /\ procs[p[1]].pid = p
         /\ procs'[p[1]] = Cleared(procs[p[1]].gen)
         /\ \A i \in Slots : i # p[1] => procs'[i] = procs[i]
<1>1. /\ p[1] \in Slots /\ procs[p[1]].pid = p /\ procs[p[1]].state # "Empty"
      /\ procs' = Clear(procs, {p[1]}) /\ jobs' = ReleaseProcess(jobs, p) /\ UNCHANGED init_spawned
  BY DEF Wait, Found
<1>2. PidsOf(procs, {p[1]}) = {p}
  BY <1>1 DEF PidsOf
<1>3. SlotsOK(procs') /\ Agree(procs', jobs')
  <2>1. SlotsOK(procs) /\ Agree(procs, jobs)
    BY DEF ProcessesInv
  <2>2. jobs' = ReleaseProcesses(jobs, PidsOf(procs, {p[1]}))
    BY <1>1, <1>2 DEF ReleaseProcess
  <2> QED BY <2>1, <2>2, <1>1, ReleaseAgrees, Zenon
<1> QED BY <1>1, <1>3 DEF Clear

\* Slot i changes, if at all, in its state, its handles and its doom.
Kept(r, n) ==
  /\ n.pid = r.pid /\ n.parent = r.parent /\ n.gen = r.gen /\ n.job = r.job
  /\ n.state = "Empty" <=> r.state = "Empty"
  /\ r.state = "Zombie" => n.state = "Zombie"

\* The steps of a process that has its slot already.
Lives(i) ==
  \/ Start(i) \/ End(i) \/ Open(i) \/ CloseHandle(i)
  \/ \E c \in Callers : TerminateChild(c, procs[i].pid) /\ procs[i].pid[1] = i

\* Such a step keeps everybody's pid, parent and job.
LEMMA LivesEffect ==
  ASSUME ProcessesInv, NEW i \in Slots, Lives(i)
  PROVE  /\ SlotsOK(procs') /\ Agree(procs', jobs') /\ UNCHANGED init_spawned
         /\ \A k \in Slots : Kept(procs[k], procs'[k])
<1>1. /\ SlotsOK(procs) /\ Agree(procs, jobs) /\ procs \in [Slots -> ProcessRecords]
      /\ SlotOK(procs[i], i) /\ procs[i] \in ProcessRecords
  BY DEF ProcessesInv, SlotsOK
<1>2. UNCHANGED <<jobs, init_spawned>>
  BY DEF Lives, Start, End, Open, CloseHandle, TerminateChild
<1>3. ASSUME NEW n, SlotOK(n, i), Kept(procs[i], n), procs' = [procs EXCEPT ![i] = n]
      PROVE  SlotsOK(procs') /\ Agree(procs', jobs') /\ \A k \in Slots : Kept(procs[k], procs'[k])
  <2>1. Put(procs, procs', i, n) /\ SlotsOK(procs')
    BY <1>1, <1>3, SlotSet, Zenon
  <2>2. \A k \in Slots : Kept(procs[k], procs'[k])
    BY <2>1, <1>3 DEF Put, Kept
  <2>3. \A k \in Slots : /\ procs'[k].pid = procs[k].pid /\ procs'[k].job = procs[k].job
                         /\ procs'[k].state = "Empty" <=> procs[k].state = "Empty"
    BY <2>2 DEF Kept
  <2>4. Agree(procs', jobs)
    BY <2>3, <1>1, SameAgree
  <2> QED BY <2>1, <2>2, <2>4, <1>2
<1>4. CASE Start(i)
  <2>1. PICK n : n = [procs[i] EXCEPT !.state = "Running"]
    BY Zenon
  <2>2. SlotOK(n, i) /\ Kept(procs[i], n) /\ procs' = [procs EXCEPT ![i] = n]
    BY <2>1, <1>1, <1>4 DEF Start, SlotOK, Kept, ProcessRecords
  <2> QED BY <2>2, <1>2, <1>3, Zenon
<1>5. CASE End(i)
  <2>1. PICK m : m = [procs[i] EXCEPT !.state = "Zombie"]
    BY Zenon
  <2>2. PICK n : n = [m EXCEPT !.handles = 0]
    BY Zenon
  <2>3. m \in ProcessRecords /\ procs[i].state = "Running"
    BY <2>1, <1>1, <1>5 DEF ProcessRecords, End
  <2>4. n \in ProcessRecords
    BY <2>2, <2>3, ProcessCapacities DEF ProcessRecords
  <2>5. procs' = [procs EXCEPT ![i] = n]
    BY <2>1, <2>2, <1>1, <1>5, Zenon DEF End
  <2>6. Kept(procs[i], n) /\ n.state = "Zombie" /\ n.handles = 0
    BY <2>1, <2>2, <2>3, <1>1 DEF Kept, ProcessRecords
  <2>7. SlotOK(n, i)
    BY <2>3, <2>4, <2>6, <1>1 DEF SlotOK, Kept
  <2> QED BY <2>5, <2>6, <2>7, <1>2, <1>3, Zenon
<1>6. ASSUME NEW h \in 0 .. MaxHandles, procs[i].pid # NullPid, ProcessCalls(procs[i].pid),
             procs' = [procs EXCEPT ![i].handles = h]
      PROVE  SlotsOK(procs') /\ Agree(procs', jobs') /\ \A k \in Slots : Kept(procs[k], procs'[k])
  <2>1. PICK n : n = [procs[i] EXCEPT !.handles = h]
    BY Zenon
  <2>2. procs[i].state = "Running"
    <3>1. procs[i].pid[1] = i
      BY <1>1, <1>6 DEF SlotOK
    <3> QED BY <3>1, <1>6 DEF ProcessCalls
  <2>3. SlotOK(n, i) /\ Kept(procs[i], n) /\ procs' = [procs EXCEPT ![i] = n]
    BY <2>1, <2>2, <1>1, <1>6 DEF SlotOK, Kept, ProcessRecords
  <2> QED BY <2>3, <1>3, Zenon
<1>7. CASE Open(i)
  <2>1. procs[i].handles + 1 \in 0 .. MaxHandles
    BY <1>1, <1>7, ProcessCapacities DEF Open, ProcessRecords
  <2>2. procs' = [procs EXCEPT ![i].handles = procs[i].handles + 1]
    BY <1>1, <1>7 DEF Open
  <2>3. procs[i].pid # NullPid /\ ProcessCalls(procs[i].pid)
    BY <1>7 DEF Open
  <2> QED BY <2>1, <2>2, <2>3, <1>2, <1>6, Zenon
<1>8. CASE CloseHandle(i)
  <2>1. procs[i].handles - 1 \in 0 .. MaxHandles
    BY <1>1, <1>8, ProcessCapacities DEF CloseHandle, ProcessRecords
  <2>2. procs' = [procs EXCEPT ![i].handles = procs[i].handles - 1]
    BY <1>1, <1>8 DEF CloseHandle
  <2>3. procs[i].pid # NullPid /\ ProcessCalls(procs[i].pid)
    BY <1>8 DEF CloseHandle
  <2> QED BY <2>1, <2>2, <2>3, <1>2, <1>6, Zenon
<1>9. CASE \E c \in Callers : TerminateChild(c, procs[i].pid) /\ procs[i].pid[1] = i
  <2>1. PICK n : n = [procs[i] EXCEPT !.doomed = TRUE]
    BY Zenon
  <2>2. procs' = [procs EXCEPT ![i] = n]
    BY <2>1, <1>1, <1>9 DEF TerminateChild
  <2>3. SlotOK(n, i) /\ Kept(procs[i], n)
    BY <2>1, <1>1, Zenon DEF SlotOK, Kept, ProcessRecords
  <2> QED BY <2>2, <2>3, <1>2, <1>3, Zenon
<1> QED BY <1>2, <1>4, <1>5, <1>7, <1>8, <1>9 DEF Lives

\* What a step may do to slot i: keep its process, empty it, put a process with a
\* generation the slot never had into it, or be the one spawn_init() of a boot.
Moved(r, n, i) ==
  /\ n.parent = r.parent \/ n.parent \in Callers
  /\ \/ Kept(r, n)
     \/ n.state = "Empty" /\ n.pid = NullPid /\ n.gen \in {r.gen, r.gen + 1}
     \/ n.pid = <<i, r.gen + 1>> /\ n.gen = r.gen + 1
     \/ n.pid = InitPid /\ n.gen = r.gen /\ ~init_spawned /\ init_spawned'

\* The steps, as the lemmas above take them.
LEMMA NextCases ==
  ASSUME ProcessesInv, Next
  PROVE  \/ SpawnInit \/ SpawnInitThreadFails
         \/ \E i \in Slots : Lives(i)
         \/ \E c \in Callers : Spawn(c)
         \/ \E c, p \in Callers : Wait(c, p)
<1>1. ASSUME NEW c \in Callers, NEW p \in Callers, TerminateChild(c, p)
      PROVE  \E i \in Slots : Lives(i)
  <2>1. p[1] \in Slots /\ procs[p[1]].pid = p
    BY <1>1 DEF TerminateChild, Found
  <2> QED BY <2>1, <1>1 DEF Lives
<1>2. \A i \in Slots : Start(i) \/ End(i) \/ Open(i) \/ CloseHandle(i) => Lives(i)
  BY DEF Lives
<1> QED BY <1>1, <1>2 DEF Next

\* Every step keeps the tables in agreement and moves every slot as it may.
LEMMA StepShape ==
  ASSUME ProcessesInv, Next
  PROVE  /\ SlotsOK(procs') /\ Agree(procs', jobs') /\ init_spawned' \in BOOLEAN
         /\ init_spawned => init_spawned'
         /\ \A i \in Slots : Moved(procs[i], procs'[i], i)
<1>1. init_spawned \in BOOLEAN /\ NullPid \in Callers
  BY DEF ProcessesInv, Callers
<1>2. CASE SpawnInit \/ SpawnInitThreadFails
  <2>1. \A i \in Slots : i # 1 => Moved(procs[i], procs'[i], i)
    BY <1>2, InitEffect DEF Moved, Kept
  <2>2. Moved(procs[1], procs'[1], 1)
    <3>1. CASE init_spawned'
      BY <3>1, <1>1, <1>2, InitEffect DEF Moved
    <3>2. CASE ~init_spawned'
      <4>1. SlotOK(procs'[1], 1) /\ procs'[1].pid = NullPid
        BY <3>2, <1>2, InitEffect DEF SlotsOK
      <4>2. procs'[1].state = "Empty"
        BY <4>1 DEF SlotOK
      <4> QED BY <4>1, <4>2, <1>1, <1>2, InitEffect DEF Moved
    <3> QED BY <3>1, <3>2
  <2> QED BY <2>1, <2>2, <1>1, <1>2, InitEffect
<1>3. ASSUME NEW i \in Slots, Lives(i)
      PROVE  /\ SlotsOK(procs') /\ Agree(procs', jobs') /\ UNCHANGED init_spawned
             /\ \A k \in Slots : Moved(procs[k], procs'[k], k)
  <2>1. \A k \in Slots : Kept(procs[k], procs'[k]) => Moved(procs[k], procs'[k], k)
    BY DEF Moved, Kept
  <2> QED BY <2>1, <1>3, LivesEffect
<1>4. ASSUME NEW c \in Callers, Spawn(c)
      PROVE  /\ SlotsOK(procs') /\ Agree(procs', jobs') /\ UNCHANGED init_spawned
             /\ \A k \in Slots : Moved(procs[k], procs'[k], k)
  <2>1. SlotsOK(procs') /\ Agree(procs', jobs') /\ UNCHANGED init_spawned /\ Spared(procs, procs', c)
    BY <1>4, SpawnEffect
  <2>2. \A k \in Slots : procs'[k] = procs[k] => Moved(procs[k], procs'[k], k)
    BY DEF Moved, Kept
  <2>3. \A k \in Slots : Respawned(procs[k], procs'[k], k, c) => Moved(procs[k], procs'[k], k)
    BY <1>1 DEF Moved, Respawned
  <2> QED BY <2>1, <2>2, <2>3 DEF Spared
<1>5. ASSUME NEW c \in Callers, NEW p \in Callers, Wait(c, p)
      PROVE  /\ SlotsOK(procs') /\ Agree(procs', jobs') /\ UNCHANGED init_spawned
             /\ \A k \in Slots : Moved(procs[k], procs'[k], k)
  <2>1. /\ SlotsOK(procs') /\ Agree(procs', jobs') /\ UNCHANGED init_spawned
        /\ p[1] \in Slots /\ procs'[p[1]] = Cleared(procs[p[1]].gen)
        /\ \A i \in Slots : i # p[1] => procs'[i] = procs[i]
    BY <1>5, WaitEffect
  <2>2. procs[p[1]].gen \in 0 .. MaxGen
    BY <2>1 DEF ProcessesInv, SlotsOK, ProcessRecords
  <2>3. Moved(procs[p[1]], procs'[p[1]], p[1])
    BY <2>1, <2>2, <1>1, ClearedFits DEF Moved
  <2>4. \A k \in Slots : procs'[k] = procs[k] => Moved(procs[k], procs'[k], k)
    BY DEF Moved, Kept
  <2> QED BY <2>1, <2>3, <2>4
<1> QED BY <1>1, <1>2, <1>3, <1>4, <1>5, NextCases

\* A pid that was given out, or that a process has for a parent, is never given
\* out again.
LEMMA TracedNext ==
  ASSUME ProcessesInv, Next
  PROVE  Traced(procs', init_spawned')
<1>1. /\ \A i \in Slots : Moved(procs[i], procs'[i], i)
      /\ \A i \in Slots : procs[i].gen \in Nat /\ procs'[i].gen \in Nat
      /\ init_spawned => init_spawned'
  BY StepShape DEF ProcessesInv, SlotsOK, ProcessRecords
<1>2. \A i \in Slots : procs'[i].gen >= procs[i].gen
  BY <1>1 DEF Moved, Kept
<1>3. ASSUME NEW i \in Slots, procs'[i].pid = InitPid
      PROVE  init_spawned'
  <2>1. InitPid # NullPid /\ <<i, procs[i].gen + 1>> # InitPid
    BY <1>1 DEF InitPid, NullPid
  <2>2. procs[i].pid = InitPid => init_spawned
    BY Zenon DEF ProcessesInv, Traced
  <2>3. Moved(procs[i], procs'[i], i) /\ (init_spawned => init_spawned')
    BY <1>1
  <2> QED BY <2>1, <2>2, <2>3, <1>3, Zenon DEF Moved, Kept
<1>4. ASSUME NEW i \in Slots, NEW p, p = procs'[i].parent, p # NullPid
      PROVE  /\ p = InitPid => init_spawned'
             /\ p[1] \in Slots /\ p[2] <= procs'[p[1]].gen
  <2>1. /\ p = InitPid => init_spawned
        /\ p[1] \in Slots /\ p[2] <= procs[p[1]].gen
    <3>1. CASE p = procs[i].parent
      BY <3>1, <1>4, Zenon DEF ProcessesInv, Traced
    <3>2. CASE p \in Callers
      BY <3>2, <1>4, CallerKnown
    <3> QED BY <3>1, <3>2, <1>1, <1>4 DEF Moved
  <2>2. p[2] \in Nat
    <3>1. p \in AllPids
      BY <1>4, StepShape DEF SlotsOK, ProcessRecords
    <3> QED BY <3>1, ProcessCapacities DEF AllPids
  <2> QED BY <2>1, <2>2, <1>1, <1>2
<1>5. \A i \in Slots : procs'[i].parent = InitPid => init_spawned'
  <2>1. InitPid # NullPid
    BY DEF InitPid, NullPid
  <2> QED BY <2>1, <1>4
<1> QED BY <1>3, <1>4, <1>5 DEF Traced

\* The process table in its initial state, and at every step.
LEMMA ProcessesInvariant == Spec => []ProcessesInv
<1>1. Init => ProcessesInv
  <2> SUFFICES ASSUME Init PROVE ProcessesInv
    OBVIOUS
  <2>1. /\ \A i \in Slots : procs[i] = Cleared(0) /\ SlotOK(procs[i], i) /\ procs[i].state = "Empty"
        /\ \A i \in Slots : procs[i].pid = NullPid /\ procs[i].parent = NullPid
        /\ procs = [i \in Slots |-> procs[i]]
    BY ClearedFits, ProcessCapacities DEF Init
  <2>2. SlotsOK(procs)
    BY <2>1 DEF SlotsOK, SlotOK
  <2>3. Agree(procs, jobs)
    BY <2>1, JobCapacities DEF Init, JobsInit, FreeJob, JobShapes, Agree
  <2>4. Traced(procs, init_spawned)
    BY <2>1 DEF Traced, InitPid, NullPid
  <2> QED BY <2>2, <2>3, <2>4, Zenon DEF ProcessesInv, Init
<1>2. ProcessesInv /\ [Next]_vars => ProcessesInv'
  <2> SUFFICES ASSUME ProcessesInv, [Next]_vars PROVE ProcessesInv'
    OBVIOUS
  <2>1. CASE Next
    BY <2>1, StepShape, TracedNext DEF ProcessesInv
  <2>2. CASE UNCHANGED vars
    BY <2>2, Zenon DEF vars, ProcessesInv, SlotsOK, Agree, SpawnedInto, PidsOf, Decodes, Traced
  <2> QED BY <2>1, <2>2
<1> QED BY <1>1, <1>2, PTL DEF Spec

\* The members of every job are exactly the processes spawned into it, zombies
\* included, their job exists, every slot holds what its state allows, and a job
\* never refuses a child of one of its processes (process.cpp with job.cpp).
THEOREM JobMembersAreProcesses == Spec => []MembersAreProcesses
<1>1. ProcessesInv => MembersAreProcesses
  <2> SUFFICES ASSUME ProcessesInv PROVE MembersAreProcesses
    OBVIOUS
  <2>1. TypeOK
    <3> SUFFICES ASSUME NEW i \in Slots
                 PROVE  LET p == procs[i] IN
                        /\ p.state \in {"Empty", "Ready", "Running", "Zombie"} /\ p.gen \in 0 .. MaxGen
                        /\ p.handles \in 0 .. MaxHandles /\ p.job \in JobIds
                        /\ p.parent \in AllPids \cup {NullPid}
                        /\ (p.state = "Empty") = (p.pid = NullPid)
                        /\ p.pid \in {NullPid, InitPid, <<i, p.gen>>}
                        /\ p.state = "Zombie" => p.handles = 0
      BY Zenon DEF TypeOK
    <3>1. SlotOK(procs[i], i)
      BY DEF ProcessesInv, SlotsOK
    <3> QED BY <3>1 DEF SlotOK, ProcessRecords, InitPid
  <2>2. ASSUME NEW j \in JobSlots, jobs[j].active
        PROVE  jobs[j].members = PidsOf(procs, {i \in Slots : /\ procs[i].state # "Empty"
                                                              /\ procs[i].job = <<j, jobs[j].gen>>})
    BY <2>2, Zenon DEF ProcessesInv, Agree, SpawnedInto
  <2>3. \A i \in Slots : procs[i].state # "Empty" /\ procs[i].job # NoJob => Decodes(jobs, procs[i].job)
    BY DEF ProcessesInv, Agree
  <2>4. InheritSucceeds
    BY RoomForChild DEF InheritSucceeds
  <2> QED BY <2>1, <2>2, <2>3, <2>4, Zenon DEF MembersAreProcesses
<1> QED BY <1>1, ProcessesInvariant, PTL

\* A parent that is gone does not come back under the same pid.
LEMMA GoneStaysGone ==
  ASSUME ProcessesInv, Next, NEW i \in Slots, NEW p, p = procs[i].parent, p # NullPid,
         LiveParent(procs', p)
  PROVE  LiveParent(procs, p)
<1>1. PICK k : k = p[1]
  BY Zenon
<1>2. /\ k \in Slots /\ p[2] <= procs[k].gen /\ p[2] \in Nat /\ procs[k].gen \in Nat
      /\ p = InitPid => init_spawned
  <2>1. p \in AllPids
    BY DEF ProcessesInv, SlotsOK, ProcessRecords
  <2>2. /\ k \in Slots /\ p[2] <= procs[k].gen
        /\ p = InitPid => init_spawned
    BY <1>1 DEF ProcessesInv, Traced
  <2>3. procs[k].gen \in Nat
    BY <2>2 DEF ProcessesInv, SlotsOK, ProcessRecords
  <2> QED BY <2>1, <2>2, <2>3, ProcessCapacities DEF AllPids
<1>3. procs'[k].state \notin {"Empty", "Zombie"} /\ procs'[k].pid = p
  BY <1>1 DEF LiveParent, Found
<1>4. Moved(procs[k], procs'[k], k)
  BY <1>2, StepShape
<1>5. p # <<k, procs[k].gen + 1>>
  BY <1>2
<1>6. Kept(procs[k], procs'[k])
  BY <1>2, <1>3, <1>4, <1>5, Zenon DEF Moved
<1> QED BY <1>1, <1>2, <1>3, <1>6, Zenon DEF Kept, LiveParent, Found

\* While its parent lives, only a wait() of the parent, or of the kernel before
\* init, takes the slot of a process.
LEMMA OnlyWaitEmpties ==
  ASSUME ProcessesInv, Next, NEW i \in Slots, procs[i].state # "Empty",
         procs'[i].pid # procs[i].pid, LiveParent(procs, procs[i].parent)
  PROVE  \/ Wait(procs[i].parent, procs[i].pid)
         \/ ~init_spawned /\ Wait(NullPid, procs[i].pid)
<1>1. ~(SpawnInit \/ SpawnInitThreadFails)
  BY InitEffect
<1>2. ASSUME NEW k \in Slots, Lives(k) PROVE FALSE
  BY <1>2, LivesEffect DEF Kept
<1>3. ASSUME NEW c \in Callers, Spawn(c) PROVE FALSE
  BY <1>3, SpawnEffect DEF Spared, OrphanZombies
<1>4. ASSUME NEW c \in Callers, NEW p \in Callers, Wait(c, p)
      PROVE  \/ Wait(procs[i].parent, procs[i].pid)
             \/ ~init_spawned /\ Wait(NullPid, procs[i].pid)
  <2>1. i = p[1] /\ procs[i].pid = p
    BY <1>4, WaitEffect
  <2>2. c # NullPid => procs[i].parent = c
    BY <2>1, <1>4 DEF Wait
  <2>3. c = NullPid => ~init_spawned
    <3>1. NullPid[1] \notin Slots
      BY ProcessCapacities DEF NullPid, Slots
    <3>2. ProcessCalls(c)
      BY <1>4, Zenon DEF Wait
    <3> QED BY <3>1, <3>2, Zenon DEF ProcessCalls, Found
  <2>4. c = NullPid \/ c = procs[i].parent
    BY <2>2
  <2> QED BY <2>1, <2>3, <2>4, <1>4, Zenon
<1> QED BY <1>1, <1>2, <1>3, <1>4, NextCases, Zenon

\* After a spawn(), whatever its outcome, every zombie has a parent to wait for it.
LEMMA NoOrphanLeft ==
  ASSUME ProcessesInv, NEW c \in Callers, Spawn(c), NEW i \in Slots, procs'[i].state = "Zombie"
  PROVE  LiveParent(procs', procs'[i].parent)
<1>1. Spared(procs, procs', c)
  BY SpawnEffect
<1>2. procs'[i] = procs[i] /\ i \notin OrphanZombies(procs)
  BY <1>1 DEF Spared, Respawned
<1>3. procs[i].handles = 0
  BY <1>2 DEF ProcessesInv, SlotsOK, SlotOK
<1>4. PICK p : p = procs[i].parent
  BY Zenon
<1>5. LiveParent(procs, p)
  BY <1>2, <1>3, <1>4 DEF OrphanZombies
<1>6. p[1] \in Slots /\ procs[p[1]].state \notin {"Empty", "Zombie"} /\ procs[p[1]].pid = p
  BY <1>5 DEF LiveParent, Found
<1>7. procs'[p[1]] = procs[p[1]]
  BY <1>1, <1>6 DEF Spared, OrphanZombies
<1> QED BY <1>2, <1>4, <1>6, <1>7 DEF LiveParent, Found

\* A zombie stays as long as its parent may wait for it and no longer, and an
\* orphan never acquires another parent (reap_orphan_zombies() and wait()).
THEOREM ZombiesWaitForTheirParent == Spec => ZombiesStayForTheirParent
<1> DEFINE Orphan(i) ==
             /\ procs[i].state # "Empty" /\ procs'[i].pid = procs[i].pid
             /\ procs[i].parent # NullPid /\ ~LiveParent(procs, procs[i].parent)
             => ~LiveParent(procs', procs[i].parent)
           Emptied(i) ==
             /\ procs[i].state # "Empty" /\ procs'[i].pid # procs[i].pid
             /\ LiveParent(procs, procs[i].parent)
             => \/ Wait(procs[i].parent, procs[i].pid)
                \/ ~init_spawned /\ Wait(NullPid, procs[i].pid)
           Left(i) ==
             LET p == procs'[i].parent IN
             procs'[i].state = "Zombie" /\ (Found(procs', p) => procs'[p[1]].state = "Zombie")
             => \A c \in Callers : ~Spawn(c)
<1>1. ProcessesInv /\ [Next]_vars => [\A i \in Slots : Orphan(i)]_vars
  BY GoneStaysGone
<1>2. ProcessesInv /\ [Next]_vars => [/\ \A i \in Slots : Emptied(i)
                                     /\ \A i \in Slots : Left(i)]_vars
  <2>1. ASSUME ProcessesInv, Next, NEW i \in Slots PROVE Emptied(i)
    BY <2>1, OnlyWaitEmpties, Zenon
  <2>2. ASSUME ProcessesInv, NEW i \in Slots PROVE Left(i)
    BY <2>2, NoOrphanLeft DEF LiveParent
  <2> QED BY <2>1, <2>2
<1>3. Spec => OrphansStayOrphans
  BY <1>1, ProcessesInvariant, PTL DEF Spec, OrphansStayOrphans
<1> QED BY <1>2, <1>3, ProcessesInvariant, PTL DEF Spec, ZombiesStayForTheirParent
===============================================================================
