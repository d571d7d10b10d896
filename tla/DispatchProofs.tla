---------------------------- MODULE DispatchProofs ----------------------------
(***************************************************************************)
(* Proofs about the execution of kernel threads (module Dispatch): threads *)
(* bound to one processor each keep their stacks to themselves.            *)
(***************************************************************************)
EXTENDS Dispatch, SchedulerProofs

-------------------------------------------------------------------------------
\* What StackExclusive rests on.  The slots U in use are the registered threads,
\* each bound to its processor.
Bonds(P, U) ==
  /\ Tables(P) /\ Affine(P, AllCpus)
  /\ \A t \in Threads : P.stat[t].used <=> t \in U
  /\ \A t \in Threads : P.stat[t].used => P.stat[t].affinity = Affinity[t]

\* The registers of a processor: the thread it is on and the one it has chosen
\* are bound to it and in use, and the former is where it got to.
CpuRecords ==
  [pc : {"boot", "picked", "run", "leave", "offer", "switch"},
   thread : Threads \cup {NoThread}, next : Threads \cup {NoThread},
   pos : Nat, budget : Budgets \cup {0, 1}, switches : Nat]
CpuOK(c, r, U, Y) ==
  /\ r \in CpuRecords
  /\ r.thread # NoThread => r.thread \in U /\ Affinity[r.thread] = {c} /\ r.pos = Y[r.thread]
  /\ r.next # NoThread => r.next \in U /\ Affinity[r.next] = {c} /\ r.next # r.thread
  /\ r.pc = "boot" => r = Boot
  /\ r.pc \in {"run", "leave", "offer"} => r.thread # NoThread
  /\ r.pc = "picked" => r.next # NoThread
  /\ r.pc = "switch" /\ r.next = NoThread => r.thread # NoThread

\* The context of a thread that its processor is not on is the last one.
ContextOK(C, X, Y, t) == \A c \in AllCpus : Affinity[t] = {c} /\ C[c].thread # t => X[t] = Y[t]

Execution(C, X, Y, U) ==
  /\ C \in [AllCpus -> CpuRecords] /\ X \in [Threads -> Nat] /\ Y \in [Threads -> Nat]
  /\ \A c \in AllCpus : CpuOK(c, C[c], U, Y)
  /\ \A t \in Threads : ContextOK(C, X, Y, t)

\* All of it; while the boot processor runs alone, the others rest.
SlotStates == {"Empty", "Ready", "Running", "Terminated"}
InUse(S) == {t \in Threads : S[t] # "Empty"}
Alone(C) == \A c \in AllCpus : c # 0 => C[c] = Boot
DispatchInv ==
  /\ cpu_count = NCpus /\ solo \in BOOLEAN /\ slot \in [Threads -> SlotStates]
  /\ Bonds(policy, InUse(slot))
  /\ Execution(cpu, saved_context, yields, InUse(slot))
  /\ solo => Alone(cpu)

-------------------------------------------------------------------------------
\* Replacing a registered thread's record by one that is used, at the same
\* affinity, keeps the bonds.
LEMMA BondsReplaced ==
  ASSUME NEW P, NEW U, Bonds(P, U), NEW t \in Threads, NEW r, r.used = P.stat[t].used,
         r.affinity = P.stat[t].affinity, NEW Q, Tables(Q), Affine(Q, AllCpus),
         Q.stat = [P.stat EXCEPT ![t] = r]
  PROVE  Bonds(Q, U)
<1>1. P.stat \in [Threads -> StatRecords]
  BY DEF Bonds, Tables, PolicyRecords
<1>2. \A u \in Threads : Q.stat[u].used = P.stat[u].used /\ Q.stat[u].affinity = P.stat[u].affinity
  BY <1>1
<1> QED BY <1>2, Zenon DEF Bonds

\* set_state() of a thread in use.
LEMMA BondsSetState ==
  ASSUME NEW P, NEW U, Bonds(P, U), NEW t \in Threads, t \in U, NEW s \in States
  PROVE  Bonds(SetState(P, t, s), U)
<1>1. PICK r, Q : r = [P.stat[t] EXCEPT !.state = s] /\ Q = SetState(P, t, s)
  BY Zenon
<1>2. Tables(P) /\ Affine(P, AllCpus) /\ P.stat[t].used /\ P.stat[t] \in StatRecords
  BY DEF Bonds, Tables, PolicyRecords
<1>3. Tables(Q) /\ Replaced(P, Q, t, r) /\ Affine(Q, AllCpus)
  BY <1>1, <1>2, SetStateOK, SetStateAffine
<1>4. r.used = P.stat[t].used /\ r.affinity = P.stat[t].affinity
  BY <1>1, <1>2, Zenon DEF StatRecords
<1>5. Q.stat = [P.stat EXCEPT ![t] = r]
  BY <1>3 DEF Replaced
<1>6. Bonds(Q, U)
  BY <1>3, <1>4, <1>5, BondsReplaced
<1> QED BY <1>1, <1>6

\* pick_next() takes a thread bound to the processor it is called on.
LEMMA BondsPick ==
  ASSUME NEW P, NEW U, Bonds(P, U), NEW c \in AllCpus, NEW x
  PROVE  /\ Bonds(PickNext(P, AllCpus, c, x), U)
         /\ LET t == Picked(P, AllCpus, c, x) IN
            t # NoThread => t \in Threads /\ t \in U /\ t # x /\ Affinity[t] = {c}
<1>1. PICK Q, t : Q = PickNext(P, AllCpus, c, x) /\ t = Picked(P, AllCpus, c, x)
  BY Zenon
<1>2. Tables(P) /\ Affine(P, AllCpus) /\ AllCpus \in SUBSET AllCpus
  BY DEF Bonds
<1>3. PickKept(P, AllCpus, c, x, Q, t)
  BY <1>1, <1>2, PickOK, Zenon
<1>4. CASE Runnable(P, c, x) = {}
  BY <1>1, <1>3, <1>4 DEF PickKept
<1>5. CASE Runnable(P, c, x) # {}
  <2>1. /\ t \in Threads /\ Dispatchable(P, t, c, x) /\ Q.stat = RunsOn(P, t, c)
        /\ Tables(Q) /\ Affine(Q, AllCpus)
    BY <1>3, <1>5 DEF PickKept, Foremost, Choice, LocalOnes, Runnable
  <2>2. t # x /\ P.stat[t].used /\ c \in P.stat[t].affinity
    BY <2>1 DEF Dispatchable
  <2>3. t \in U /\ c \in Affinity[t]
    BY <2>1, <2>2 DEF Bonds
  <2>4. Affinity[t] = {c}
    BY <2>1, <2>3, DispatchCapacities
  <2>5. PICK r : r = [P.stat[t] EXCEPT !.state = "Running", !.last = c, !.home = c]
    BY Zenon
  <2>6. P.stat \in [Threads -> StatRecords]
    BY <1>2 DEF Tables, PolicyRecords
  <2>7. r.used = P.stat[t].used /\ r.affinity = P.stat[t].affinity
    BY <2>1, <2>5, <2>6 DEF StatRecords
  <2>8. Q.stat = [P.stat EXCEPT ![t] = r]
    BY <2>1, <2>5, <2>6 DEF RunsOn
  <2>9. Bonds(Q, U)
    BY <2>1, <2>7, <2>8, BondsReplaced, Zenon
  <2> QED BY <1>1, <2>1, <2>2, <2>3, <2>4, <2>9
<1> QED BY <1>4, <1>5

\* cancel_dispatch() changes at most the state of the thread.
LEMMA BondsCancel ==
  ASSUME NEW P, NEW U, Bonds(P, U), NEW t \in Threads, t \in U, NEW c
  PROVE  Bonds(CancelDispatch(P, t, c), U)
<1>1. Bonds(SetState(P, t, "Ready"), U)
  BY BondsSetState DEF States
<1> QED BY <1>1 DEF CancelDispatch

\* reap_terminated() unregisters the terminated threads and no others.
LEMMA BondsReap ==
  ASSUME NEW P, NEW U, Bonds(P, U), NEW D \in SUBSET Threads, D \subseteq U
  PROVE  Bonds(ReapedBy(P, D), U \ D)
<1>1. PICK N \in Nat : N = Cardinality(Threads) /\ Threads = 1 .. N
  BY DispatchCapacities, PolicyCapacities
<1>2. PICK dead : dead = [t \in D |-> t]
  BY Zenon
<1>3. Tables(P) /\ Affine(P, AllCpus) /\ AllCpus \in SUBSET AllCpus /\ D \subseteq Registered(P)
  BY DEF Bonds, Registered
<1>4. dead \in [D -> Registered(P)] /\ IsInjective(dead) /\ D \in SUBSET (1 .. N)
  BY <1>1, <1>2, <1>3, Zenon DEF IsInjective
<1>5. PICK Q : Q = ReapedBy(P, D) /\ Q = UnregisterInTurn(P, dead, N)
  BY <1>1, <1>2, Zenon DEF ReapedBy
<1>6. /\ Tables(Q) /\ Affine(Q, AllCpus)
      /\ \A t \in Threads : Q.stat[t] = IF \E j \in D : dead[j] = t THEN Unused ELSE P.stat[t]
  BY <1>3, <1>4, <1>5, UnregisterInTurnOK
<1>7. \A t \in Threads : Q.stat[t] = IF t \in D THEN Unused ELSE P.stat[t]
  BY <1>2, <1>6
<1>8. Bonds(Q, U \ D)
  BY <1>6, <1>7 DEF Bonds, Unused
<1> QED BY <1>5, <1>8

\* create() and set_affinity() register a thread and bind it.
LEMMA BondsCreate ==
  ASSUME NEW P, NEW U \in SUBSET Threads, Bonds(P, U), NEW t \in Threads, t \notin U
  PROVE  Bonds(SetAffinity(RegisterThread(P, t, 1, AllCpus, 0), t, Affinity[t]), U \cup {t})
<1>1. PICK Q, R : Q = RegisterThread(P, t, 1, AllCpus, 0) /\ R = SetAffinity(Q, t, Affinity[t])
  BY Zenon
<1>2. PICK d \in AllCpus : Affinity[t] = {d}
  BY DispatchCapacities
<1>3. Tables(P) /\ Affine(P, AllCpus) /\ ~P.stat[t].used /\ AllCpus \in SUBSET AllCpus /\ AllCpus # {}
  BY <1>2 DEF Bonds
<1>4. Cardinality(Registered(P)) < NSlots
  <2>1. Registered(P) \in SUBSET (Threads \ {t})
    BY <1>3 DEF Registered
  <2>2. IsFiniteSet(Threads) /\ Cardinality(Threads) \in Nat
    BY DispatchCapacities, PolicyCapacities, FS_Interval
  <2>3. Cardinality(Threads \ {t}) = Cardinality(Threads) - 1 /\ IsFiniteSet(Threads \ {t})
    BY <2>2, FS_RemoveElement
  <2>4. Cardinality(Registered(P)) <= Cardinality(Threads \ {t}) /\ Cardinality(Registered(P)) \in Nat
    BY <2>1, <2>3, FS_Subset, FS_CardinalityType, Zenon
  <2> QED BY <2>2, <2>3, <2>4, DispatchCapacities, PolicyCapacities
<1>5. Tables(Q) /\ Affine(Q, AllCpus)
  BY <1>1, <1>3, <1>4, RegisterOK, DispatchCapacities
<1>6. /\ P.stat \in [Threads -> StatRecords] /\ Q.stat \in [Threads -> StatRecords]
      /\ \A u \in Threads : u # t => Q.stat[u] = P.stat[u]
      /\ Q.stat[t].used
  BY <1>1, <1>3, <1>5 DEF RegisterThread, Tables, PolicyRecords
<1>7. Tables(R) /\ Affine(R, AllCpus)
  BY <1>1, <1>2, <1>5, <1>6, SetAffinityOK
<1>8. \A u \in Threads : u # t => R.stat[u] = Q.stat[u]
  BY <1>1, <1>6 DEF SetAffinity, Migrate
<1>9. R.stat[t].used /\ R.stat[t].affinity = Affinity[t]
  BY <1>1, <1>6 DEF SetAffinity, Migrate, StatRecords
<1> QED BY <1>1, <1>6, <1>7, <1>8, <1>9 DEF Bonds

-------------------------------------------------------------------------------
\* A thread is bound to one processor only.
LEMMA OneProcessor ==
  ASSUME NEW t \in Threads
  PROVE  (\E c \in AllCpus : Affinity[t] = {c}) /\ \A c, d : Affinity[t] = {c} /\ Affinity[t] = {d} => c = d
BY DispatchCapacities

\* A step of processor c that leaves the threads bound to others alone.
LEMMA StepOfOne ==
  ASSUME NEW C, NEW X, NEW Y, NEW U, Execution(C, X, Y, U), NEW c \in AllCpus, NEW r,
         NEW X2 \in [Threads -> Nat], NEW Y2 \in [Threads -> Nat], CpuOK(c, r, U, Y2),
         \A t \in Threads : Affinity[t] # {c} => X2[t] = X[t] /\ Y2[t] = Y[t],
         \A t \in Threads : Affinity[t] = {c} /\ r.thread # t => X2[t] = Y2[t]
  PROVE  Execution([C EXCEPT ![c] = r], X2, Y2, U)
<1>1. PICK D : D = [C EXCEPT ![c] = r]
  BY Zenon
<1>2. C \in [AllCpus -> CpuRecords] /\ r \in CpuRecords
  BY DEF Execution, CpuOK
<1>3. D \in [AllCpus -> CpuRecords] /\ D[c] = r /\ \A d \in AllCpus : d # c => D[d] = C[d]
  BY <1>1, <1>2
<1>4. ASSUME NEW d \in AllCpus PROVE CpuOK(d, D[d], U, Y2)
  <2>1. CASE d = c
    BY <1>3, <2>1
  <2>2. CASE d # c
    <3>1. CpuOK(d, C[d], U, Y) /\ D[d] = C[d] /\ C[d].thread \in Threads \cup {NoThread}
      BY <1>2, <1>3, <2>2 DEF Execution, CpuRecords
    <3>2. ASSUME C[d].thread # NoThread PROVE Y2[C[d].thread] = Y[C[d].thread]
      <4>1. C[d].thread \in Threads /\ Affinity[C[d].thread] = {d}
        BY <3>1, <3>2 DEF CpuOK
      <4> QED BY <2>2, <4>1
    <3> QED BY <3>1, <3>2 DEF CpuOK
  <2> QED BY <2>1, <2>2
<1>5. ASSUME NEW t \in Threads, NEW d \in AllCpus, Affinity[t] = {d}, D[d].thread # t
      PROVE  X2[t] = Y2[t]
  <2>1. CASE d = c
    BY <1>3, <1>5, <2>1
  <2>2. CASE d # c
    <3>1. X2[t] = X[t] /\ Y2[t] = Y[t] /\ C[d].thread # t
      BY <1>3, <1>5, <2>2
    <3> QED BY <1>5, <3>1 DEF Execution, ContextOK
  <2> QED BY <2>1, <2>2
<1> QED BY <1>1, <1>3, <1>4, <1>5 DEF Execution, ContextOK

\* A step of processor c that stays on its thread.
LEMMA SameThread ==
  ASSUME NEW C, NEW X, NEW Y, NEW U, Execution(C, X, Y, U), NEW c \in AllCpus, NEW r,
         CpuOK(c, r, U, Y), r.thread = C[c].thread
  PROVE  Execution([C EXCEPT ![c] = r], X, Y, U)
<1>1. X \in [Threads -> Nat] /\ Y \in [Threads -> Nat]
  BY DEF Execution
<1>2. \A t \in Threads : Affinity[t] = {c} /\ r.thread # t => X[t] = Y[t]
  BY DEF Execution, ContextOK
<1> QED BY <1>1, <1>2, StepOfOne

\* Processors at rest.
LEMMA AllAtBoot ==
  ASSUME NEW C, C = [c \in AllCpus |-> Boot], NEW X \in [Threads -> Nat], NEW U
  PROVE  Execution(C, X, X, U)
<1>1. Boot \in CpuRecords
  BY DEF Boot, CpuRecords
<1>2. \A c \in AllCpus : CpuOK(c, Boot, U, X)
  BY <1>1 DEF CpuOK, Boot
<1> QED BY <1>1, <1>2 DEF Execution, ContextOK

\* When all processors are at rest, every context is the last one.
LEMMA Rested ==
  ASSUME NEW C, NEW X, NEW Y, NEW U, Execution(C, X, Y, U), \A c \in AllCpus : C[c].pc = "boot"
  PROVE  X = Y /\ X \in [Threads -> Nat] /\ C = [c \in AllCpus |-> Boot]
<1>1. /\ C \in [AllCpus -> CpuRecords] /\ X \in [Threads -> Nat] /\ Y \in [Threads -> Nat]
      /\ \A c \in AllCpus : C[c] = Boot
  BY DEF Execution, CpuOK
<1>2. C = [c \in AllCpus |-> Boot]
  BY <1>1
<1>3. ASSUME NEW t \in Threads PROVE X[t] = Y[t]
  <2>1. PICK c \in AllCpus : Affinity[t] = {c}
    BY OneProcessor
  <2>2. C[c].thread # t
    BY <1>1, <2>1, DispatchCapacities DEF Boot
  <2> QED BY <2>1, <2>2 DEF Execution, ContextOK
<1> QED BY <1>1, <1>2, <1>3

\* What reap_terminated() leaves of the slots.
LEMMA ClearedSlots ==
  ASSUME NEW S \in [Threads -> SlotStates], NEW D, D = {t \in Threads : S[t] = "Terminated"}
  PROVE  /\ Cleared(S, D, "Empty") \in [Threads -> SlotStates]
         /\ D \in SUBSET Threads /\ D \subseteq InUse(S)
         /\ InUse(Cleared(S, D, "Empty")) = InUse(S) \ D
<1>1. Cleared(S, D, "Empty") \in [Threads -> SlotStates]
  BY DEF Cleared, SlotStates
<1>2. D \in SUBSET Threads /\ D \subseteq InUse(S)
  BY DEF InUse
<1>3. InUse(Cleared(S, D, "Empty")) = InUse(S) \ D
  BY DEF InUse, Cleared
<1> QED BY <1>1, <1>2, <1>3

\* Setting the state of a slot in use does not empty it.
LEMMA SlotSet ==
  ASSUME NEW S \in [Threads -> SlotStates], NEW t \in Threads, t \in InUse(S),
         NEW s \in SlotStates \ {"Empty"}
  PROVE  [S EXCEPT ![t] = s] \in [Threads -> SlotStates] /\ InUse([S EXCEPT ![t] = s]) = InUse(S)
<1>1. [S EXCEPT ![t] = s] \in [Threads -> SlotStates]
  OBVIOUS
<1>2. InUse([S EXCEPT ![t] = s]) = InUse(S)
  BY DEF InUse
<1> QED BY <1>1, <1>2

\* The reservation of find_ready() on a processor that is on thread r.thread.
LEMMA ReserveOK ==
  ASSUME NEW P, NEW U, Bonds(P, U), NEW c \in AllCpus, NEW Y, NEW r \in CpuRecords,
         r.thread # NoThread => r.thread \in U /\ Affinity[r.thread] = {c} /\ r.pos = Y[r.thread],
         NEW t, t = Picked(P, AllCpus, c, r.thread), t # NoThread
  PROVE  CpuOK(c, [r EXCEPT !.pc = "picked", !.next = t], U, Y)
<1>1. t \in Threads /\ t \in U /\ t # r.thread /\ Affinity[t] = {c}
  BY BondsPick
<1>2. PICK q : q = [r EXCEPT !.pc = "picked", !.next = t]
  BY Zenon
<1>3. /\ q \in CpuRecords /\ q.pc = "picked" /\ q.next = t
      /\ q.thread = r.thread /\ q.pos = r.pos
  BY <1>1, <1>2, Zenon DEF CpuRecords
<1>4. CpuOK(c, q, U, Y)
  BY <1>1, <1>3 DEF CpuOK
<1> QED BY <1>2, <1>4

\* The smallest free slot is one of them.
LEMMA FirstFree ==
  ASSUME NEW F \in SUBSET Threads, F # {}
  PROVE  (CHOOSE u \in F : \A v \in F : u <= v) \in F
<1>1. F \in SUBSET Nat
  BY DispatchCapacities
<1>2. \E u \in F : \A v \in F : u <= v
  BY <1>1, LeastNatural
<1> QED BY <1>2, Zenon

-------------------------------------------------------------------------------
\* create() and set_affinity().
LEMMA CreateKeeps == ASSUME DispatchInv, Create PROVE DispatchInv'
<1> DEFINE free == {t \in Threads : slot[t] \in {"Empty", "Terminated"}}
<1>1. PICK t : t = CHOOSE u \in free : \A v \in free : u <= v
  BY Zenon
<1>2. CASE free = {}
  <2>1. UNCHANGED dispatch_vars
    BY <1>2 DEF Create, dispatch_vars
  <2> QED BY <2>1 DEF DispatchInv, dispatch_vars
<1>3. CASE free # {}
  <2>1. t \in free
    <3>1. free \in SUBSET Threads
      OBVIOUS
    <3> HIDE DEF free
    <3> QED BY <1>1, <1>3, <3>1, FirstFree
  <2>2. PICK S, D, U, Q : /\ S = Cleared(slot, Dead, "Empty") /\ D = Dead /\ U = InUse(slot) \ D
                          /\ Q = ReapedBy(policy, D)
    BY Zenon
  <2>3. /\ \A c \in AllCpus : cpu[c].pc = "boot"
        /\ policy' = SetAffinity(RegisterThread(Q, t, 1, AllCpus, 0), t, Affinity[t])
        /\ slot' = [S EXCEPT ![t] = "Ready"]
        /\ saved_context' = Cleared(saved_context, D, 0) /\ yields' = Cleared(yields, D, 0)
        /\ cpu_count' = cpu_count /\ cpu' = cpu /\ solo' = solo
    BY <1>1, <1>3, <2>2 DEF Create, Reaped
  <2>4. S \in [Threads -> SlotStates] /\ D \in SUBSET Threads /\ D \subseteq InUse(slot) /\ InUse(S) = U
    BY <2>2, ClearedSlots DEF DispatchInv, Dead
  <2>5. t \in Threads /\ t \notin U /\ U \in SUBSET Threads
    BY <2>1, <2>2 DEF InUse, Dead
  <2>6. slot' \in [Threads -> SlotStates] /\ InUse(slot') = U \cup {t}
    BY <2>3, <2>4, <2>5 DEF InUse, SlotStates
  <2>7. Bonds(Q, U)
    BY <2>2, <2>4, BondsReap DEF DispatchInv
  <2>8. Bonds(policy', InUse(slot'))
    <3>1. Bonds(SetAffinity(RegisterThread(Q, t, 1, AllCpus, 0), t, Affinity[t]), U \cup {t})
      BY <2>5, <2>7, BondsCreate
    <3> QED BY <2>3, <2>6, <3>1, Zenon
  <2>9. saved_context = yields /\ saved_context \in [Threads -> Nat] /\ cpu = [c \in AllCpus |-> Boot]
    BY <2>3, Rested DEF DispatchInv
  <2>10. saved_context' = yields' /\ saved_context' \in [Threads -> Nat]
    BY <2>3, <2>9 DEF Cleared
  <2>11. Execution(cpu', saved_context', yields', InUse(slot'))
    BY <2>3, <2>9, <2>10, AllAtBoot
  <2> QED BY <2>3, <2>6, <2>8, <2>11 DEF DispatchInv, Alone
<1> QED BY <1>2, <1>3

\* All processors are online.
LEMMA Online == DispatchInv => OnlineCpus = AllCpus /\ 0 \in AllCpus
BY PolicyCapacities DEF DispatchInv, OnlineCpus, AllCpus

\* run_dispatch_once().
LEMMA RunDispatchOnceKeeps ==
  ASSUME DispatchInv, NEW c \in AllCpus, RunDispatchOnce(c) PROVE DispatchInv'
<1> DEFINE r == [Boot EXCEPT !.budget = 1, !.switches = 1]
<1>1. PICK t, U : t = Picked(policy, AllCpus, c, NoThread) /\ U = InUse(slot)
  BY Zenon
<1>2. /\ cpu[c].pc = "boot" /\ ~solo /\ t # NoThread
      /\ policy' = PickNext(policy, AllCpus, c, NoThread)
      /\ cpu' = [cpu EXCEPT ![c] = [r EXCEPT !.pc = "picked", !.next = t]]
      /\ cpu_count' = cpu_count /\ slot' = slot /\ saved_context' = saved_context
      /\ yields' = yields /\ solo' = solo
  BY <1>1, Online DEF RunDispatchOnce, Reserve
<1>3. Bonds(policy, U) /\ Execution(cpu, saved_context, yields, U)
  BY <1>1 DEF DispatchInv
<1>4. cpu[c] = Boot
  BY <1>2, <1>3 DEF Execution, CpuOK
<1>5. r \in CpuRecords /\ r.thread = NoThread
  BY Zenon DEF Boot, CpuRecords
<1>6. PICK q : q = [r EXCEPT !.pc = "picked", !.next = t]
  BY Zenon
<1>7. CpuOK(c, q, U, yields) /\ q.thread = cpu[c].thread
  <2>1. q.thread = NoThread /\ cpu[c].thread = NoThread
    BY <1>4, <1>5, <1>6 DEF Boot
  <2> HIDE DEF r
  <2>2. CpuOK(c, q, U, yields)
    BY <1>1, <1>2, <1>3, <1>5, <1>6, ReserveOK, Zenon
  <2> QED BY <2>1, <2>2
<1>8. Bonds(policy', U)
  BY <1>2, <1>3, BondsPick
<1>9. Execution(cpu', saved_context', yields', U)
  <2>1. Execution([cpu EXCEPT ![c] = q], saved_context, yields, U)
    BY <1>3, <1>7, SameThread
  <2> QED BY <1>2, <1>6, <2>1
<1> QED BY <1>1, <1>2, <1>8, <1>9 DEF DispatchInv

\* run_until_idle() up to its first switch.
LEMMA RunUntilIdleKeeps ==
  ASSUME DispatchInv, NEW b \in Budgets, RunUntilIdle(b) PROVE DispatchInv'
<1> DEFINE r == [Boot EXCEPT !.budget = b, !.switches = 1]
<1>1. PICK D, U, Q, t : /\ D = Dead /\ U = InUse(slot) \ D /\ Q = ReapedBy(policy, D)
                        /\ t = Picked(Q, AllCpus, 0, NoThread)
  BY Zenon
<1>2. /\ \A c \in AllCpus : cpu[c].pc = "boot"
      /\ slot' = Cleared(slot, D, "Empty") /\ cpu_count' = cpu_count
      /\ saved_context' = Cleared(saved_context, D, 0) /\ yields' = Cleared(yields, D, 0)
  BY <1>1 DEF RunUntilIdle, Reap
<1>3. slot' \in [Threads -> SlotStates] /\ D \in SUBSET Threads /\ D \subseteq InUse(slot) /\ InUse(slot') = U
  BY <1>1, <1>2, ClearedSlots DEF DispatchInv, Dead
<1>4. Bonds(Q, U)
  BY <1>1, <1>3, BondsReap DEF DispatchInv
<1>5. saved_context = yields /\ saved_context \in [Threads -> Nat] /\ cpu = [c \in AllCpus |-> Boot]
  BY <1>2, Rested DEF DispatchInv
<1>6. saved_context' = yields' /\ saved_context' \in [Threads -> Nat]
  BY <1>2, <1>5 DEF Cleared
<1>7. Execution(cpu, saved_context', yields', U)
  BY <1>5, <1>6, AllAtBoot
<1>8. CASE Reserve(Q, 0, r, NoThread) /\ solo' = TRUE
  <2>1. /\ t # NoThread /\ policy' = PickNext(Q, AllCpus, 0, NoThread) /\ 0 \in AllCpus
        /\ cpu' = [cpu EXCEPT ![0] = [r EXCEPT !.pc = "picked", !.next = t]]
    BY <1>1, <1>8, Online DEF Reserve
  <2>2. r \in CpuRecords /\ r.thread = NoThread /\ cpu[0].thread = NoThread
    BY <1>5, <2>1, Zenon DEF Boot, CpuRecords
  <2>3. PICK q : q = [r EXCEPT !.pc = "picked", !.next = t]
    BY Zenon
  <2>4. q.thread = cpu[0].thread
    BY <2>2, <2>3 DEF Boot
  <2> HIDE DEF r
  <2>5. CpuOK(0, q, U, yields')
    BY <1>1, <1>4, <2>1, <2>2, <2>3, ReserveOK, Zenon
  <2>6. Execution([cpu EXCEPT ![0] = q], saved_context', yields', U)
    BY <1>7, <2>1, <2>4, <2>5, SameThread, Zenon
  <2>7. Bonds(policy', U)
    BY <1>4, <2>1, BondsPick
  <2>8. Alone(cpu')
    BY <1>5, <2>1 DEF Alone
  <2> QED BY <1>2, <1>3, <1>8, <2>1, <2>3, <2>6, <2>7, <2>8 DEF DispatchInv
<1>9. CASE policy' = Q /\ cpu' = cpu /\ solo' = solo
  BY <1>2, <1>3, <1>4, <1>7, <1>9 DEF DispatchInv, Alone
<1> QED
  <2>1. Q = Reaped
    BY <1>1 DEF Reaped
  <2> QED BY <1>8, <1>9, <2>1, Zenon DEF RunUntilIdle

\* Only the boot processor acts while it runs alone.
LEMMA AloneKept ==
  ASSUME NEW C \in [AllCpus -> CpuRecords], Alone(C), NEW c \in AllCpus, C[c].pc # "boot", NEW r
  PROVE  c = 0 /\ Alone([C EXCEPT ![c] = r])
<1>1. c = 0
  BY DEF Alone, Boot
<1> QED BY <1>1 DEF Alone

\* A step of processor c that stays on its thread, or on none, with the policy P and the slots S.
LEMMA StaysOn ==
  ASSUME DispatchInv, NEW c \in AllCpus, cpu[c].pc # "boot", NEW r, cpu' = [cpu EXCEPT ![c] = r],
         CpuOK(c, r, InUse(slot), yields), r.thread = cpu[c].thread,
         slot' \in [Threads -> SlotStates], InUse(slot') = InUse(slot), Bonds(policy', InUse(slot)),
         solo' \in BOOLEAN, solo' => solo, UNCHANGED <<cpu_count, saved_context, yields>>
  PROVE  DispatchInv'
<1>1. Execution(cpu, saved_context, yields, InUse(slot)) /\ cpu \in [AllCpus -> CpuRecords]
  BY DEF DispatchInv, Execution
<1>2. Execution(cpu', saved_context, yields, InUse(slot))
  BY <1>1, SameThread, Zenon
<1>3. solo' => Alone(cpu')
  BY <1>1, AloneKept, Zenon DEF DispatchInv
<1>4. Execution(cpu', saved_context', yields', InUse(slot'))
  BY <1>2
<1>5. Bonds(policy', InUse(slot')) /\ cpu_count' = NCpus
  BY DEF DispatchInv
<1> QED BY <1>3, <1>4, <1>5 DEF DispatchInv

\* What is known of a processor and of the threads it is on and has chosen.
LEMMA OfProcessor ==
  ASSUME DispatchInv, NEW c \in AllCpus
  PROVE  /\ CpuOK(c, cpu[c], InUse(slot), yields) /\ cpu[c] \in CpuRecords
         /\ Bonds(policy, InUse(slot)) /\ slot \in [Threads -> SlotStates]
         /\ cpu[c].thread # NoThread => cpu[c].thread \in Threads
         /\ cpu[c].next # NoThread => cpu[c].next \in Threads
         /\ solo \in BOOLEAN
<1>1. CpuOK(c, cpu[c], InUse(slot), yields) /\ cpu[c] \in CpuRecords
  BY DEF DispatchInv, Execution, CpuOK
<1> QED BY <1>1 DEF DispatchInv, CpuRecords

\* The second half of find_ready().
LEMMA AcceptKeeps == ASSUME DispatchInv, NEW c \in AllCpus, Accept(c) PROVE DispatchInv'
<1>1. PICK r : r = cpu[c]
  BY Zenon
<1> DEFINE ok == slot[r.next] = "Ready"
           idle == r.thread = NoThread
           exiting == ~idle /\ slot[r.thread] = "Terminated"
           then == IF ok THEN (IF idle \/ exiting THEN "switch" ELSE "leave")
                   ELSE IF idle THEN "boot" ELSE IF exiting THEN "switch" ELSE "run"
           n == IF ok THEN r.next ELSE NoThread
<1>2. PICK q : q = IF then = "boot" THEN Boot ELSE [r EXCEPT !.pc = then, !.next = n]
  BY Zenon
<1>3. /\ r.pc = "picked" /\ cpu' = [cpu EXCEPT ![c] = q]
      /\ policy' = IF ok THEN policy ELSE CancelDispatch(policy, r.next, c)
      /\ solo' = (solo /\ then # "boot") /\ slot' = slot
      /\ UNCHANGED <<cpu_count, saved_context, yields>>
  BY <1>1, <1>2 DEF Accept
<1>4. PICK U : U = InUse(slot)
  BY Zenon
<1>5. /\ CpuOK(c, r, U, yields) /\ r \in CpuRecords /\ Bonds(policy, U)
      /\ slot \in [Threads -> SlotStates] /\ solo \in BOOLEAN
      /\ r.next # NoThread /\ r.next \in Threads /\ r.next \in U
  BY <1>1, <1>3, <1>4, OfProcessor DEF CpuOK
<1>6. Bonds(policy', U)
  BY <1>3, <1>5, BondsCancel
<1>7. CASE then = "boot"
  <2>1. q = Boot /\ r.thread = NoThread /\ q.thread = NoThread
    BY <1>2, <1>7 DEF Boot
  <2>2. CpuOK(c, q, U, yields)
    BY <2>1 DEF CpuOK, CpuRecords, Boot
  <2> QED BY <1>1, <1>3, <1>4, <1>5, <1>6, <2>1, <2>2, StaysOn, Zenon
<1>8. CASE then # "boot"
  <2>1. then \in {"switch", "leave", "run"} /\ n \in Threads \cup {NoThread}
    BY <1>5, <1>8
  <2>2. /\ idle => then = "switch" /\ n = r.next
        /\ n # NoThread => n = r.next
        /\ then = "switch" /\ n = NoThread => ~idle
    BY <1>5, <1>8
  <2> HIDE DEF then, n
  <2>3. /\ q \in CpuRecords /\ q.pc = then /\ q.next = n
        /\ q.thread = r.thread /\ q.pos = r.pos
    BY <1>2, <1>5, <1>8, <2>1, Zenon DEF CpuRecords
  <2>4. CpuOK(c, q, U, yields)
    BY <1>5, <2>1, <2>2, <2>3 DEF CpuOK
  <2>5. solo' \in BOOLEAN /\ (solo' => solo)
    BY <1>3, <1>5
  <2> QED BY <1>1, <1>3, <1>4, <1>5, <1>6, <2>3, <2>4, <2>5, StaysOn, Zenon
<1> QED BY <1>7, <1>8

\* set_slot_state() of the thread that is left, in the slot.
LEMMA LeaveKeeps == ASSUME DispatchInv, NEW c \in AllCpus, Leave(c) PROVE DispatchInv'
<1>1. PICK r, q, U : r = cpu[c] /\ q = [r EXCEPT !.pc = "offer"] /\ U = InUse(slot)
  BY Zenon
<1>2. /\ CpuOK(c, r, U, yields) /\ r \in CpuRecords /\ Bonds(policy, U)
      /\ slot \in [Threads -> SlotStates] /\ solo \in BOOLEAN
      /\ r.pc = "leave" /\ r.thread \in Threads /\ r.thread \in U /\ r.thread # NoThread
  BY <1>1, OfProcessor DEF CpuOK, Leave
<1>3. /\ cpu' = [cpu EXCEPT ![c] = q] /\ slot' = [slot EXCEPT ![r.thread] = "Ready"]
      /\ UNCHANGED <<policy, cpu_count, saved_context, yields, solo>>
  BY <1>1 DEF Leave, DispatchInv, Execution
<1>4. slot' \in [Threads -> SlotStates] /\ InUse(slot') = U
  <2>1. "Ready" \in SlotStates \ {"Empty"}
    BY DEF SlotStates
  <2> QED BY <1>1, <1>2, <1>3, <2>1, SlotSet, ZenonT(30)
<1>5. /\ q \in CpuRecords /\ q.pc = "offer" /\ q.next = r.next
      /\ q.thread = r.thread /\ q.pos = r.pos
  BY <1>1, <1>2 DEF CpuRecords
<1>6. CpuOK(c, q, U, yields)
  BY <1>2, <1>5 DEF CpuOK
<1> QED BY <1>1, <1>2, <1>3, <1>4, <1>5, <1>6, StaysOn, Zenon

\* set_slot_state() of the thread that is left, in the policy.
LEMMA OfferKeeps == ASSUME DispatchInv, NEW c \in AllCpus, Offer(c) PROVE DispatchInv'
<1>1. PICK r, q, U : r = cpu[c] /\ q = [r EXCEPT !.pc = "switch"] /\ U = InUse(slot)
  BY Zenon
<1>2. /\ CpuOK(c, r, U, yields) /\ r \in CpuRecords /\ Bonds(policy, U)
      /\ slot \in [Threads -> SlotStates] /\ solo \in BOOLEAN
      /\ r.pc = "offer" /\ r.thread \in Threads /\ r.thread \in U /\ r.thread # NoThread
  BY <1>1, OfProcessor DEF CpuOK, Offer
<1>3. /\ cpu' = [cpu EXCEPT ![c] = q] /\ policy' = SetState(policy, r.thread, "Ready")
      /\ UNCHANGED <<slot, cpu_count, saved_context, yields, solo>>
  BY <1>1 DEF Offer, DispatchInv, Execution
<1>4. Bonds(policy', U)
  BY <1>2, <1>3, BondsSetState DEF States
<1>5. /\ q \in CpuRecords /\ q.pc = "switch" /\ q.next = r.next
      /\ q.thread = r.thread /\ q.pos = r.pos
  BY <1>1, <1>2 DEF CpuRecords
<1>6. CpuOK(c, q, U, yields)
  BY <1>2, <1>5 DEF CpuOK
<1> QED BY <1>1, <1>2, <1>3, <1>4, <1>5, <1>6, StaysOn, Zenon

\* exit_current() up to the switch.
LEMMA ExitCurrentKeeps == ASSUME DispatchInv, NEW c \in AllCpus, ExitCurrent(c) PROVE DispatchInv'
<1>1. PICK r, U, P : r = cpu[c] /\ U = InUse(slot) /\ P = SetState(policy, r.thread, "Waiting")
  BY Zenon
<1>2. /\ CpuOK(c, r, U, yields) /\ r \in CpuRecords /\ Bonds(policy, U)
      /\ slot \in [Threads -> SlotStates] /\ solo \in BOOLEAN
      /\ r.pc = "run" /\ r.thread \in Threads /\ r.thread \in U /\ r.thread # NoThread
  BY <1>1, OfProcessor DEF CpuOK, ExitCurrent
<1>3. /\ slot' = [slot EXCEPT ![r.thread] = "Terminated"]
      /\ UNCHANGED <<cpu_count, saved_context, yields, solo>>
  BY <1>1 DEF ExitCurrent
<1>4. slot' \in [Threads -> SlotStates] /\ InUse(slot') = U
  <2>1. "Terminated" \in SlotStates \ {"Empty"}
    BY DEF SlotStates
  <2> QED BY <1>1, <1>2, <1>3, <2>1, SlotSet, ZenonT(30)
<1>5. Bonds(P, U)
  BY <1>1, <1>2, BondsSetState DEF States
<1>6. CASE Reserve(P, c, r, r.thread)
  <2>1. PICK t, q : t = Picked(P, AllCpus, c, r.thread) /\ q = [r EXCEPT !.pc = "picked", !.next = t]
    BY Zenon
  <2>2. /\ t # NoThread /\ policy' = PickNext(P, AllCpus, c, r.thread)
        /\ cpu' = [cpu EXCEPT ![c] = q]
    BY <1>6, <2>1, Online DEF Reserve
  <2>3. CpuOK(c, q, U, yields)
    <3>1. r.thread # NoThread => r.thread \in U /\ Affinity[r.thread] = {c} /\ r.pos = yields[r.thread]
      BY <1>2 DEF CpuOK
    <3> QED BY <1>2, <1>5, <2>1, <2>2, <3>1, ReserveOK, Zenon
  <2>4. q.thread = r.thread
    BY <1>2, <2>1 DEF CpuRecords
  <2>5. Bonds(policy', U)
    BY <1>5, <2>2, BondsPick
  <2> QED BY <1>1, <1>2, <1>3, <1>4, <2>2, <2>3, <2>4, <2>5, StaysOn, Zenon
<1>7. CASE cpu' = [cpu EXCEPT ![c] = [r EXCEPT !.pc = "switch"]] /\ policy' = P
  <2>1. PICK q : q = [r EXCEPT !.pc = "switch"]
    BY Zenon
  <2>2. /\ q \in CpuRecords /\ q.pc = "switch" /\ q.next = r.next
        /\ q.thread = r.thread /\ q.pos = r.pos
    BY <1>2, <2>1 DEF CpuRecords
  <2>3. CpuOK(c, q, U, yields)
    BY <1>2, <2>2 DEF CpuOK
  <2> QED BY <1>1, <1>2, <1>3, <1>4, <1>5, <1>7, <2>1, <2>2, <2>3, StaysOn, Zenon
<1>8. Reserve(P, c, r, r.thread) \/ (cpu' = [cpu EXCEPT ![c].pc = "switch"] /\ policy' = P)
  BY <1>1 DEF ExitCurrent
<1>9. [cpu EXCEPT ![c].pc = "switch"] = [cpu EXCEPT ![c] = [r EXCEPT !.pc = "switch"]]
  BY <1>1 DEF DispatchInv, Execution
<1> QED BY <1>6, <1>7, <1>8, <1>9

\* yield() up to the switch: the thread counts it, nobody else is on it.
LEMMA YieldKeeps == ASSUME DispatchInv, NEW c \in AllCpus, Yield(c) PROVE DispatchInv'
<1>1. PICK r, U, t, Y, X : /\ r = [cpu[c] EXCEPT !.pos = @ + 1] /\ U = InUse(slot) /\ t = cpu[c].thread
                           /\ Y = [yields EXCEPT ![t] = @ + 1] /\ X = saved_context
  BY Zenon
<1>2. /\ CpuOK(c, cpu[c], U, yields) /\ cpu[c] \in CpuRecords /\ Bonds(policy, U)
      /\ slot \in [Threads -> SlotStates] /\ solo \in BOOLEAN
      /\ cpu[c].pc = "run" /\ t \in Threads /\ t \in U /\ t # NoThread
  BY <1>1, OfProcessor DEF CpuOK, Yield
<1>3. /\ Execution(cpu, X, yields, U) /\ yields \in [Threads -> Nat] /\ X \in [Threads -> Nat]
      /\ cpu \in [AllCpus -> CpuRecords]
  BY <1>1 DEF DispatchInv, Execution
<1>4. /\ r \in CpuRecords /\ r.pc = "run" /\ r.thread = t /\ r.next = cpu[c].next /\ r.pos = cpu[c].pos + 1
  BY <1>1, <1>2 DEF CpuRecords
<1>5. /\ Affinity[t] = {c} /\ r.pos = Y[t] /\ Y \in [Threads -> Nat]
      /\ \A u \in Threads : u # t => Y[u] = yields[u]
  <2>1. Affinity[t] = {c} /\ cpu[c].pos = yields[t]
    BY <1>1, <1>2 DEF CpuOK
  <2> QED BY <1>1, <1>2, <1>3, <1>4, <2>1
<1>6. CpuOK(c, r, U, Y)
  <2>1. t = cpu[c].thread
    BY <1>1
  <2> QED BY <1>2, <1>4, <1>5, <2>1 DEF CpuOK
<1>7. ASSUME NEW q, CpuOK(c, q, U, Y), q.thread = t PROVE Execution([cpu EXCEPT ![c] = q], X, Y, U)
  <2>1. \A u \in Threads : Affinity[u] # {c} => X[u] = X[u] /\ Y[u] = yields[u]
    BY <1>5
  <2>2. \A u \in Threads : Affinity[u] = {c} /\ q.thread # u => X[u] = Y[u]
    BY <1>1, <1>3, <1>5, <1>7 DEF Execution, ContextOK
  <2> QED BY <1>3, <1>5, <1>7, <2>1, <2>2, StepOfOne, ZenonT(30)
<1>8. yields' = Y /\ UNCHANGED <<cpu_count, slot, saved_context, solo>>
  BY <1>1, <1>4 DEF Yield
<1>9. ASSUME NEW q, CpuOK(c, q, U, Y), q.thread = t, cpu' = [cpu EXCEPT ![c] = q], Bonds(policy', U)
      PROVE  DispatchInv'
  <2>1. Execution(cpu', saved_context', yields', InUse(slot'))
    BY <1>1, <1>7, <1>8, <1>9, Zenon
  <2>2. solo' => Alone(cpu')
    BY <1>2, <1>3, <1>8, <1>9, AloneKept, Zenon DEF DispatchInv
  <2> QED BY <1>1, <1>2, <1>8, <1>9, <2>1, <2>2 DEF DispatchInv
<1>10. CASE cpu' = [cpu EXCEPT ![c] = [r EXCEPT !.pc = "leave"]] /\ policy' = policy
  <2>1. PICK q : q = [r EXCEPT !.pc = "leave"]
    BY Zenon
  <2>2. /\ q \in CpuRecords /\ q.pc = "leave" /\ q.next = r.next
        /\ q.thread = r.thread /\ q.pos = r.pos
    BY <1>4, <2>1 DEF CpuRecords
  <2>3. CpuOK(c, q, U, Y)
    BY <1>2, <1>4, <1>6, <2>2 DEF CpuOK
  <2> QED BY <1>2, <1>4, <1>9, <1>10, <2>1, <2>2, <2>3, Zenon
<1>11. CASE cpu' = [cpu EXCEPT ![c] = r] /\ policy' = policy
  BY <1>2, <1>4, <1>6, <1>9, <1>11, Zenon
<1>12. CASE Reserve(policy, c, r, t)
  <2>1. PICK n, q : n = Picked(policy, AllCpus, c, t) /\ q = [r EXCEPT !.pc = "picked", !.next = n]
    BY Zenon
  <2>2. /\ n # NoThread /\ policy' = PickNext(policy, AllCpus, c, t)
        /\ cpu' = [cpu EXCEPT ![c] = q]
    BY <1>12, <2>1, Online DEF Reserve
  <2>3. CpuOK(c, q, U, Y)
    BY <1>2, <1>4, <1>5, <2>1, <2>2, ReserveOK, Zenon
  <2>4. q.thread = t
    BY <1>4, <2>1 DEF CpuRecords
  <2>5. Bonds(policy', U)
    BY <1>2, <2>2, BondsPick
  <2> QED BY <1>9, <2>2, <2>3, <2>4, <2>5, Zenon
<1> QED BY <1>1, <1>4, <1>10, <1>11, <1>12 DEF Yield

\* The switch to the chosen thread: the old context is saved, and the one loaded
\* is the last, for nobody else was on that thread.
LEMMA SwitchToKeeps == ASSUME DispatchInv, NEW c \in AllCpus, SwitchTo(c) PROVE DispatchInv'
<1>1. PICK r, U, t, n, X, Y : /\ r = cpu[c] /\ U = InUse(slot) /\ t = r.thread /\ n = r.next
                             /\ X = saved_context /\ Y = yields
  BY Zenon
<1>2. PICK X2, q : /\ X2 = IF t = NoThread THEN X ELSE [X EXCEPT ![t] = r.pos]
                   /\ q = [r EXCEPT !.pc = "run", !.thread = n, !.next = NoThread, !.pos = X[n],
                                    !.switches = IF t = NoThread THEN @ ELSE @ + 1]
  BY Zenon
<1>3. /\ r.pc = "switch" /\ n # NoThread /\ slot' = [slot EXCEPT ![n] = "Running"]
      /\ policy' = SetState(policy, n, "Running") /\ saved_context' = X2
      /\ cpu' = [cpu EXCEPT ![c] = q] /\ UNCHANGED <<cpu_count, yields, solo>>
  BY <1>1, <1>2 DEF SwitchTo
<1>4. /\ CpuOK(c, r, U, Y) /\ r \in CpuRecords /\ Bonds(policy, U)
      /\ slot \in [Threads -> SlotStates] /\ solo \in BOOLEAN
      /\ n \in Threads /\ n # NoThread /\ n \in U /\ n # t /\ Affinity[n] = {c} /\ t \in Threads \cup {NoThread}
  BY <1>1, <1>3, OfProcessor DEF CpuOK
<1>5. /\ Execution(cpu, X, Y, U) /\ Y \in [Threads -> Nat] /\ X \in [Threads -> Nat]
      /\ cpu \in [AllCpus -> CpuRecords]
  BY <1>1 DEF DispatchInv, Execution
<1>6. X[n] = Y[n]
  BY <1>1, <1>4, <1>5 DEF Execution, ContextOK
<1>7. /\ q \in CpuRecords /\ q.pc = "run" /\ q.thread = n /\ q.next = NoThread /\ q.pos = Y[n]
  <2>1. PICK w : w = IF t = NoThread THEN r.switches ELSE r.switches + 1
    BY Zenon
  <2>2. w \in Nat /\ X[n] \in Nat
    BY <1>4, <1>5, <2>1 DEF CpuRecords
  <2>3. q = [r EXCEPT !.pc = "run", !.thread = n, !.next = NoThread, !.pos = X[n], !.switches = w]
    BY <1>2, <1>4, <2>1 DEF CpuRecords
  <2> QED BY <1>4, <1>6, <2>2, <2>3, Zenon DEF CpuRecords
<1>8. CpuOK(c, q, U, Y)
  BY <1>4, <1>7 DEF CpuOK
<1>9. X2 \in [Threads -> Nat] /\ (t # NoThread => X2[t] = Y[t] /\ Affinity[t] = {c})
      /\ \A u \in Threads : u # t => X2[u] = X[u]
  <2>1. t # NoThread => r.pos = Y[t] /\ r.pos \in Nat /\ Affinity[t] = {c}
    BY <1>1, <1>4 DEF CpuOK, CpuRecords
  <2> QED BY <1>2, <1>4, <1>5, <2>1, DispatchCapacities
<1>10. Execution([cpu EXCEPT ![c] = q], X2, Y, U)
  <2>1. \A u \in Threads : Affinity[u] # {c} => X2[u] = X[u] /\ Y[u] = Y[u]
    BY <1>4, <1>9, DispatchCapacities
  <2>2. \A u \in Threads : Affinity[u] = {c} /\ q.thread # u => X2[u] = Y[u]
    <3> SUFFICES ASSUME NEW u \in Threads, Affinity[u] = {c}, u # n PROVE X2[u] = Y[u]
      BY <1>7
    <3>1. CASE u = t
      BY <1>9, <3>1, DispatchCapacities
    <3>2. CASE u # t
      BY <1>1, <1>5, <1>9, <3>2 DEF Execution, ContextOK
    <3> QED BY <3>1, <3>2
  <2> QED BY <1>5, <1>8, <1>9, <2>1, <2>2, StepOfOne, ZenonT(30)
<1>11. slot' \in [Threads -> SlotStates] /\ InUse(slot') = U
  <2>1. "Running" \in SlotStates \ {"Empty"}
    BY DEF SlotStates
  <2>2. n \in InUse(slot) /\ slot' = [slot EXCEPT ![n] = "Running"]
    BY <1>1, <1>3, <1>4
  <2>3. slot' \in [Threads -> SlotStates] /\ InUse(slot') = InUse(slot)
    BY <1>4, <2>1, <2>2, SlotSet, Zenon
  <2> QED BY <1>1, <2>3
<1>12. Bonds(policy', U)
  BY <1>3, <1>4, BondsSetState DEF States
<1>13. solo' => Alone(cpu')
  BY <1>1, <1>3, <1>5, AloneKept, Zenon DEF DispatchInv
<1> QED BY <1>1, <1>3, <1>4, <1>10, <1>11, <1>12, <1>13 DEF DispatchInv

\* The switch back to the caller of the run; run_until_idle() then reaps, when no
\* processor is on a thread.
LEMMA SwitchToBootKeeps == ASSUME DispatchInv, NEW c \in AllCpus, SwitchToBoot(c) PROVE DispatchInv'
<1>1. PICK r, U, t, X, Y : r = cpu[c] /\ U = InUse(slot) /\ t = r.thread /\ X = saved_context /\ Y = yields
  BY Zenon
<1>2. PICK X2, D : X2 = [X EXCEPT ![t] = r.pos] /\ D = Dead
  BY Zenon
<1>3. /\ r.pc = "switch" /\ r.next = NoThread /\ cpu' = [cpu EXCEPT ![c] = Boot]
      /\ solo' = FALSE /\ cpu_count' = cpu_count
  BY <1>1 DEF SwitchToBoot
<1>4. /\ CpuOK(c, r, U, Y) /\ r \in CpuRecords /\ Bonds(policy, U)
      /\ slot \in [Threads -> SlotStates] /\ solo \in BOOLEAN
      /\ t \in Threads /\ t # NoThread /\ Affinity[t] = {c} /\ r.pos = Y[t]
  BY <1>1, <1>3, OfProcessor DEF CpuOK
<1>5. /\ Execution(cpu, X, Y, U) /\ Y \in [Threads -> Nat] /\ X \in [Threads -> Nat]
      /\ cpu \in [AllCpus -> CpuRecords]
  BY <1>1 DEF DispatchInv, Execution
<1>6. X2 \in [Threads -> Nat] /\ X2[t] = Y[t] /\ \A u \in Threads : u # t => X2[u] = X[u]
  BY <1>2, <1>4, <1>5
<1>7. CpuOK(c, Boot, U, Y)
  BY DEF CpuOK, CpuRecords, Boot
<1>8. Execution(cpu', X2, Y, U)
  <2>1. \A u \in Threads : Affinity[u] # {c} => X2[u] = X[u] /\ Y[u] = Y[u]
    BY <1>4, <1>6
  <2>2. \A u \in Threads : Affinity[u] = {c} /\ Boot.thread # u => X2[u] = Y[u]
    <3> SUFFICES ASSUME NEW u \in Threads, Affinity[u] = {c} PROVE X2[u] = Y[u]
      OBVIOUS
    <3>1. CASE u = t
      BY <1>6, <3>1
    <3>2. CASE u # t
      BY <1>1, <1>5, <1>6, <3>2 DEF Execution, ContextOK
    <3> QED BY <3>1, <3>2
  <2>3. Execution([cpu EXCEPT ![c] = Boot], X2, Y, U)
    BY <1>5, <1>6, <1>7, <2>1, <2>2, StepOfOne, Zenon
  <2> QED BY <1>3, <2>3
<1>9. CASE ~solo
  <2>1. saved_context' = X2 /\ UNCHANGED <<policy, slot, yields>>
    BY <1>1, <1>2, <1>9 DEF SwitchToBoot
  <2> QED BY <1>1, <1>3, <1>4, <1>8, <2>1, Zenon DEF DispatchInv
<1>10. CASE solo
  <2>1. /\ policy' = ReapedBy(policy, D) /\ slot' = Cleared(slot, D, "Empty")
        /\ saved_context' = Cleared(X2, D, 0) /\ yields' = Cleared(Y, D, 0)
    BY <1>1, <1>2, <1>10 DEF SwitchToBoot, Reaped
  <2>2. \A d \in AllCpus : cpu'[d].pc = "boot"
    BY <1>1, <1>3, <1>5, <1>10, AloneKept DEF DispatchInv, Alone, Boot
  <2>3. X2 = Y /\ cpu' = [d \in AllCpus |-> Boot]
    BY <1>8, <2>2, Rested
  <2>4. saved_context' = yields' /\ saved_context' \in [Threads -> Nat]
    BY <1>6, <2>1, <2>3 DEF Cleared
  <2>5. slot' \in [Threads -> SlotStates] /\ D \in SUBSET Threads /\ D \subseteq U /\ InUse(slot') = U \ D
    BY <1>1, <1>2, <1>4, <2>1, ClearedSlots DEF Dead
  <2>6. Bonds(policy', U \ D)
    BY <1>4, <2>1, <2>5, BondsReap
  <2>7. Execution(cpu', saved_context', yields', U \ D)
    BY <2>3, <2>4, AllAtBoot
  <2> QED BY <1>3, <2>5, <2>6, <2>7, Zenon DEF DispatchInv
<1> QED BY <1>4, <1>9, <1>10

-------------------------------------------------------------------------------
\* The invariant holds before a thread is created.
LEMMA DispatchInvInit == DispatchInit => DispatchInv
<1> SUFFICES ASSUME DispatchInit PROVE DispatchInv
  OBVIOUS
<1>1. InUse(slot) = {} /\ slot \in [Threads -> SlotStates]
  BY DEF DispatchInit, InUse, SlotStates
<1>2. Tables(policy) /\ Affine(policy, AllCpus) /\ \A t \in Threads : ~policy.stat[t].used
  <2>1. policy \in PolicyRecords /\ \A t \in Threads : policy.stat[t] = Unused
    BY PolicyCapacities DEF DispatchInit, PolicyRecords, StatRecords, QueueRecords, Unused, Empty, States, AllCpus
  <2>2. \A c \in AllCpus : policy.queue[c] = Empty
    BY DEF DispatchInit
  <2>3. Registered(policy) = {}
    BY <2>1 DEF Registered, Unused
  <2>4. IsFiniteSet(Registered(policy)) /\ Cardinality(Registered(policy)) = 0
    BY <2>3, FS_EmptySet
  <2> QED BY <2>1, <2>2, <2>4, EmptyOK, PolicyCapacities DEF Tables, Affine, Unused
<1>3. Execution(cpu, saved_context, yields, InUse(slot))
  BY AllAtBoot DEF DispatchInit
<1> QED BY <1>1, <1>2, <1>3, Zenon DEF DispatchInit, DispatchInv, Bonds

\* Every step of create(), run_dispatch_once(), yield() and exit_current() keeps
\* the invariant.
LEMMA DispatchInvNext == DispatchInv /\ [DispatchNext]_dispatch_vars => DispatchInv'
<1> SUFFICES ASSUME DispatchInv, [DispatchNext]_dispatch_vars PROVE DispatchInv'
  OBVIOUS
<1>1. CASE Create
  BY <1>1, CreateKeeps
<1>2. ASSUME NEW b \in Budgets, RunUntilIdle(b) PROVE DispatchInv'
  BY <1>2, RunUntilIdleKeeps
<1>3. ASSUME NEW c \in AllCpus, RunDispatchOnce(c) PROVE DispatchInv'
  BY <1>3, RunDispatchOnceKeeps
<1>4. ASSUME NEW c \in AllCpus, Accept(c) PROVE DispatchInv'
  BY <1>4, AcceptKeeps, SMTT(30)
<1>5. ASSUME NEW c \in AllCpus, Yield(c) PROVE DispatchInv'
  BY <1>5, YieldKeeps
<1>6. ASSUME NEW c \in AllCpus, ExitCurrent(c) PROVE DispatchInv'
  BY <1>6, ExitCurrentKeeps
<1>7. ASSUME NEW c \in AllCpus, Leave(c) PROVE DispatchInv'
  BY <1>7, LeaveKeeps
<1>8. ASSUME NEW c \in AllCpus, Offer(c) PROVE DispatchInv'
  BY <1>8, OfferKeeps
<1>9. ASSUME NEW c \in AllCpus, SwitchTo(c) PROVE DispatchInv'
  BY <1>9, SwitchToKeeps
<1>10. ASSUME NEW c \in AllCpus, SwitchToBoot(c) PROVE DispatchInv'
  BY <1>10, SwitchToBootKeeps
<1>11. CASE UNCHANGED dispatch_vars
  BY <1>11 DEF dispatch_vars, DispatchInv
<1> QED BY <1>1, <1>2, <1>3, <1>4, <1>5, <1>6, <1>7, <1>8, <1>9, <1>10, <1>11 DEF DispatchNext

\* Threads bound to one processor each keep their stacks to themselves.
LEMMA InvGivesStacks == DispatchInv => StackExclusive
<1> SUFFICES ASSUME DispatchInv PROVE StackExclusive
  OBVIOUS
<1>1. \A c \in AllCpus : CpuOK(c, cpu[c], InUse(slot), yields)
  BY DEF DispatchInv, Execution
<1>2. OneOnStack
  <2> SUFFICES ASSUME NEW c \in AllCpus, NEW d \in AllCpus, c # d, cpu[c].thread # NoThread,
                      cpu[c].thread = cpu[d].thread
               PROVE  FALSE
    BY DEF OneOnStack
  <2>1. Affinity[cpu[c].thread] = {c} /\ Affinity[cpu[c].thread] = {d}
    BY <1>1 DEF CpuOK
  <2> QED BY <2>1
<1>3. ContinuesWhereLeft
  BY <1>1 DEF ContinuesWhereLeft, CpuOK
<1>4. ReapedOffStack
  BY <1>1 DEF ReapedOffStack, CpuOK, InUse
<1> QED BY <1>2, <1>3, <1>4 DEF StackExclusive

\* Whatever the processors do at the same time, with any number of processors and
\* threads: no two of them execute on one stack, a thread continues where it was
\* left last, and no slot is cleared under a thread (run_dispatch_once, yield,
\* exit_current and reap_terminated), if every thread is bound to one processor.
THEOREM StacksStayExclusive == DispatchSpec => []StackExclusive
<1>1. DispatchSpec => []DispatchInv
  BY DispatchInvInit, DispatchInvNext, PTL DEF DispatchSpec
<1>2. DispatchInv => StackExclusive
  BY InvGivesStacks
<1> QED BY <1>1, <1>2, PTL
===============================================================================
