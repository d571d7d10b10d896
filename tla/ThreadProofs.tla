----------------------------- MODULE ThreadProofs -----------------------------
(***************************************************************************)
(* Proofs about preemptive threads (module Thread): the slots of the       *)
(* execution layer and the policy agree after every step of the timer, the *)
(* system calls and the kernel loop, and every thread that does not        *)
(* execute can be continued.                                               *)
(***************************************************************************)
EXTENDS Thread, SchedulerProofs

-------------------------------------------------------------------------------
\* The records of the slots and of the boot processor.
SlotStates == {"Empty", "Ready", "Running", "Blocked", "Sleeping", "Terminated"}
Frames == {"none", "boot", "user", "doom", "kernel"}
SlotRecords ==
  [state : SlotStates, gen : 0 .. MaxGen, process : BOOLEAN, frame : Frames, started : BOOLEAN,
   wake : 0 .. MaxSleep, yield : BOOLEAN, space : BOOLEAN]
Modes == {"loop", "boot", "user", "doomed", "syscall", "return", "halt", "exit", "gone", "kernel"}
CpuRecords == [mode : Modes, current : Slots \cup {NoSlot}, elapsed : 0 .. Limit]
Worlds == [slots : [Slots -> SlotRecords], policy : PolicyRecords]
Boots == {0}

\* Slots and policy agree, but for the states of the slots in X: between the pick of
\* find_ready() and the switch, the policy is ahead of the slot.
Owned(S, t) == S[t[1]].gen = t[2] /\ S[t[1]].state # "Empty"
Agree(W, X) ==
  /\ W \in Worlds
  /\ Tables(W.policy) /\ Affine(W.policy, Boots)
  /\ \A i \in Slots : W.slots[i].state # "Empty" => W.slots[i].gen # 0
  /\ \A t \in Threads : W.policy.stat[t].used <=> Owned(W.slots, t)
  /\ \A i \in Slots : W.slots[i].state # "Empty" /\ i \notin X =>
       W.policy.stat[<<i, W.slots[i].gen>>].state = PolicyState(W.slots[i].state)

\* A slot whose thread does not execute can be continued, or is still to be started
\* by the next run.
Parked(i, s, ws) ==
  /\ s.state # "Running"
  /\ s.state \in {"Ready", "Sleeping", "Blocked"} => s.frame # "none" \/ ~s.started
  /\ ~s.started => s.state \in {"Empty", "Ready"}
  /\ s.frame \in {"user", "doom"} => s.space
  /\ s.state = "Blocked" => s.frame = "user" /\ <<i, s.gen>> \in ws

\* The slot of the thread that executes.
Executing == {"boot", "user", "doomed", "syscall", "exit", "gone", "kernel"}
Current(c, s, ws) ==
  /\ c.mode \in Executing => s.state = "Running"
  /\ c.mode = "return" => s.state \in {"Running", "Ready", "Sleeping", "Blocked"}
  /\ c.mode = "halt" => s.state = "Sleeping" /\ s.frame = "user"
  /\ c.mode \in {"user", "doomed", "syscall", "return", "halt"} => s.space
  /\ s.frame \in {"user", "doom"} => s.space
  /\ s.state = "Blocked" => <<c.current, s.gen>> \in ws

Fit(S, c, ws) ==
  /\ c \in CpuRecords /\ ws \subseteq Threads
  /\ c.mode = "loop" <=> c.current = NoSlot
  /\ \A i \in Slots : i # c.current => Parked(i, S[i], ws)
  /\ c.mode # "loop" =>
       /\ Current(c, S[c.current], ws)
       /\ \A i \in Slots : S[i].state # "Empty" => S[i].started

ThreadInv == cpu_count = 1 /\ Agree(World, {}) /\ Fit(slots, cpu, waiters)

-------------------------------------------------------------------------------
\* An identifier is a slot and a generation.
LEMMA Ids ==
  /\ \A i \in Slots, g \in 1 .. MaxGen : <<i, g>> \in Threads
  /\ \A t \in Threads : t[1] \in Slots /\ t[2] \in 1 .. MaxGen /\ t = <<t[1], t[2]>>
BY ThreadCapacities DEF Slots

\* The numbers: a slot is not NoSlot, and the boot processor exists.
LEMMA Numbers ==
  /\ NThreads \in Nat /\ MaxGen \in Nat /\ Limit \in Nat /\ MaxSleep \in Nat /\ MaxSleep > 0
  /\ NoSlot \notin Slots /\ Slots \subseteq Nat
  /\ 0 \in AllCpus /\ Boots \subseteq AllCpus
BY ThreadCapacities, PolicyCapacities DEF Slots, NoSlot, AllCpus, Boots

\* Values that steps write into a slot.
LEMMA SlotValues ==
  /\ 0 \in 0 .. MaxSleep /\ 0 \in 0 .. MaxGen
  /\ "Empty" \in SlotStates /\ "Ready" \in SlotStates /\ "Running" \in SlotStates
  /\ "Blocked" \in SlotStates /\ "Sleeping" \in SlotStates /\ "Terminated" \in SlotStates
  /\ "none" \in Frames /\ "boot" \in Frames /\ "user" \in Frames /\ "doom" \in Frames /\ "kernel" \in Frames
BY Numbers DEF SlotStates, Frames

\* The thread in a slot that is not Empty is registered.
LEMMA Known ==
  ASSUME NEW W, NEW X, Agree(W, X), NEW i \in Slots, W.slots[i].state # "Empty"
  PROVE  /\ <<i, W.slots[i].gen>> \in Threads /\ W.policy.stat[<<i, W.slots[i].gen>>].used
         /\ W.slots[i].gen \in 1 .. MaxGen
<1>1. W.slots[i] \in SlotRecords
  BY DEF Agree, Worlds
<1>2. PICK g : g = W.slots[i].gen
  BY Zenon
<1>3. g \in 1 .. MaxGen
  BY <1>1, <1>2, Numbers DEF Agree, SlotRecords
<1>4. <<i, g>> \in Threads /\ <<i, g>>[1] = i /\ <<i, g>>[2] = g
  BY <1>3, Ids
<1>5. Owned(W.slots, <<i, g>>)
  BY <1>2, <1>4 DEF Owned
<1> QED BY <1>2, <1>3, <1>4, <1>5 DEF Agree

\* A change of other fields of the slots.
LEMMA AgreeData ==
  ASSUME NEW W, NEW X, Agree(W, X), NEW V \in Worlds, V.policy = W.policy,
         \A i \in Slots : V.slots[i].state = W.slots[i].state /\ V.slots[i].gen = W.slots[i].gen
  PROVE  Agree(V, X)
<1>1. \A t \in Threads : Owned(V.slots, t) <=> Owned(W.slots, t)
  BY Ids DEF Owned
<1> QED BY <1>1, Zenon DEF Agree

\* set_slot_state() moves both layers.
SlotsSet(S, I, s) == [i \in Slots |-> IF i \in I THEN [S[i] EXCEPT !.state = s] ELSE S[i]]
LEMMA StatesSet ==
  ASSUME NEW W, NEW X, Agree(W, X), NEW I \in SUBSET Slots, \A i \in I : W.slots[i].state # "Empty",
         NEW s \in SlotStates, s # "Empty"
  PROVE  /\ Agree(SetSlotStates(W, I, s), X \ I)
         /\ SetSlotStates(W, I, s).slots = SlotsSet(W.slots, I, s)
<1>1. PICK S, P : S = W.slots /\ P = W.policy
  BY Zenon
<1>2. S \in [Slots -> SlotRecords] /\ P \in PolicyRecords /\ P.stat \in [Threads -> StatRecords] /\ Tables(P)
      /\ Affine(P, Boots)
  BY <1>1 DEF Agree, Worlds, PolicyRecords
<1>3. PICK ps \in States : ps = PolicyState(s)
  BY DEF PolicyState, States
<1>4. PICK T, R : T = SlotsSet(S, I, s) /\ R = [t \in Threads |-> IF P.stat[t].used /\ \E i \in I : t = <<i, S[i].gen>>
                                    THEN [P.stat[t] EXCEPT !.state = ps]
                                    ELSE P.stat[t]]
  BY Zenon
<1>5. PICK Q : Q = [P EXCEPT !.stat = R]
  BY Zenon
<1>6. PICK V : V = SetSlotStates(W, I, s) /\ V = [slots |-> T, policy |-> Q]
  BY <1>1, <1>3, <1>4, <1>5, Zenon DEF SetSlotStates, SlotsSet, Id
<1>7. \A t \in Threads : /\ R[t] \in StatRecords /\ R[t].used = P.stat[t].used /\ R[t].home = P.stat[t].home
                         /\ R[t].affinity = P.stat[t].affinity
  BY <1>2, <1>4, Zenon DEF StatRecords
<1>8. R \in [Threads -> StatRecords]
  BY <1>4, <1>7
<1>9. Q \in PolicyRecords /\ Q.stat = R /\ Q.queue = P.queue
  BY <1>2, <1>5, <1>8 DEF PolicyRecords
<1>10. SamePlaces(P, Q)
  BY <1>2, <1>7, <1>9, Zenon DEF Tables, SamePlaces
<1>11. Tables(Q)
  BY <1>2, <1>9, <1>10, Kept
<1>12. Affine(Q, Boots)
  BY <1>2, <1>7, <1>9, Zenon DEF Affine
<1>13. /\ T \in [Slots -> SlotRecords]
       /\ \A i \in Slots : T[i].gen = S[i].gen /\ (T[i].state # "Empty" <=> S[i].state # "Empty")
       /\ \A i \in Slots : T[i].state = IF i \in I THEN s ELSE S[i].state
  BY <1>1, <1>2, <1>4 DEF SlotsSet, SlotRecords
<1>14. V \in Worlds /\ V.slots = T /\ V.policy = Q
  BY <1>6, <1>9, <1>13 DEF Worlds
<1>15. \A t \in Threads : Owned(T, t) <=> Owned(S, t)
  BY <1>13, Ids DEF Owned
<1>16. ASSUME NEW i \in Slots, T[i].state # "Empty", i \notin X \ I
       PROVE  R[<<i, T[i].gen>>].state = PolicyState(T[i].state)
  <2>1. PICK t \in Threads : t = <<i, S[i].gen>> /\ P.stat[t].used /\ T[i].gen = S[i].gen
    BY <1>1, <1>13, <1>16, Known, Zenon
  <2>2. P.stat[t] \in StatRecords
    BY <1>2
  <2>3. CASE i \in I
    <3>1. R[t] = [P.stat[t] EXCEPT !.state = ps]
      BY <1>4, <2>1, <2>3
    <3>2. R[t].state = ps
      BY <2>2, <3>1 DEF StatRecords
    <3> QED BY <1>3, <1>13, <2>1, <2>3, <3>2
  <2>4. CASE i \notin I
    <3>1. ~\E j \in I : t = <<j, S[j].gen>>
      BY <2>1, <2>4
    <3>2. R[t] = P.stat[t]
      BY <1>4, <3>1
    <3>3. P.stat[t].state = PolicyState(S[i].state)
      BY <1>1, <1>13, <1>16, <2>1, <2>4 DEF Agree
    <3> QED BY <1>13, <2>1, <2>4, <3>2, <3>3
  <2> QED BY <2>3, <2>4
<1>17. \A i \in Slots : T[i].state # "Empty" => T[i].gen # 0
  BY <1>1, <1>13 DEF Agree
<1>18. \A t \in Threads : Q.stat[t].used <=> Owned(T, t)
  BY <1>1, <1>7, <1>9, <1>15 DEF Agree
<1>19. Agree(V, X \ I)
  BY <1>9, <1>11, <1>12, <1>14, <1>16, <1>17, <1>18 DEF Agree
<1> QED BY <1>1, <1>4, <1>6, <1>14, <1>19

\* set_slot_state() of one slot.
LEMMA StateSet ==
  ASSUME NEW W, NEW X, Agree(W, X), NEW i \in Slots, W.slots[i].state # "Empty",
         NEW s \in SlotStates, s # "Empty"
  PROVE  /\ Agree(SetSlotState(W, i, s), X \ {i})
         /\ SetSlotState(W, i, s).slots = [W.slots EXCEPT ![i] = [@ EXCEPT !.state = s]]
<1>1. {i} \in SUBSET Slots /\ \A j \in {i} : W.slots[j].state # "Empty"
  OBVIOUS
<1>2. Agree(SetSlotStates(W, {i}, s), X \ {i}) /\ SetSlotStates(W, {i}, s).slots = SlotsSet(W.slots, {i}, s)
  BY <1>1, StatesSet
<1>3. W.slots \in [Slots -> SlotRecords]
  BY DEF Agree, Worlds
<1>4. SlotsSet(W.slots, {i}, s) = [W.slots EXCEPT ![i] = [@ EXCEPT !.state = s]]
  BY <1>3 DEF SlotsSet
<1> QED BY <1>2, <1>4, Zenon DEF SetSlotState

\* The same, with names for the slots it leaves.
With(S, i, r) == [S EXCEPT ![i] = r]
Moved(S, i, s) == [S EXCEPT ![i] = [@ EXCEPT !.state = s]]
LEMMA StateMoves ==
  ASSUME NEW W, NEW X, Agree(W, X), NEW i \in Slots, W.slots[i].state # "Empty",
         NEW s \in SlotStates, s # "Empty"
  PROVE  /\ Agree(SetSlotState(W, i, s), X \ {i})
         /\ SetSlotState(W, i, s).slots = Moved(W.slots, i, s)
BY StateSet DEF Moved


-------------------------------------------------------------------------------
\* find_ready(): the policy picks a thread whose slot is Ready, and none to exclude, so
\* that no pick is ever cancelled.
LEMMA FindReadyOK ==
  ASSUME OnlineCpus = Boots, NEW W, Agree(W, {}), NEW p \in Slots \cup {NoSlot},
         NEW V, V = FindReady(W, p), NEW n, n = Found(W, p)
  PROVE  /\ V.slots = W.slots
         /\ n = NoSlot => Agree(V, {})
         /\ n # NoSlot => n \in Slots /\ n # p /\ W.slots[n].state = "Ready" /\ Agree(V, {n})
<1>1. PICK S, P : S = W.slots /\ P = W.policy
  BY Zenon
<1>2. /\ S \in [Slots -> SlotRecords] /\ P \in PolicyRecords /\ P.stat \in [Threads -> StatRecords]
      /\ Tables(P) /\ Affine(P, Boots) /\ W = [slots |-> S, policy |-> P]
  BY <1>1 DEF Agree, Worlds, PolicyRecords
<1>3. PICK x, t, Q : /\ x = Excluded(W, p)
                     /\ t = Picked(P, Boots, 0, x) /\ Q = PickNext(P, Boots, 0, x)
  BY Zenon
<1>4. PickKept(P, Boots, 0, x, Q, t)
  <2>1. Boots \in SUBSET AllCpus /\ 0 \in AllCpus
    BY Numbers
  <2> QED BY <1>2, <1>3, <2>1, PickOK, Zenon
<1>5. /\ n = IF t # NoThread /\ t = Id(W, t[1]) /\ S[t[1]].state = "Ready" THEN t[1] ELSE NoSlot
      /\ V = [W EXCEPT !.policy = IF t # NoThread /\ n = NoSlot THEN CancelDispatch(Q, t, 0) ELSE Q]
  BY <1>1, <1>3, Zenon DEF Found, FindReady
<1>6. CASE Runnable(P, 0, x) = {}
  <2>1. Q = P /\ t = NoThread
    BY <1>4, <1>6 DEF PickKept
  <2>2. n = NoSlot /\ V = W
    BY <1>2, <1>5, <2>1
  <2> QED BY <2>2
<1>7. CASE Runnable(P, 0, x) # {}
  <2>1. /\ t \in Threads /\ Dispatchable(P, t, 0, x) /\ Q.stat = RunsOn(P, t, 0)
        /\ Tables(Q) /\ Affine(Q, Boots)
    BY <1>4, <1>7 DEF PickKept, Foremost, Choice, LocalOnes, Runnable
  <2>2. t # x /\ P.stat[t].used /\ P.stat[t].state = "Ready"
    BY <2>1 DEF Dispatchable
  <2>3. PICK i \in Slots : i = t[1] /\ t = <<i, t[2]>>
    BY <2>1, Ids
  <2>4. S[i].gen = t[2] /\ S[i].state # "Empty"
    BY <1>1, <2>1, <2>2, <2>3 DEF Agree, Owned
  <2>5. t = <<i, S[i].gen>> /\ t = Id(W, i)
    BY <1>1, <2>3, <2>4 DEF Id
  <2>6. S[i].state = "Ready"
    <3>1. PolicyState(S[i].state) = "Ready"
      BY <1>1, <2>2, <2>4, <2>5 DEF Agree
    <3> QED BY <3>1 DEF PolicyState
  <2>7. t # NoThread
    BY <2>1, ThreadCapacities
  <2>8. n = i /\ n # NoSlot
    BY <1>5, <2>3, <2>5, <2>6, <2>7, Numbers
  <2>9. V = [slots |-> S, policy |-> Q]
    BY <1>2, <1>5, <2>8
  <2>10. i # p
    BY <1>3, <2>2, <2>5, <2>8 DEF Excluded
  <2>11. PICK r : r = [P.stat[t] EXCEPT !.state = "Running", !.last = 0, !.home = 0]
    BY Zenon
  <2>12. Q.stat = [P.stat EXCEPT ![t] = r]
    BY <1>2, <2>1, <2>11 DEF RunsOn
  <2>13. r.used = P.stat[t].used
    BY <1>2, <2>1, <2>11 DEF StatRecords
  <2>14. \A u \in Threads : Q.stat[u].used = P.stat[u].used /\ (u # t => Q.stat[u] = P.stat[u])
    BY <1>2, <2>1, <2>12, <2>13
  <2>15. V \in Worlds /\ V.slots = S /\ V.policy = Q
    BY <1>2, <2>1, <2>9 DEF Worlds, Tables
  <2>16. ASSUME NEW j \in Slots, S[j].state # "Empty", j # i
         PROVE  Q.stat[<<j, S[j].gen>>].state = PolicyState(S[j].state)
    <3>1. PICK u \in Threads : u = <<j, S[j].gen>>
      BY <1>1, <2>16, Known, Zenon
    <3>2. u # t
      BY <2>5, <2>16, <3>1
    <3>3. P.stat[u].state = PolicyState(S[j].state)
      BY <1>1, <2>16, <3>1 DEF Agree
    <3> QED BY <2>14, <3>1, <3>2, <3>3
  <2>17. Agree(V, {i})
    <3>1. \A u \in Threads : Q.stat[u].used <=> Owned(S, u)
      BY <1>1, <2>14 DEF Agree
    <3>2. \A j \in Slots : S[j].state # "Empty" => S[j].gen # 0
      BY <1>1 DEF Agree
    <3> QED BY <2>1, <2>15, <2>16, <3>1, <3>2 DEF Agree
  <2> QED BY <1>1, <2>6, <2>8, <2>10, <2>15, <2>17
<1> QED BY <1>6, <1>7

\* reap_terminated(): the terminated threads leave both layers.
ReapedSlots(S) == [i \in Slots |-> IF S[i].state = "Terminated" THEN EmptySlot(S[i].gen) ELSE S[i]]
LEMMA ReapOK ==
  ASSUME NEW W, Agree(W, {})
  PROVE  Agree(ReapTerminated(W), {}) /\ ReapTerminated(W).slots = ReapedSlots(W.slots)
<1>1. PICK S, P : S = W.slots /\ P = W.policy
  BY Zenon
<1>2. /\ S \in [Slots -> SlotRecords] /\ P \in PolicyRecords /\ P.stat \in [Threads -> StatRecords]
      /\ Tables(P) /\ Affine(P, Boots)
  BY <1>1 DEF Agree, Worlds, PolicyRecords
<1>3. PICK D \in SUBSET Slots : D = {i \in Slots : S[i].state = "Terminated"}
  BY Zenon
<1>4. PICK dead : dead = [i \in D |-> <<i, S[i].gen>>]
  BY Zenon
<1>5. PICK T, Q : T = ReapedSlots(S) /\ Q = UnregisterInTurn(P, dead, NThreads)
  BY Zenon
<1>6. PICK V : V = ReapTerminated(W) /\ V = [slots |-> T, policy |-> Q]
  <2>1. T = [i \in Slots |-> IF i \in D THEN EmptySlot(S[i].gen) ELSE S[i]]
    BY <1>3, <1>5 DEF ReapedSlots
  <2> QED BY <1>1, <1>3, <1>4, <1>5, <2>1, Zenon DEF ReapTerminated, Id
<1>7. \A i \in D : <<i, S[i].gen>> \in Registered(P)
  BY <1>1, <1>3, Known DEF Registered
<1>8. dead \in [D -> Registered(P)] /\ IsInjective(dead)
  BY <1>4, <1>7 DEF IsInjective
<1>9. /\ Tables(Q) /\ Affine(Q, Boots)
      /\ \A t \in Threads : Q.stat[t] = IF \E j \in D : dead[j] = t THEN Unused ELSE P.stat[t]
  <2>1. NThreads \in Nat /\ D \in SUBSET (1 .. NThreads) /\ Boots \in SUBSET AllCpus
    BY <1>3, Numbers DEF Slots
  <2> QED BY <1>2, <1>5, <1>8, <2>1, UnregisterInTurnOK
<1>10. /\ T \in [Slots -> SlotRecords]
       /\ \A i \in Slots : T[i].gen = S[i].gen /\ (i \in D => T[i].state = "Empty") /\ (i \notin D => T[i] = S[i])
  <2>1. \A i \in Slots : S[i] \in SlotRecords /\ T[i] = IF i \in D THEN EmptySlot(S[i].gen) ELSE S[i]
    BY <1>2, <1>3, <1>5 DEF ReapedSlots
  <2>2. \A i \in Slots : T[i] \in SlotRecords /\ T[i].gen = S[i].gen /\ (i \in D => T[i].state = "Empty")
    <3> TAKE i \in Slots
    <3>1. CASE i \in D
      <4>1. T[i] = EmptySlot(S[i].gen) /\ S[i].gen \in 0 .. MaxGen
        BY <2>1, <3>1 DEF SlotRecords
      <4> QED BY <3>1, <4>1, SlotValues DEF EmptySlot, SlotRecords
    <3>2. CASE i \notin D
      BY <2>1, <3>2
    <3> QED BY <3>1, <3>2
  <2>3. T = [i \in Slots |-> T[i]]
    BY <1>5 DEF ReapedSlots
  <2> QED BY <2>1, <2>2, <2>3
<1>11. V \in Worlds /\ V.slots = T /\ V.policy = Q
  BY <1>6, <1>9, <1>10 DEF Worlds, Tables
<1>12. ASSUME NEW t \in Threads
       PROVE  Q.stat[t].used <=> Owned(T, t)
  <2>1. PICK i \in Slots : i = t[1] /\ t = <<i, t[2]>>
    BY Ids
  <2>2. P.stat[t].used <=> Owned(S, t)
    BY <1>1 DEF Agree
  <2>3. CASE \E j \in D : dead[j] = t
    <3>1. i \in D
      BY <1>4, <2>1, <2>3
    <3>2. ~Q.stat[t].used
      BY <1>9, <2>3 DEF Unused
    <3> QED BY <1>10, <2>1, <3>1, <3>2 DEF Owned
  <2>4. CASE ~\E j \in D : dead[j] = t
    <3>1. Q.stat[t] = P.stat[t]
      BY <1>9, <2>4
    <3>2. CASE i \in D
      <4>1. ~Owned(S, t)
        BY <1>4, <2>1, <2>4, <3>2 DEF Owned
      <4> QED BY <1>10, <2>1, <2>2, <3>1, <3>2, <4>1 DEF Owned
    <3>3. CASE i \notin D
      BY <1>10, <2>1, <2>2, <3>1, <3>3 DEF Owned
    <3> QED BY <3>2, <3>3
  <2> QED BY <2>3, <2>4
<1>13. ASSUME NEW i \in Slots, T[i].state # "Empty"
       PROVE  T[i].gen # 0 /\ Q.stat[<<i, T[i].gen>>].state = PolicyState(T[i].state)
  <2>1. i \notin D /\ T[i] = S[i]
    BY <1>10, <1>13
  <2>2. PICK t \in Threads : t = <<i, S[i].gen>>
    BY <1>1, <1>13, <2>1, Known, Zenon
  <2>3. ~\E j \in D : dead[j] = t
    BY <1>4, <2>1, <2>2, Zenon
  <2>4. Q.stat[t] = P.stat[t]
    BY <1>9, <2>3
  <2> QED BY <1>1, <1>13, <2>1, <2>2, <2>4 DEF Agree
<1>14. Agree(V, {})
  BY <1>9, <1>11, <1>12, <1>13, Zenon DEF Agree
<1> QED BY <1>1, <1>5, <1>6, <1>11, <1>14

\* What a tick makes of a slot: a sleeper may wake up, and only its time changes.
Ticked(s, r) ==
  /\ r \in SlotRecords /\ r.gen = s.gen /\ r.frame = s.frame /\ r.started = s.started /\ r.space = s.space
  /\ r.state = s.state \/ (s.state = "Sleeping" /\ r.state = "Ready")
LEMMA TickOK ==
  ASSUME NEW W, Agree(W, {})
  PROVE  Agree(TickAndWake(W), {}) /\ \A i \in Slots : Ticked(W.slots[i], TickAndWake(W).slots[i])
<1>1. PICK S, P : S = W.slots /\ P = W.policy
  BY Zenon
<1>2. S \in [Slots -> SlotRecords] /\ W \in Worlds
  BY <1>1 DEF Agree, Worlds
<1>3. PICK D \in SUBSET Slots : D = {i \in Slots : S[i].state = "Sleeping" /\ S[i].wake <= 1}
  BY Zenon
<1>4. PICK T : T = [i \in Slots |-> [S[i] EXCEPT !.wake = IF i \in D \/ @ = 0 THEN 0 ELSE @ - 1]]
  BY Zenon
<1>5. PICK U : U = [W EXCEPT !.slots = T]
  BY Zenon
<1>6. TickAndWake(W) = SetSlotStates(U, D, "Ready")
  BY <1>1, <1>3, <1>4, <1>5, Zenon DEF TickAndWake
<1>7. ASSUME NEW i \in Slots
      PROVE  Ticked(S[i], T[i]) /\ T[i].state = S[i].state
  <2>1. PICK w : w = IF i \in D \/ S[i].wake = 0 THEN 0 ELSE S[i].wake - 1
    BY Zenon
  <2>2. S[i] \in SlotRecords /\ T[i] = [S[i] EXCEPT !.wake = w]
    BY <1>2, <1>4, <2>1
  <2>3. w \in 0 .. MaxSleep
    BY <2>1, <2>2, Numbers DEF SlotRecords
  <2> QED BY <2>2, <2>3 DEF SlotRecords, Ticked
<1>8. T \in [Slots -> SlotRecords]
  <2>1. T = [i \in Slots |-> T[i]]
    BY <1>4
  <2>2. \A i \in Slots : T[i] \in SlotRecords
    BY <1>7 DEF Ticked
  <2> QED BY <2>1, <2>2
<1>9. U \in Worlds /\ U.slots = T /\ U.policy = P
  BY <1>1, <1>2, <1>5, <1>8 DEF Worlds
<1>10. Agree(U, {})
  <2>1. \A i \in Slots : U.slots[i].state = W.slots[i].state /\ U.slots[i].gen = W.slots[i].gen
    BY <1>1, <1>7, <1>9 DEF Ticked
  <2> QED BY <1>1, <1>9, <2>1, AgreeData
<1>11. \A i \in D : U.slots[i].state # "Empty"
  BY <1>3, <1>7, <1>9
<1>12. PICK V : V = TickAndWake(W)
  BY Zenon
<1>13. Agree(V, {} \ D) /\ V.slots = SlotsSet(T, D, "Ready")
  <2>1. "Ready" \in SlotStates /\ "Ready" # "Empty"
    BY DEF SlotStates
  <2>2. Agree(SetSlotStates(U, D, "Ready"), {} \ D) /\ SetSlotStates(U, D, "Ready").slots = SlotsSet(U.slots, D, "Ready")
    BY <1>3, <1>10, <1>11, <2>1, StatesSet, Zenon
  <2> QED BY <1>6, <1>9, <1>12, <2>2, Zenon
<1>14. {} \ D = {}
  OBVIOUS
<1>15. ASSUME NEW i \in Slots PROVE Ticked(S[i], V.slots[i])
  <2>1. Ticked(S[i], T[i]) /\ T[i].state = S[i].state
    BY <1>7
  <2>2. V.slots[i] = IF i \in D THEN [T[i] EXCEPT !.state = "Ready"] ELSE T[i]
    BY <1>13 DEF SlotsSet
  <2>3. CASE i \in D
    <3>1. S[i].state = "Sleeping"
      BY <1>3, <2>3
    <3> QED BY <2>1, <2>2, <2>3, <3>1 DEF Ticked, SlotRecords, SlotStates
  <2>4. CASE i \notin D
    BY <2>1, <2>2, <2>4
  <2> QED BY <2>3, <2>4
<1> QED BY <1>1, <1>12, <1>13, <1>14, <1>15

-------------------------------------------------------------------------------
\* The least element of a set of naturals.
LEMMA MinOK ==
  ASSUME NEW S \in SUBSET Nat, S # {}
  PROVE  Min(S) \in S /\ \A y \in S : Min(S) <= y
<1>1. \E x \in S : \A y \in S : x <= y
  BY LeastNatural
<1> QED BY <1>1, Zenon DEF Min

\* The invariant holds after a step that leaves the world V.
LEMMA InvStep ==
  ASSUME cpu_count' = 1, NEW V, Agree(V, {}), slots' = V.slots, policy' = V.policy,
         Fit(V.slots, cpu', waiters')
  PROVE  ThreadInv'
<1>1. V = [slots |-> V.slots, policy |-> V.policy]
  BY DEF Agree, Worlds
<1>2. World' = V
  BY <1>1, Zenon DEF World
<1> QED BY <1>2, Zenon DEF ThreadInv

\* Every thread is put aside, and every thread has been started.
AllParked(S, ws) == \A i \in Slots : Parked(i, S[i], ws)
AllStarted(S) == \A i \in Slots : S[i].state # "Empty" => S[i].started

\* A switch to a Ready thread.
LEMMA SwitchKeeps ==
  ASSUME NEW W, NEW X, Agree(W, X), NEW n \in Slots, X \subseteq {n}, W.slots[n].state = "Ready",
         AllParked(W.slots, waiters'), AllStarted(W.slots), waiters' \subseteq Threads,
         NEW e \in 0 .. Limit, SwitchTo(W, n, e), cpu_count' = 1
  PROVE  ThreadInv'
<1>1. PICK V, S, s, c : /\ V = SetSlotState(W, n, "Running") /\ S = W.slots /\ s = S[n]
                        /\ c = [mode |-> ModeOf(s), current |-> n, elapsed |-> e]
  BY Zenon
<1>2. slots' = V.slots /\ policy' = V.policy /\ cpu' = c
  BY <1>1 DEF SwitchTo
<1>3. S \in [Slots -> SlotRecords] /\ s \in SlotRecords
  BY <1>1 DEF Agree, Worlds
<1>4. "Running" \in SlotStates /\ "Running" # "Empty"
  BY DEF SlotStates
<1>5. Agree(V, X \ {n}) /\ V.slots = [S EXCEPT ![n] = [@ EXCEPT !.state = "Running"]]
  BY <1>1, <1>4, StateSet
<1>6. X \ {n} = {}
  OBVIOUS
<1>7. PICK r : r = [s EXCEPT !.state = "Running"]
  BY Zenon
<1>8. V.slots[n] = r /\ \A i \in Slots : i # n => V.slots[i] = S[i]
  BY <1>1, <1>3, <1>5, <1>7
<1>9. r.state = "Running" /\ r.frame = s.frame /\ r.space = s.space /\ r.started = s.started
  BY <1>3, <1>7 DEF SlotRecords
<1>10. Parked(n, s, waiters') /\ s.started
  BY <1>1 DEF AllParked, AllStarted
<1>11. /\ ModeOf(s) \in Executing /\ ModeOf(s) \in Modes /\ ModeOf(s) # "loop"
       /\ ModeOf(s) \notin {"syscall", "return", "halt"}
       /\ ModeOf(s) \in {"user", "doomed"} => s.frame \in {"user", "doom"}
  BY DEF ModeOf, Executing, Modes
<1>12. c.mode = ModeOf(s) /\ c.current = n /\ c \in CpuRecords /\ n # NoSlot
  BY <1>1, <1>11, Numbers DEF CpuRecords
<1>13. Current(c, r, waiters')
  BY <1>9, <1>10, <1>11, <1>12 DEF Current, Parked
<1>14. Fit(V.slots, c, waiters')
  BY <1>8, <1>9, <1>10, <1>11, <1>12, <1>13, <1>1, ZenonT(30) DEF Fit, AllParked, AllStarted
<1> QED BY <1>2, <1>5, <1>6, <1>14, InvStep, Zenon

\* The run ends.
LEMMA LoopKeeps ==
  ASSUME NEW W, Agree(W, {}), AllParked(W.slots, waiters'), waiters' \subseteq Threads, ToLoop(W),
         cpu_count' = 1
  PROVE  ThreadInv'
<1>1. PICK V, S : V = ReapTerminated(W) /\ S = W.slots
  BY Zenon
<1>2. slots' = V.slots /\ policy' = V.policy /\ cpu' = Loop
  BY <1>1 DEF ToLoop
<1>3. Agree(V, {}) /\ V.slots = ReapedSlots(S)
  BY <1>1, ReapOK
<1>4. Loop \in CpuRecords /\ Loop.mode = "loop" /\ Loop.current = NoSlot
  BY Numbers DEF Loop, CpuRecords, Modes
<1>5. ASSUME NEW i \in Slots PROVE Parked(i, V.slots[i], waiters')
  <2>1. V.slots[i] = IF S[i].state = "Terminated" THEN EmptySlot(S[i].gen) ELSE S[i]
    BY <1>3 DEF ReapedSlots
  <2>2. Parked(i, EmptySlot(S[i].gen), waiters')
    BY DEF Parked, EmptySlot
  <2>3. Parked(i, S[i], waiters')
    BY <1>1 DEF AllParked
  <2> QED BY <2>1, <2>2, <2>3
<1>6. Fit(V.slots, Loop, waiters')
  BY <1>4, <1>5 DEF Fit
<1> QED BY <1>2, <1>3, <1>6, InvStep

\* A step after which the same thread executes.
LEMMA OwnStep ==
  ASSUME ThreadInv, cpu.mode # "loop", cpu_count' = cpu_count, waiters' \subseteq Threads,
         NEW c \in CpuRecords, cpu' = c, c.mode # "loop", c.current = cur,
         NEW V, Agree(V, {}), slots' = V.slots, policy' = V.policy,
         \A i \in Slots : i # cur => Parked(i, V.slots[i], waiters'),
         AllStarted(V.slots), Current(c, V.slots[cur], waiters')
  PROVE  ThreadInv'
<1>1. cur \in Slots /\ cur # NoSlot /\ cpu_count = 1
  BY Numbers DEF ThreadInv, Fit, CpuRecords, cur
<1>2. Fit(V.slots, c, waiters')
  BY <1>1 DEF Fit, AllStarted
<1> QED BY <1>1, <1>2, InvStep

\* What the invariant says while a thread executes.
LEMMA WhileExecuting ==
  ASSUME ThreadInv, cpu.mode # "loop"
  PROVE  /\ cpu_count = 1 /\ OnlineCpus = Boots /\ Agree(World, {}) /\ World.slots = slots /\ World.policy = policy
         /\ cur \in Slots /\ cur # NoSlot /\ cpu \in CpuRecords /\ waiters \subseteq Threads
         /\ slots \in [Slots -> SlotRecords] /\ slots[cur] \in SlotRecords
         /\ Current(cpu, slots[cur], waiters) /\ AllStarted(slots)
         /\ slots[cur].state # "Empty" /\ slots[cur].started
         /\ \A i \in Slots : i # cur => Parked(i, slots[i], waiters)
<1>1. cpu_count = 1 /\ OnlineCpus = Boots
  BY DEF ThreadInv, OnlineCpus, Boots
<1>2. Agree(World, {}) /\ World.slots = slots /\ World.policy = policy
  BY DEF ThreadInv, World
<1>3. cur \in Slots /\ cur # NoSlot /\ cpu \in CpuRecords /\ waiters \subseteq Threads
  BY Numbers DEF ThreadInv, Fit, CpuRecords, cur
<1>4. slots \in [Slots -> SlotRecords] /\ slots[cur] \in SlotRecords
  BY <1>2, <1>3 DEF Agree, Worlds
<1>5. /\ Current(cpu, slots[cur], waiters) /\ AllStarted(slots)
      /\ \A i \in Slots : i # cur => Parked(i, slots[i], waiters)
  BY DEF ThreadInv, Fit, AllStarted, cur
<1>6. slots[cur].state # "Empty"
  <2>1. cpu.mode \in Executing \cup {"return", "halt"}
    BY <1>3 DEF CpuRecords, Modes, Executing
  <2> QED BY <1>5, <2>1 DEF Current
<1> QED BY <1>1, <1>2, <1>3, <1>4, <1>5, <1>6 DEF AllStarted

\* A step that changes the slot of the executing thread, but not its state.
LEMMA FieldStep ==
  ASSUME ThreadInv, cpu.mode # "loop", UNCHANGED <<policy, cpu_count>>, waiters' \subseteq Threads,
         NEW m \in Modes, m # "loop", cpu' = [cpu EXCEPT !.mode = m],
         NEW r \in SlotRecords, r.state = slots[cur].state, r.gen = slots[cur].gen, r.started,
         slots' = [slots EXCEPT ![cur] = r],
         \A i \in Slots : i # cur => Parked(i, slots[i], waiters'),
         Current([cpu EXCEPT !.mode = m], r, waiters')
  PROVE  ThreadInv'
<1>1. /\ cur \in Slots /\ cpu \in CpuRecords /\ slots \in [Slots -> SlotRecords] /\ AllStarted(slots)
      /\ Agree(World, {}) /\ World.slots = slots /\ World.policy = policy
  BY WhileExecuting
<1>2. PICK c, V, k : /\ c = [cpu EXCEPT !.mode = m] /\ V = [slots |-> [slots EXCEPT ![cur] = r], policy |-> policy]
                     /\ k = cur
  BY Zenon
<1>3. c \in CpuRecords /\ c.mode = m /\ c.current = cur
  BY <1>1, <1>2 DEF CpuRecords, cur
<1>4. /\ V.slots = [slots EXCEPT ![k] = r] /\ V.policy = policy /\ V.slots \in [Slots -> SlotRecords]
      /\ V.slots[k] = r /\ \A i \in Slots : i # k => V.slots[i] = slots[i]
  BY <1>1, <1>2
<1>5. V \in Worlds
  BY <1>1, <1>2, <1>4 DEF Agree, Worlds
<1>6. PICK W : W = World
  BY Zenon
<1>7. /\ \A i \in Slots : V.slots[i].state = W.slots[i].state /\ V.slots[i].gen = W.slots[i].gen
      /\ Agree(W, {}) /\ V.policy = W.policy
  BY <1>1, <1>2, <1>4, <1>6
<1>8. Agree(V, {})
  BY <1>5, <1>7, AgreeData, Zenon
<1>9. AllStarted(V.slots)
  BY <1>1, <1>2, <1>4 DEF AllStarted
<1>10. slots' = V.slots /\ policy' = V.policy /\ cpu' = c /\ cpu_count' = cpu_count
  BY <1>2, <1>4
<1>11. Current(c, V.slots[cur], waiters') /\ \A i \in Slots : i # cur => Parked(i, V.slots[i], waiters')
  BY <1>2, <1>4
<1> QED BY <1>3, <1>8, <1>9, <1>10, <1>11, OwnStep, Zenon

\* set_slot_state() and what the caller changes in the same slot.
SlotMove(W, S, j, s, U, r, V) ==
  /\ Agree(W, {}) /\ S = W.slots /\ j \in Slots /\ S[j].state # "Empty"
  /\ s \in SlotStates /\ s # "Empty" /\ U = SetSlotState(W, j, s)
  /\ r \in SlotRecords /\ r.state = s /\ r.gen = S[j].gen
  /\ V = [slots |-> With(S, j, r), policy |-> U.policy]
SlotAfter(S, j, s, U, r, V) ==
  /\ Agree(V, {}) /\ U.slots = Moved(S, j, s)
  /\ V.slots = With(S, j, r) /\ V.policy = U.policy
  /\ V.slots[j] = r /\ \A i \in Slots : i # j => V.slots[i] = S[i]
LEMMA SlotMoved ==
  ASSUME NEW W, NEW S, NEW j, NEW s, NEW U, NEW r, NEW V, SlotMove(W, S, j, s, U, r, V)
  PROVE  SlotAfter(S, j, s, U, r, V)
<1>0. /\ Agree(W, {}) /\ S = W.slots /\ j \in Slots /\ S[j].state # "Empty"
      /\ s \in SlotStates /\ s # "Empty" /\ U = SetSlotState(W, j, s)
      /\ r \in SlotRecords /\ r.state = s /\ r.gen = S[j].gen
      /\ V = [slots |-> With(S, j, r), policy |-> U.policy]
  BY Zenon DEF SlotMove
<1>1. S \in [Slots -> SlotRecords] /\ S[j] \in SlotRecords
  BY <1>0, Zenon DEF Agree, Worlds
<1>2. Agree(U, {}) /\ U.slots = Moved(S, j, s)
  <2>1. {} \ {j} = {} /\ W.slots[j].state # "Empty"
    BY <1>0
  <2>2. /\ Agree(SetSlotState(W, j, s), {} \ {j})
        /\ SetSlotState(W, j, s).slots = Moved(W.slots, j, s)
    BY <1>0, <2>1, StateMoves, Zenon
  <2> QED BY <1>0, <2>1, <2>2, Zenon
<1>3. /\ V.slots = With(S, j, r) /\ V.policy = U.policy /\ V.slots \in [Slots -> SlotRecords]
      /\ V.slots[j] = r /\ \A i \in Slots : i # j => V.slots[i] = S[i]
  BY <1>0, <1>1 DEF With
<1>4. V \in Worlds
  <2>1. U.policy \in PolicyRecords
    BY <1>2, Zenon DEF Agree, Worlds
  <2> QED BY <1>0, <1>3, <2>1, Zenon DEF Worlds
<1>5. U.slots[j].state = s /\ U.slots[j].gen = S[j].gen /\ \A i \in Slots : i # j => U.slots[i] = S[i]
  BY <1>0, <1>1, <1>2 DEF SlotRecords, Moved
<1>6. \A i \in Slots : V.slots[i].state = U.slots[i].state /\ V.slots[i].gen = U.slots[i].gen
  BY <1>0, <1>3, <1>5
<1>7. Agree(V, {})
  <2>1. PICK Y : Y = U
    BY Zenon
  <2>2. V \in Worlds /\ Agree(Y, {}) /\ V.policy = Y.policy
    BY <1>2, <1>3, <1>4, <2>1, Zenon
  <2>3. \A i \in Slots : V.slots[i].state = Y.slots[i].state /\ V.slots[i].gen = Y.slots[i].gen
    BY <1>6, <2>1, Zenon
  <2> QED BY ONLY <2>2, <2>3, AgreeData, Zenon
<1> QED BY <1>2, <1>3, <1>7, Zenon DEF SlotAfter

-------------------------------------------------------------------------------
\* Steps that change no more than the mode.
LEMMA ModeStep ==
  ASSUME ThreadInv, NEW from \in Executing, NEW m \in {"user", "syscall", "return", "exit", "gone"},
         InMode(from, m), UNCHANGED <<slots, policy, cpu_count, waiters>>,
         m \in {"user", "syscall", "return"} => from \in {"user", "syscall"}
  PROVE  ThreadInv'
<1>1. cpu.mode = from /\ cpu.mode # "loop" /\ cpu' = [cpu EXCEPT !.mode = m] /\ m \in Modes /\ m # "loop"
  BY DEF InMode, Executing, Modes
<1>2. PICK r, c : r = slots[cur] /\ c = [cpu EXCEPT !.mode = m]
  BY Zenon
<1>3. /\ cur \in Slots /\ slots \in [Slots -> SlotRecords] /\ r \in SlotRecords /\ r.started
      /\ Current(cpu, r, waiters) /\ waiters \subseteq Threads /\ cpu \in CpuRecords
      /\ \A i \in Slots : i # cur => Parked(i, slots[i], waiters)
  BY <1>1, <1>2, WhileExecuting
<1>4. slots = [slots EXCEPT ![cur] = r]
  BY <1>2, <1>3
<1>5. c.mode = m /\ c.current = cpu.current
  BY <1>2, <1>3 DEF CpuRecords
<1>6. Current(c, r, waiters)
  BY <1>1, <1>3, <1>5 DEF Current, Executing
<1> QED BY <1>1, <1>2, <1>3, <1>4, <1>6, FieldStep

\* runtime::run() enters Ring 3.
LEMMA EnterUserKeeps == ThreadInv /\ EnterUser => ThreadInv'
<1> SUFFICES ASSUME ThreadInv, EnterUser PROVE ThreadInv'
  OBVIOUS
<1>1. cpu.mode = "boot" /\ cpu.mode # "loop" /\ cpu' = [cpu EXCEPT !.mode = "user"] /\ "user" \in Modes
  BY DEF EnterUser, InMode, Modes
<1>2. PICK s, r, c : s = slots[cur] /\ r = [s EXCEPT !.space = TRUE] /\ c = [cpu EXCEPT !.mode = "user"]
  BY Zenon
<1>3. /\ cur \in Slots /\ slots \in [Slots -> SlotRecords] /\ s \in SlotRecords /\ s.started
      /\ Current(cpu, s, waiters) /\ waiters \subseteq Threads /\ cpu \in CpuRecords
      /\ \A i \in Slots : i # cur => Parked(i, slots[i], waiters)
  BY <1>1, <1>2, WhileExecuting
<1>4. r \in SlotRecords /\ r.state = s.state /\ r.gen = s.gen /\ r.started /\ r.space
  BY <1>2, <1>3, Zenon DEF SlotRecords
<1>5. slots' = [slots EXCEPT ![cur] = r] /\ UNCHANGED <<policy, cpu_count>> /\ waiters' = waiters
  BY <1>2, <1>3 DEF EnterUser
<1>6. c.mode = "user" /\ s.state = "Running"
  BY <1>1, <1>2, <1>3 DEF CpuRecords, Current, Executing
<1>7. Current(c, r, waiters)
  BY <1>4, <1>6 DEF Current
<1> QED BY <1>1, <1>2, <1>3, <1>4, <1>5, <1>7, FieldStep, Zenon

\* request_yield()
LEMMA RequestYieldKeeps == ThreadInv /\ RequestYield => ThreadInv'
<1> SUFFICES ASSUME ThreadInv, RequestYield PROVE ThreadInv'
  OBVIOUS
<1>1. cpu.mode = "syscall" /\ cpu.mode # "loop" /\ cpu' = [cpu EXCEPT !.mode = "return"] /\ "return" \in Modes
  BY DEF RequestYield, InMode, Modes
<1>2. PICK s, r, c : s = slots[cur] /\ r = [s EXCEPT !.yield = TRUE] /\ c = [cpu EXCEPT !.mode = "return"]
  BY Zenon
<1>3. /\ cur \in Slots /\ slots \in [Slots -> SlotRecords] /\ s \in SlotRecords /\ s.started
      /\ Current(cpu, s, waiters) /\ waiters \subseteq Threads /\ cpu \in CpuRecords
      /\ \A i \in Slots : i # cur => Parked(i, slots[i], waiters)
  BY <1>1, <1>2, WhileExecuting
<1>4. /\ r \in SlotRecords /\ r.state = s.state /\ r.gen = s.gen /\ r.started
      /\ r.space = s.space /\ r.frame = s.frame
  BY <1>2, <1>3, Zenon DEF SlotRecords
<1>5. slots' = [slots EXCEPT ![cur] = r] /\ UNCHANGED <<policy, cpu_count>> /\ waiters' = waiters
  BY <1>2, <1>3 DEF RequestYield
<1>6. c.mode = "return" /\ s.state = "Running" /\ s.space
  BY <1>1, <1>2, <1>3 DEF CpuRecords, Current, Executing
<1>7. Current(c, r, waiters)
  BY <1>4, <1>6 DEF Current, Executing
<1> QED BY <1>1, <1>2, <1>3, <1>4, <1>5, <1>7, FieldStep, Zenon

\* The exit system call gives up the Ring 3 frame.
LEMMA ExitKeeps == ThreadInv /\ Exit => ThreadInv'
<1> SUFFICES ASSUME ThreadInv, Exit PROVE ThreadInv'
  OBVIOUS
<1>1. /\ cpu.mode \in {"user", "doomed"} /\ cpu.mode # "loop" /\ cpu' = [cpu EXCEPT !.mode = "exit"]
      /\ "exit" \in Modes
  BY DEF Exit, Modes
<1>2. PICK s, r, c : /\ s = slots[cur] /\ r = [s EXCEPT !.frame = "none", !.wake = 0, !.yield = FALSE]
                     /\ c = [cpu EXCEPT !.mode = "exit"]
  BY Zenon
<1>3. /\ cur \in Slots /\ slots \in [Slots -> SlotRecords] /\ s \in SlotRecords /\ s.started
      /\ Current(cpu, s, waiters) /\ waiters \subseteq Threads /\ cpu \in CpuRecords
      /\ \A i \in Slots : i # cur => Parked(i, slots[i], waiters)
  BY <1>1, <1>2, WhileExecuting
<1>4. r \in SlotRecords /\ r.state = s.state /\ r.gen = s.gen /\ r.started /\ r.frame = "none"
  BY <1>2, <1>3, SlotValues, Zenon DEF SlotRecords
<1>5. c.mode = "exit" /\ s.state = "Running"
  BY <1>1, <1>2, <1>3 DEF CpuRecords, Current, Executing
<1>6. slots' = [slots EXCEPT ![cur] = r] /\ UNCHANGED <<policy, cpu_count>> /\ waiters' = waiters
  BY <1>2, <1>3, <1>5, Zenon DEF Exit
<1>7. Current(c, r, waiters)
  BY <1>4, <1>5 DEF Current
<1> QED BY <1>1, <1>2, <1>3, <1>4, <1>6, <1>7, FieldStep, Zenon

\* The cleanup of the runtime takes the waiter and the address space.
LEMMA CleanupKeeps == ThreadInv /\ Cleanup => ThreadInv'
<1> SUFFICES ASSUME ThreadInv, Cleanup PROVE ThreadInv'
  OBVIOUS
<1>1. cpu.mode = "exit" /\ cpu.mode # "loop" /\ cpu' = [cpu EXCEPT !.mode = "gone"] /\ "gone" \in Modes
  BY DEF Cleanup, InMode, Modes
<1>2. PICK s, r, c : /\ s = slots[cur] /\ r = [s EXCEPT !.space = FALSE, !.frame = "none", !.wake = 0, !.yield = FALSE]
                     /\ c = [cpu EXCEPT !.mode = "gone"]
  BY Zenon
<1>3. /\ cur \in Slots /\ slots \in [Slots -> SlotRecords] /\ s \in SlotRecords /\ s.started
      /\ Current(cpu, s, waiters) /\ waiters \subseteq Threads /\ cpu \in CpuRecords
      /\ \A i \in Slots : i # cur => Parked(i, slots[i], waiters)
  BY <1>1, <1>2, WhileExecuting
<1>4. r \in SlotRecords /\ r.state = s.state /\ r.gen = s.gen /\ r.started /\ r.frame = "none"
  BY <1>2, <1>3, SlotValues, Zenon DEF SlotRecords
<1>5. c.mode = "gone" /\ s.state = "Running"
  BY <1>1, <1>2, <1>3 DEF CpuRecords, Current, Executing
<1>6. slots' = [slots EXCEPT ![cur] = r] /\ UNCHANGED <<policy, cpu_count>>
  BY <1>2, <1>3, Zenon DEF Cleanup
<1>7. PICK ws : ws = waiters' /\ ws = waiters \ {<<cur, s.gen>>}
  BY <1>2, Zenon DEF Cleanup, Id, World
<1>8. Current(c, r, ws)
  BY <1>4, <1>5 DEF Current
<1>9. \A i \in Slots : i # cur => Parked(i, slots[i], ws)
  BY <1>3, <1>7 DEF Parked
<1> QED BY <1>1, <1>2, <1>3, <1>4, <1>6, <1>7, <1>8, <1>9, FieldStep, Zenon

\* sleep_current()
LEMMA SleepKeeps ==
  ASSUME ThreadInv, NEW n \in 1 .. MaxSleep, SleepCurrent(n)
  PROVE  ThreadInv'
<1>1. cpu.mode = "syscall" /\ cpu.mode # "loop" /\ cpu' = [cpu EXCEPT !.mode = "return"]
  BY DEF SleepCurrent, InMode
<1>2. PICK k, W, s, c : k = cur /\ W = World /\ s = slots[k] /\ c = [cpu EXCEPT !.mode = "return"]
  BY Zenon
<1>3. /\ k \in Slots /\ slots \in [Slots -> SlotRecords] /\ s \in SlotRecords /\ s.started
      /\ Current(cpu, s, waiters) /\ waiters \subseteq Threads /\ cpu \in CpuRecords /\ AllStarted(slots)
      /\ Agree(W, {}) /\ W.slots = slots /\ W.policy = policy /\ s.state # "Empty"
      /\ \A i \in Slots : i # k => Parked(i, slots[i], waiters)
  BY <1>1, <1>2, WhileExecuting
<1>4. PICK U, r : U = SetSlotState(W, k, "Sleeping") /\ r = [s EXCEPT !.state = "Sleeping", !.wake = n]
  BY Zenon
<1>5. PICK V : V = [slots |-> With(slots, k, r), policy |-> U.policy]
  BY Zenon
<1>6. r \in SlotRecords /\ r.state = "Sleeping" /\ r.gen = s.gen /\ r.started /\ r.space = s.space /\ r.frame = s.frame
  <2>1. n \in 0 .. MaxSleep
    BY Numbers
  <2>2. s \in SlotRecords /\ s.started /\ r = [s EXCEPT !.state = "Sleeping", !.wake = n]
    BY <1>3, <1>4, Zenon
  <2> QED BY <2>1, <2>2, SlotValues, Zenon DEF SlotRecords
<1>7. /\ Agree(V, {}) /\ U.slots = Moved(slots, k, "Sleeping")
      /\ V.slots = With(slots, k, r) /\ V.policy = U.policy
      /\ V.slots[k] = r /\ \A i \in Slots : i # k => V.slots[i] = slots[i]
  <2>1. slots = W.slots /\ slots[k].state # "Empty" /\ r.gen = slots[k].gen
    BY <1>1, <1>2, <1>3, <1>6, Zenon
  <2>2. "Sleeping" \in SlotStates /\ "Sleeping" # "Empty"
    BY SlotValues
  <2>3. SlotMove(W, slots, k, "Sleeping", U, r, V)
    BY <1>1, <1>3, <1>4, <1>5, <1>6, <2>1, <2>2, Zenon DEF SlotMove
  <2>4. SlotAfter(slots, k, "Sleeping", U, r, V)
    BY <2>3, SlotMoved, Zenon
  <2> QED BY <2>4, Zenon DEF SlotAfter
<1>8. /\ slots' = V.slots /\ policy' = V.policy /\ UNCHANGED <<cpu_count, waiters>>
  <2>1. slots' = [U.slots EXCEPT ![k].wake = n] /\ policy' = U.policy /\ UNCHANGED <<cpu_count, waiters>>
    BY <1>2, <1>4 DEF SleepCurrent
  <2>2. U.slots = [slots EXCEPT ![k] = [s EXCEPT !.state = "Sleeping"]]
    BY <1>2, <1>7, Zenon DEF Moved
  <2>3. slots' = [slots EXCEPT ![k] = [[s EXCEPT !.state = "Sleeping"] EXCEPT !.wake = n]]
    BY <1>3, <2>1, <2>2, Zenon
  <2> QED BY <1>4, <1>7, <2>1, <2>3, Zenon DEF With
<1>9. c \in CpuRecords /\ c.mode = "return" /\ c.current = cur /\ c.mode # "loop"
  BY <1>2, <1>3 DEF CpuRecords, Modes, cur
<1>10. Current(c, V.slots[k], waiters)
  BY <1>1, <1>3, <1>6, <1>7, <1>9 DEF Current, Executing
<1>11. AllStarted(V.slots)
  BY <1>3, <1>6, <1>7 DEF AllStarted
<1>12. \A i \in Slots : i # k => Parked(i, V.slots[i], waiters)
  BY <1>3, <1>7
<1>13. /\ Current(c, V.slots[cur], waiters') /\ cpu' = c /\ cpu_count' = cpu_count /\ waiters' \subseteq Threads
       /\ \A i \in Slots : i # cur => Parked(i, V.slots[i], waiters')
  BY <1>1, <1>2, <1>3, <1>8, <1>10, <1>12, Zenon
<1> QED BY <1>1, <1>8, <1>7, <1>9, <1>11, <1>13, OwnStep, Zenon

\* The socket wait blocks the thread once it has a waiter.
LEMMA SocketWaitKeeps == ThreadInv /\ SocketWait => ThreadInv'
<1> SUFFICES ASSUME ThreadInv, SocketWait PROVE ThreadInv'
  OBVIOUS
<1>1. cpu.mode = "syscall" /\ cpu.mode # "loop" /\ cpu' = [cpu EXCEPT !.mode = "return"]
  BY DEF SocketWait, InMode
<1>2. PICK k, W, s, c : k = cur /\ W = World /\ s = slots[k] /\ c = [cpu EXCEPT !.mode = "return"]
  BY Zenon
<1>3. /\ k \in Slots /\ slots \in [Slots -> SlotRecords] /\ s \in SlotRecords /\ s.started
      /\ Current(cpu, s, waiters) /\ waiters \subseteq Threads /\ cpu \in CpuRecords /\ AllStarted(slots)
      /\ Agree(W, {}) /\ W.slots = slots /\ W.policy = policy /\ s.state # "Empty"
      /\ \A i \in Slots : i # k => Parked(i, slots[i], waiters)
  BY <1>1, <1>2, WhileExecuting
<1>4. PICK U, r : U = SetSlotState(W, k, "Blocked") /\ r = [s EXCEPT !.state = "Blocked", !.wake = 0, !.yield = FALSE]
  BY Zenon
<1>5. PICK V, ws : /\ V = [slots |-> With(slots, k, r), policy |-> U.policy]
                   /\ ws = waiters \cup {<<k, s.gen>>}
  BY Zenon
<1>6. r \in SlotRecords /\ r.state = "Blocked" /\ r.gen = s.gen /\ r.started /\ r.space = s.space /\ r.frame = s.frame
  BY <1>3, <1>4, SlotValues, Zenon DEF SlotRecords
<1>7. /\ Agree(V, {}) /\ U.slots = Moved(slots, k, "Blocked")
      /\ V.slots = With(slots, k, r) /\ V.policy = U.policy
      /\ V.slots[k] = r /\ \A i \in Slots : i # k => V.slots[i] = slots[i]
  <2>1. slots = W.slots /\ slots[k].state # "Empty" /\ r.gen = slots[k].gen
    BY <1>1, <1>2, <1>3, <1>6, Zenon
  <2>2. "Blocked" \in SlotStates /\ "Blocked" # "Empty"
    BY SlotValues
  <2>3. SlotMove(W, slots, k, "Blocked", U, r, V)
    BY <1>1, <1>3, <1>4, <1>5, <1>6, <2>1, <2>2, Zenon DEF SlotMove
  <2>4. SlotAfter(slots, k, "Blocked", U, r, V)
    BY <2>3, SlotMoved, Zenon
  <2> QED BY <2>4, Zenon DEF SlotAfter
<1>8. /\ slots' = V.slots /\ policy' = V.policy /\ cpu_count' = cpu_count /\ waiters' = ws
  <2>1. /\ slots' = [U.slots EXCEPT ![k].wake = 0, ![k].yield = FALSE] /\ policy' = U.policy
        /\ cpu_count' = cpu_count /\ waiters' = waiters \cup {Id(W, k)}
    BY <1>2, <1>4 DEF SocketWait
  <2>2. Id(W, k) = <<k, s.gen>>
    BY <1>2, <1>3 DEF Id
  <2> QED BY <1>2, <1>3, <1>4, <1>5, <1>7, <2>1, <2>2, Zenon DEF Moved, With
<1>9. c \in CpuRecords /\ c.mode = "return" /\ c.current = cur /\ c.mode # "loop"
  BY <1>2, <1>3 DEF CpuRecords, Modes, cur
<1>10. Current(c, V.slots[k], ws)
  BY <1>1, <1>2, <1>3, <1>5, <1>6, <1>7, <1>9, SMTT(30) DEF Current, Executing
<1>11. AllStarted(V.slots)
  BY <1>3, <1>6, <1>7 DEF AllStarted
<1>12. ws \subseteq Threads
  <2>1. <<k, s.gen>> \in Threads
    BY <1>2, <1>3, Known, SMTT(30)
  <2> QED BY <1>3, <1>5, <2>1
<1>13. \A i \in Slots : i # k => Parked(i, V.slots[i], ws)
  BY <1>3, <1>5, <1>7 DEF Parked
<1>14. /\ Current(c, V.slots[cur], waiters') /\ cpu' = c /\ cpu_count' = cpu_count /\ waiters' \subseteq Threads
       /\ \A i \in Slots : i # cur => Parked(i, V.slots[i], waiters')
  BY <1>1, <1>2, <1>8, <1>10, <1>12, <1>13, Zenon
<1> QED BY <1>1, <1>8, <1>7, <1>9, <1>11, <1>14, OwnStep, Zenon

\* A child that has a Ring 3 frame continues at the exit trampoline.
LEMMA TerminateKeeps ==
  ASSUME ThreadInv, NEW j \in Slots, TerminateChild(j)
  PROVE  ThreadInv'
<1>1. /\ cpu.mode = "syscall" /\ cpu.mode # "loop" /\ cpu' = [cpu EXCEPT !.mode = "return"]
      /\ j # cur /\ slots[j].state # "Empty" /\ slots[j].frame \in {"user", "doom"}
  BY DEF TerminateChild, InMode
<1>2. PICK k, W, s, c : k = cur /\ W = World /\ s = slots[j] /\ c = [cpu EXCEPT !.mode = "return"]
  BY Zenon
<1>3. /\ k \in Slots /\ slots \in [Slots -> SlotRecords] /\ s \in SlotRecords
      /\ Current(cpu, slots[k], waiters) /\ waiters \subseteq Threads /\ cpu \in CpuRecords /\ AllStarted(slots)
      /\ Agree(W, {}) /\ W.slots = slots /\ W.policy = policy
      /\ \A i \in Slots : i # k => Parked(i, slots[i], waiters)
  BY <1>1, <1>2, WhileExecuting
<1>4. PICK U, r : U = SetSlotState(W, j, "Ready") /\ r = [s EXCEPT !.state = "Ready", !.frame = "doom", !.wake = 0]
  BY Zenon
<1>5. PICK V : V = [slots |-> With(slots, j, r), policy |-> U.policy]
  BY Zenon
<1>6. /\ r \in SlotRecords /\ r.state = "Ready" /\ r.gen = s.gen /\ r.started = s.started
      /\ r.space = s.space /\ r.frame = "doom"
  BY <1>3, <1>4, SlotValues, Zenon DEF SlotRecords
<1>7. /\ Agree(V, {}) /\ U.slots = Moved(slots, j, "Ready")
      /\ V.slots = With(slots, j, r) /\ V.policy = U.policy
      /\ V.slots[j] = r /\ \A i \in Slots : i # j => V.slots[i] = slots[i]
  <2>1. slots = W.slots /\ slots[j].state # "Empty" /\ r.gen = slots[j].gen
    BY <1>1, <1>2, <1>3, <1>6, Zenon
  <2>2. "Ready" \in SlotStates /\ "Ready" # "Empty"
    BY SlotValues
  <2>3. SlotMove(W, slots, j, "Ready", U, r, V)
    BY <1>1, <1>3, <1>4, <1>5, <1>6, <2>1, <2>2, Zenon DEF SlotMove
  <2>4. SlotAfter(slots, j, "Ready", U, r, V)
    BY <2>3, SlotMoved, Zenon
  <2> QED BY <2>4, Zenon DEF SlotAfter
<1>8. slots' = V.slots /\ policy' = V.policy /\ UNCHANGED <<cpu_count, waiters>>
  <2>1. /\ slots' = [U.slots EXCEPT ![j].frame = "doom", ![j].wake = 0] /\ policy' = U.policy
        /\ UNCHANGED <<cpu_count, waiters>>
    BY <1>2, <1>4 DEF TerminateChild
  <2> QED BY <1>2, <1>3, <1>4, <1>5, <1>7, <2>1, Zenon DEF Moved, With
<1>9. c \in CpuRecords /\ c.mode = "return" /\ c.current = cur /\ c.mode # "loop"
  BY <1>2, <1>3 DEF CpuRecords, Modes, cur
<1>10. Current(c, V.slots[k], waiters)
  BY <1>1, <1>2, <1>3, <1>7, <1>9 DEF Current, Executing, cur
<1>11. AllStarted(V.slots)
  BY <1>1, <1>2, <1>3, <1>6, <1>7 DEF AllStarted
<1>12. Parked(j, s, waiters)
  BY <1>1, <1>2, <1>3
<1>13. Parked(j, r, waiters)
  BY <1>1, <1>2, <1>6, <1>12, SMTT(30) DEF Parked
<1>14. \A i \in Slots : i # k => Parked(i, V.slots[i], waiters)
  BY <1>3, <1>7, <1>13
<1>15. /\ Current(c, V.slots[cur], waiters') /\ cpu' = c /\ cpu_count' = cpu_count /\ waiters' \subseteq Threads
       /\ \A i \in Slots : i # cur => Parked(i, V.slots[i], waiters')
  BY <1>1, <1>2, <1>3, <1>8, <1>10, <1>14, Zenon
<1> QED BY <1>1, <1>8, <1>7, <1>9, <1>11, <1>15, OwnStep, Zenon

-------------------------------------------------------------------------------
\* exit_current(): the slot is reaped later, and another thread runs or the run ends.
LEMMA ExitCurrentKeeps == ThreadInv /\ ExitCurrent => ThreadInv'
<1> SUFFICES ASSUME ThreadInv, ExitCurrent PROVE ThreadInv'
  OBVIOUS
<1>1. cpu.mode \in {"gone", "kernel"} /\ cpu.mode # "loop" /\ UNCHANGED <<cpu_count, waiters>>
  BY DEF ExitCurrent
<1>2. PICK k, W, s, e : k = cur /\ W = World /\ s = slots[k] /\ e = cpu.elapsed
  BY Zenon
<1>3. /\ k \in Slots /\ slots \in [Slots -> SlotRecords] /\ s \in SlotRecords /\ s.started
      /\ Current(cpu, s, waiters) /\ waiters \subseteq Threads /\ cpu \in CpuRecords /\ AllStarted(slots)
      /\ Agree(W, {}) /\ W.slots = slots /\ s.state # "Empty" /\ cpu_count = 1 /\ OnlineCpus = Boots
      /\ \A i \in Slots : i # k => Parked(i, slots[i], waiters)
  BY <1>1, <1>2, WhileExecuting, Zenon
<1>4. PICK U, V, n, r : /\ U = SetSlotState(W, k, "Terminated") /\ V = FindReady(U, k) /\ n = Found(U, k)
                        /\ r = [s EXCEPT !.state = "Terminated"]
  BY Zenon
<1>5. Agree(U, {}) /\ U.slots = [slots EXCEPT ![k] = r]
  <2>1. "Terminated" \in SlotStates /\ "Terminated" # "Empty" /\ {} \ {k} = {}
    BY DEF SlotStates
  <2>2. Agree(U, {} \ {k}) /\ U.slots = [slots EXCEPT ![k] = [@ EXCEPT !.state = "Terminated"]]
    <3>1. W.slots[k].state # "Empty"
      BY <1>2, <1>3
    <3>2. /\ Agree(SetSlotState(W, k, "Terminated"), {} \ {k})
          /\ SetSlotState(W, k, "Terminated").slots = Moved(W.slots, k, "Terminated")
      BY <1>3, <2>1, <3>1, StateMoves, Zenon
    <3> QED BY <1>3, <1>4, <3>2, Zenon DEF Moved
  <2> QED BY <1>2, <1>3, <1>4, <2>1, <2>2
<1>6. r.state = "Terminated" /\ r.started /\ r.frame = s.frame /\ r.space = s.space
  BY <1>3, <1>4 DEF SlotRecords
<1>7. U.slots[k] = r /\ \A i \in Slots : i # k => U.slots[i] = slots[i]
  BY <1>3, <1>5
<1>8. AllParked(U.slots, waiters) /\ AllStarted(U.slots)
  <2>1. Parked(k, r, waiters)
    BY <1>3, <1>6, Zenon DEF Parked, Current
  <2> QED BY <1>3, <1>6, <1>7, <2>1 DEF AllParked, AllStarted
<1>9. /\ V.slots = U.slots
      /\ n = NoSlot => Agree(V, {})
      /\ n # NoSlot => n \in Slots /\ U.slots[n].state = "Ready" /\ Agree(V, {n})
  BY <1>3, <1>4, <1>5, FindReadyOK
<1>10. IF n = NoSlot THEN ToLoop(V) ELSE SwitchTo(V, n, e)
  BY <1>2, <1>4 DEF ExitCurrent
<1>11. e \in 0 .. Limit
  BY <1>2, <1>3 DEF CpuRecords
<1>12. AllParked(V.slots, waiters') /\ AllStarted(V.slots) /\ waiters' \subseteq Threads /\ cpu_count' = 1
  BY <1>1, <1>3, <1>8, <1>9, Zenon
<1>13. CASE n = NoSlot
  BY <1>9, <1>10, <1>12, <1>13, LoopKeeps
<1>14. CASE n # NoSlot
  BY <1>9, <1>10, <1>11, <1>12, <1>14, SwitchKeeps
<1> QED BY <1>13, <1>14

\* The loop of software_interrupt_schedule(), for a thread that is put aside.
LEMMA RescheduleKeeps ==
  ASSUME ThreadInv, cpu.mode # "loop", cpu_count' = cpu_count, waiters' = waiters,
         NEW W, Agree(W, {}), AllParked(W.slots, waiters), AllStarted(W.slots),
         W.slots[cur].state \in {"Ready", "Sleeping", "Blocked"},
         W.slots[cur].frame = "user", W.slots[cur].space,
         NEW e \in 0 .. Limit, Reschedule(W, e)
  PROVE  ThreadInv'
<1>1. PICK k : k = cur
  BY Zenon
<1>2. /\ k \in Slots /\ waiters \subseteq Threads /\ cpu \in CpuRecords
      /\ cpu_count = 1 /\ OnlineCpus = Boots
  BY <1>1, WhileExecuting
<1>3. PICK s, n, V : s = W.slots[k] /\ n = Found(W, k) /\ V = FindReady(W, k)
  BY Zenon
<1>4. PICK R : R = SetSlotState(V, k, "Running")
  BY Zenon
<1>5. IF e >= Limit THEN ToLoop(IF s.state = "Running" THEN SetSlotState(W, k, "Ready") ELSE W)
      ELSE IF n # NoSlot THEN SwitchTo(V, n, e)
      ELSE IF s.state = "Blocked" THEN ToLoop(V)
      ELSE IF s.state = "Sleeping" THEN Stay(V, "halt", e)
      ELSE Stay([R EXCEPT !.slots[k].wake = 0], "user", e)
  BY <1>1, <1>3, <1>4, Zenon DEF Reschedule
<1>6. /\ V.slots = W.slots
      /\ n = NoSlot => Agree(V, {})
      /\ n # NoSlot => n \in Slots /\ W.slots[n].state = "Ready" /\ Agree(V, {n})
  BY <1>2, <1>3, FindReadyOK
<1>7. AllParked(V.slots, waiters') /\ AllStarted(V.slots) /\ waiters' \subseteq Threads /\ cpu_count' = 1
  BY <1>2, <1>6
<1>8. s.state \in {"Ready", "Sleeping", "Blocked"} /\ s.frame = "user" /\ s.space
  BY <1>1, <1>3
<1>9. CASE e >= Limit
  <2>1. ToLoop(W)
    BY <1>5, <1>8, <1>9
  <2> QED BY <1>6, <1>7, <2>1, LoopKeeps
<1>10. CASE ~(e >= Limit) /\ n # NoSlot
  <2>1. SwitchTo(V, n, e)
    BY <1>5, <1>10
  <2> QED BY <1>6, <1>7, <1>10, <2>1, SwitchKeeps, Zenon
<1>11. CASE ~(e >= Limit) /\ n = NoSlot /\ s.state = "Blocked"
  <2>1. ToLoop(V)
    BY <1>5, <1>11
  <2> QED BY <1>6, <1>7, <1>11, <2>1, LoopKeeps
<1>12. CASE ~(e >= Limit) /\ n = NoSlot /\ s.state = "Sleeping"
  <2>1. Stay(V, "halt", e)
    BY <1>5, <1>12
  <2>2. PICK c : c = [cpu EXCEPT !.mode = "halt", !.elapsed = e]
    BY Zenon
  <2>3. c \in CpuRecords /\ c.mode = "halt" /\ c.mode # "loop" /\ c.current = cur
    BY <1>2, <2>2, Zenon DEF CpuRecords, Modes, cur
  <2>4. Current(c, V.slots[cur], waiters')
    BY <1>1, <1>3, <1>6, <1>8, <1>12, <2>3, Zenon DEF Current, Executing
  <2>5. slots' = V.slots /\ policy' = V.policy /\ cpu' = c
    BY <2>1, <2>2 DEF Stay
  <2>6. \A i \in Slots : i # cur => Parked(i, V.slots[i], waiters')
    BY <1>7 DEF AllParked
  <2> QED BY <1>6, <1>7, <1>12, <2>3, <2>4, <2>5, <2>6, OwnStep, Zenon
<1>13. CASE ~(e >= Limit) /\ n = NoSlot /\ s.state = "Ready"
  <2>1. PICK Y : Y = [R EXCEPT !.slots[k].wake = 0]
    BY Zenon
  <2>2. Stay(Y, "user", e)
    BY <1>5, <1>13, <2>1
  <2>3. s \in SlotRecords /\ W.slots \in [Slots -> SlotRecords]
    BY <1>2, <1>3, Zenon DEF Agree, Worlds
  <2>4. PICK r : r = [s EXCEPT !.state = "Running", !.wake = 0]
    BY Zenon
  <2>5. /\ r \in SlotRecords /\ r.state = "Running" /\ r.gen = s.gen /\ r.frame = s.frame
        /\ r.space = s.space /\ r.started = s.started
    BY <2>3, <2>4, SlotValues, Zenon DEF SlotRecords
  <2>6. PICK Z : Z = [slots |-> With(V.slots, k, r), policy |-> R.policy]
    BY Zenon
  <2>7. /\ Agree(Z, {}) /\ R.slots = Moved(V.slots, k, "Running")
        /\ Z.slots = With(V.slots, k, r) /\ Z.policy = R.policy
        /\ Z.slots[k] = r /\ \A i \in Slots : i # k => Z.slots[i] = V.slots[i]
    <3>1. V.slots[k].state # "Empty" /\ r.gen = V.slots[k].gen /\ Agree(V, {})
      BY <1>3, <1>6, <1>13, <2>5
    <3>2. "Running" \in SlotStates /\ "Running" # "Empty"
      BY SlotValues
    <3>3. SlotMove(V, V.slots, k, "Running", R, r, Z)
      BY <1>2, <1>4, <2>5, <2>6, <3>1, <3>2, Zenon DEF SlotMove
    <3>4. SlotAfter(V.slots, k, "Running", R, r, Z)
      BY <3>3, SlotMoved, Zenon
    <3> QED BY <3>4, Zenon DEF SlotAfter
  <2>8. R \in Worlds
    <3>1. Agree(R, {} \ {k})
      BY <1>2, <1>3, <1>4, <1>6, <1>13, StateSet, Zenon DEF SlotStates
    <3> QED BY <3>1, Zenon DEF Agree
  <2>9. Y.slots = Z.slots /\ Y.policy = Z.policy
    <3>1. Y = [R EXCEPT !.slots = [R.slots EXCEPT ![k] = [@ EXCEPT !.wake = 0]]]
      BY <2>1, Zenon
    <3>2. R = [slots |-> R.slots, policy |-> R.policy] /\ R.slots \in [Slots -> SlotRecords]
      BY <2>8 DEF Worlds
    <3>3. Y.policy = R.policy /\ Y.slots = [R.slots EXCEPT ![k] = [@ EXCEPT !.wake = 0]]
      BY <3>1, <3>2
    <3>4. V.slots \in [Slots -> SlotRecords] /\ V.slots[k] = s
      BY <1>3, <1>6, <2>3
    <3>5. R.slots[k] = [s EXCEPT !.state = "Running"] /\ \A i \in Slots : i # k => R.slots[i] = V.slots[i]
      BY <1>2, <2>7, <3>4 DEF Moved
    <3>6. [R.slots[k] EXCEPT !.wake = 0] = r
      BY <2>3, <2>4, <3>5 DEF SlotRecords
    <3>7. Y.slots = [V.slots EXCEPT ![k] = r]
      BY <1>2, <2>7, <3>3, <3>4, <3>6 DEF Moved
    <3> QED BY <2>7, <3>3, <3>7, Zenon DEF With
  <2>10. PICK c : c = [cpu EXCEPT !.mode = "user", !.elapsed = e]
    BY Zenon
  <2>11. c \in CpuRecords /\ c.mode = "user" /\ c.mode # "loop" /\ c.current = cur
    BY <1>2, <2>10, Zenon DEF CpuRecords, Modes, cur
  <2>12. Current(c, Z.slots[cur], waiters')
    BY <1>1, <1>8, <2>5, <2>7, <2>11, Zenon DEF Current, Executing
  <2>13. slots' = Z.slots /\ policy' = Z.policy /\ cpu' = c
    BY <2>2, <2>9, <2>10, SMTT(30) DEF Stay
  <2>14. AllStarted(Z.slots) /\ \A i \in Slots : i # cur => Parked(i, Z.slots[i], waiters')
    BY <1>1, <1>3, <1>6, <1>7, <1>13, <2>5, <2>7 DEF AllParked, AllStarted
  <2> QED BY <1>7, <2>7, <2>11, <2>12, <2>13, <2>14, OwnStep, Zenon
<1> QED BY <1>8, <1>9, <1>10, <1>11, <1>12, <1>13

\* software_interrupt_schedule(), at the end of every system call.
LEMMA SoftwareInterruptKeeps == ThreadInv /\ SoftwareInterruptSchedule => ThreadInv'
<1> SUFFICES ASSUME ThreadInv, SoftwareInterruptSchedule PROVE ThreadInv'
  OBVIOUS
<1>1. cpu.mode = "return" /\ cpu.mode # "loop" /\ UNCHANGED <<cpu_count, waiters>>
  BY DEF SoftwareInterruptSchedule
<1>2. PICK k, W, s, e : k = cur /\ W = World /\ s = slots[k] /\ e = cpu.elapsed
  BY Zenon
<1>3. /\ k \in Slots /\ slots \in [Slots -> SlotRecords] /\ s \in SlotRecords /\ s.started
      /\ Current(cpu, s, waiters) /\ waiters \subseteq Threads /\ cpu \in CpuRecords /\ AllStarted(slots)
      /\ Agree(W, {}) /\ W.slots = slots /\ W.policy = policy /\ s.state # "Empty"
      /\ \A i \in Slots : i # k => Parked(i, slots[i], waiters)
  BY <1>1, <1>2, WhileExecuting
<1>4. PICK U, r : /\ U = [W EXCEPT !.slots[k].frame = "user", !.slots[k].yield = FALSE]
                  /\ r = [s EXCEPT !.frame = "user", !.yield = FALSE]
  BY Zenon
<1>5. /\ r \in SlotRecords /\ r.state = s.state /\ r.gen = s.gen /\ r.started /\ r.frame = "user" /\ r.space = s.space
  BY <1>3, <1>4, Zenon DEF SlotRecords, Frames
<1>6. s.space /\ s.state \in {"Running", "Ready", "Sleeping", "Blocked"} /\ (s.state = "Blocked" => <<k, s.gen>> \in waiters)
  BY <1>1, <1>2, <1>3 DEF Current, cur
<1>7. W \in Worlds /\ W = [slots |-> slots, policy |-> policy]
  BY <1>2, <1>3 DEF Agree, World
<1>8. /\ U = [slots |-> [slots EXCEPT ![k] = r], policy |-> policy]
      /\ U.slots = [slots EXCEPT ![k] = r] /\ U.policy = W.policy
  BY <1>2, <1>3, <1>4, <1>7, ZenonT(30)
<1>9. U.slots \in [Slots -> SlotRecords] /\ U.slots[k] = r /\ \A i \in Slots : i # k => U.slots[i] = slots[i]
  BY <1>3, <1>5, <1>8
<1>10. U \in Worlds
  BY <1>7, <1>8, <1>9 DEF Worlds
<1>11. Agree(U, {})
  <2>1. \A i \in Slots : U.slots[i].state = W.slots[i].state /\ U.slots[i].gen = W.slots[i].gen
    BY <1>2, <1>3, <1>5, <1>9
  <2> QED BY <1>3, <1>8, <1>10, <2>1, AgreeData, SMTT(30)
<1>12. AllStarted(U.slots)
  BY <1>3, <1>5, <1>9 DEF AllStarted
<1>13. PICK Y : Y = IF s.yield /\ s.state = "Running" THEN SetSlotState(U, k, "Ready") ELSE U
  BY Zenon
<1>14. IF ~s.yield /\ s.state = "Running" THEN Stay(U, "user", e) ELSE Reschedule(Y, e)
  BY <1>2, <1>4, <1>13, Zenon DEF SoftwareInterruptSchedule
<1>15. e \in 0 .. Limit
  BY <1>2, <1>3 DEF CpuRecords
<1>16. CASE ~s.yield /\ s.state = "Running"
  <2>1. PICK c : c = [cpu EXCEPT !.mode = "user", !.elapsed = e]
    BY Zenon
  <2>2. c \in CpuRecords /\ c.mode = "user" /\ c.mode # "loop" /\ c.current = cur
    BY <1>3, <1>15, <2>1, Zenon DEF CpuRecords, Modes, cur
  <2>3. slots' = U.slots /\ policy' = U.policy /\ cpu' = c
    BY <1>14, <1>16, <2>1 DEF Stay
  <2>4. Current(c, U.slots[cur], waiters')
    BY <1>2, <1>5, <1>6, <1>9, <1>16, <2>2, ZenonT(30) DEF Current, Executing
  <2>5. \A i \in Slots : i # cur => Parked(i, U.slots[i], waiters')
    BY <1>1, <1>2, <1>3, <1>9
  <2> QED BY <1>1, <1>3, <1>11, <1>12, <2>2, <2>3, <2>4, <2>5, OwnStep
<1>17. CASE ~(~s.yield /\ s.state = "Running")
  <2>1. Reschedule(Y, e)
    BY <1>14, <1>17
  <2>2. PICK q : q = IF s.state = "Running" THEN [r EXCEPT !.state = "Ready"] ELSE r
    BY Zenon
  <2>3. Agree(Y, {}) /\ Y.slots = [U.slots EXCEPT ![k] = q]
    <3>1. CASE s.state = "Running"
      <4>1. Y = SetSlotState(U, k, "Ready")
        BY <1>13, <1>17, <3>1
      <4>2. "Ready" \in SlotStates /\ "Ready" # "Empty" /\ {} \ {k} = {}
        BY DEF SlotStates
      <4>3. Agree(Y, {} \ {k}) /\ Y.slots = [U.slots EXCEPT ![k] = [@ EXCEPT !.state = "Ready"]]
        BY <1>3, <1>5, <1>9, <1>11, <4>1, <4>2, StateSet
      <4> QED BY <1>3, <1>9, <2>2, <3>1, <4>2, <4>3
    <3>2. CASE s.state # "Running"
      BY <1>9, <1>11, <1>13, <2>2, <3>2
    <3> QED BY <3>1, <3>2
  <2>4. /\ q.state \in {"Ready", "Sleeping", "Blocked"} /\ q.frame = "user" /\ q.space /\ q.started /\ q.gen = s.gen
        /\ q.state = "Blocked" => <<k, s.gen>> \in waiters
    BY <1>5, <1>6, <2>2, Zenon DEF SlotRecords
  <2>5. Y.slots[k] = q /\ \A i \in Slots : i # k => Y.slots[i] = slots[i]
    BY <1>3, <1>9, <2>3
  <2>6. Parked(k, q, waiters)
    BY <2>4 DEF Parked
  <2>7. AllParked(Y.slots, waiters) /\ AllStarted(Y.slots)
    BY <1>3, <2>4, <2>5, <2>6 DEF AllParked, AllStarted
  <2> QED BY <1>1, <1>2, <1>15, <2>1, <2>3, <2>4, <2>5, <2>7, RescheduleKeeps, ZenonT(30)
<1> QED BY <1>16, <1>17

-------------------------------------------------------------------------------
\* The ticks of a run are counted up to its limit.
LEMMA ElapsedOK ==
  ASSUME cpu \in CpuRecords
  PROVE  Elapsed \in 0 .. Limit /\ (cpu.mode = "loop" => Elapsed = 0)
<1>1. PICK e : e = cpu.elapsed /\ e \in 0 .. Limit /\ Limit \in Nat
  BY Numbers DEF CpuRecords
<1>2. {e + 1, Limit} \in SUBSET Nat /\ {e + 1, Limit} # {}
  BY <1>1
<1>3. PICK m : m = Min({e + 1, Limit})
  BY Zenon
<1>4. m \in {e + 1, Limit} /\ m <= Limit
  BY <1>2, <1>3, MinOK
<1>5. m \in 0 .. Limit
  BY <1>1, <1>4
<1> QED BY <1>1, <1>3, <1>5 DEF Elapsed

\* A tick leaves what is put aside put aside.
LEMMA TickedParked ==
  ASSUME NEW i, NEW s, NEW r, NEW ws, Ticked(s, r), Parked(i, s, ws)
  PROVE  Parked(i, r, ws)
BY DEF Ticked, Parked

\* A tick while the kernel goes on.
LEMMA TimerInKernelKeeps == ThreadInv /\ TimerInKernel => ThreadInv'
<1> SUFFICES ASSUME ThreadInv, TimerInKernel PROVE ThreadInv'
  OBVIOUS
<1>1. /\ cpu.mode \in {"loop", "boot", "syscall", "return", "exit", "gone"}
      /\ Stay(TickAndWake(World), cpu.mode, Elapsed) /\ UNCHANGED <<cpu_count, waiters>>
  BY DEF TimerInKernel
<1>2. PICK W, V, c, e : /\ W = World /\ V = TickAndWake(W) /\ e = Elapsed
                        /\ c = [cpu EXCEPT !.mode = cpu.mode, !.elapsed = e]
  BY Zenon
<1>3. Agree(W, {}) /\ W.slots = slots /\ cpu \in CpuRecords /\ cpu_count = 1 /\ Fit(slots, cpu, waiters)
  BY <1>2 DEF ThreadInv, World, Fit
<1>4. Agree(V, {}) /\ \A i \in Slots : Ticked(slots[i], V.slots[i])
  BY <1>2, <1>3, TickOK
<1>5. e \in 0 .. Limit
  BY <1>2, <1>3, ElapsedOK
<1>6. c \in CpuRecords /\ c.mode = cpu.mode /\ c.current = cpu.current
  BY <1>2, <1>3, <1>5, Zenon DEF CpuRecords
<1>7. slots' = V.slots /\ policy' = V.policy /\ cpu' = c /\ waiters' = waiters /\ cpu_count' = 1
  BY <1>1, <1>2, <1>3 DEF Stay
<1>8. \A i \in Slots : i # c.current => Parked(i, V.slots[i], waiters)
  <2>1. \A i \in Slots : i # c.current => Parked(i, slots[i], waiters)
    BY <1>3, <1>6 DEF Fit
  <2> QED BY <1>4, <2>1, TickedParked
<1>9. ASSUME c.mode # "loop"
      PROVE  /\ Current(c, V.slots[c.current], waiters)
             /\ \A i \in Slots : V.slots[i].state # "Empty" => V.slots[i].started
  <2>1. /\ c.current \in Slots /\ Current(cpu, slots[c.current], waiters)
        /\ \A i \in Slots : slots[i].state # "Empty" => slots[i].started
    BY <1>3, <1>6, <1>9 DEF Fit, CpuRecords
  <2>2. PICK s, r : s = slots[c.current] /\ r = V.slots[c.current] /\ Ticked(s, r) /\ Current(cpu, s, waiters)
    BY <1>4, <2>1
  <2>3. Current(c, r, waiters)
    BY <1>1, <1>6, <2>2 DEF Current, Ticked, Executing
  <2>4. \A i \in Slots : V.slots[i].state # "Empty" => V.slots[i].started
    BY <1>4, <2>1 DEF Ticked
  <2> QED BY <2>2, <2>3, <2>4
<1>10. Fit(V.slots, c, waiters)
  BY <1>3, <1>6, <1>8, <1>9, SMTT(30) DEF Fit
<1> QED BY <1>4, <1>7, <1>10, InvStep

\* A tick while the rescheduling hook waits for one.
LEMMA TimerInHaltKeeps == ThreadInv /\ TimerInHalt => ThreadInv'
<1> SUFFICES ASSUME ThreadInv, TimerInHalt PROVE ThreadInv'
  OBVIOUS
<1>1. /\ cpu.mode = "halt" /\ cpu.mode # "loop" /\ Reschedule(TickAndWake(World), Elapsed)
      /\ UNCHANGED <<cpu_count, waiters>>
  BY DEF TimerInHalt
<1>2. PICK k, W, V, e, s, r : /\ k = cur /\ W = World /\ V = TickAndWake(W) /\ e = Elapsed
                              /\ s = slots[k] /\ r = V.slots[k]
  BY Zenon
<1>3. /\ k \in Slots /\ Current(cpu, s, waiters) /\ cpu \in CpuRecords /\ AllStarted(slots)
      /\ Agree(W, {}) /\ W.slots = slots
      /\ \A i \in Slots : i # k => Parked(i, slots[i], waiters)
  BY <1>1, <1>2, WhileExecuting
<1>4. Agree(V, {}) /\ \A i \in Slots : Ticked(slots[i], V.slots[i])
  BY <1>2, <1>3, TickOK
<1>5. e \in 0 .. Limit
  BY <1>2, <1>3, ElapsedOK
<1>6. s.state = "Sleeping" /\ s.frame = "user" /\ s.space
  BY <1>1, <1>3 DEF Current
<1>7. r.state \in {"Ready", "Sleeping"} /\ r.frame = "user" /\ r.space /\ r.started
  BY <1>2, <1>3, <1>4, <1>6 DEF Ticked, AllStarted
<1>8. AllParked(V.slots, waiters)
  <2>1. Parked(k, r, waiters)
    BY <1>7 DEF Parked
  <2> QED BY <1>2, <1>3, <1>4, <2>1, TickedParked DEF AllParked
<1>9. AllStarted(V.slots)
  BY <1>3, <1>4 DEF AllStarted, Ticked
<1>10. Reschedule(V, e)
  BY <1>1, <1>2
<1> QED BY <1>1, <1>2, <1>4, <1>5, <1>7, <1>8, <1>9, <1>10, RescheduleKeeps

\* A tick in Ring 3 or in a kernel thread.
LEMMA TimerPreemptsKeeps == ThreadInv /\ TimerPreempts => ThreadInv'
<1> SUFFICES ASSUME ThreadInv, TimerPreempts PROVE ThreadInv'
  OBVIOUS
<1>1. cpu.mode \in {"user", "doomed", "kernel"} /\ cpu.mode # "loop" /\ UNCHANGED <<cpu_count, waiters>>
  BY DEF TimerPreempts
<1>2. PICK k, W, U, e, f, s, p : /\ k = cur /\ W = World /\ U = TickAndWake(W) /\ e = Elapsed /\ f = Interrupted
                                 /\ s = slots[k] /\ p = U.slots[k]
  BY Zenon
<1>3. /\ k \in Slots /\ Current(cpu, s, waiters) /\ cpu \in CpuRecords /\ AllStarted(slots)
      /\ waiters \subseteq Threads /\ Agree(W, {}) /\ W.slots = slots /\ cpu_count = 1 /\ OnlineCpus = Boots
      /\ \A i \in Slots : i # k => Parked(i, slots[i], waiters)
  BY <1>1, <1>2, WhileExecuting
<1>4. Agree(U, {}) /\ \A i \in Slots : Ticked(slots[i], U.slots[i])
  BY <1>2, <1>3, TickOK
<1>5. e \in 0 .. Limit
  BY <1>2, <1>3, ElapsedOK, SMTT(30)
<1>6. s.state = "Running" /\ p.state = "Running" /\ p.started /\ p.gen = s.gen /\ p.space = s.space /\ p \in SlotRecords
  BY <1>1, <1>2, <1>3, <1>4 DEF Current, Ticked, Executing, AllStarted
<1>7. f \in Frames /\ f \in {"user", "doom", "kernel"} /\ (f \in {"user", "doom"} => p.space)
  BY <1>1, <1>2, <1>3, <1>6 DEF Interrupted, Frames, Current
<1>8. PICK A, C, r, q : /\ A = [U EXCEPT !.slots[k].frame = f] /\ C = [A EXCEPT !.slots[k].yield = FALSE]
                        /\ r = [p EXCEPT !.frame = f] /\ q = [p EXCEPT !.frame = f, !.yield = FALSE]
  BY Zenon
<1>9. /\ r \in SlotRecords /\ r.state = "Running" /\ r.gen = p.gen /\ r.started /\ r.frame = f /\ r.space = p.space
      /\ q \in SlotRecords /\ q.state = "Running" /\ q.gen = p.gen /\ q.started /\ q.frame = f /\ q.space = p.space
  BY <1>6, <1>7, <1>8, ZenonT(30) DEF SlotRecords
<1>10. U \in Worlds /\ U.slots \in [Slots -> SlotRecords] /\ U = [slots |-> U.slots, policy |-> U.policy]
  BY <1>4 DEF Agree, Worlds
<1>11. /\ A = [slots |-> [U.slots EXCEPT ![k] = r], policy |-> U.policy]
       /\ A.slots = [U.slots EXCEPT ![k] = r] /\ A.policy = U.policy
  BY <1>2, <1>3, <1>8, <1>10
<1>12. /\ C = [slots |-> [U.slots EXCEPT ![k] = q], policy |-> U.policy]
       /\ C.slots = [U.slots EXCEPT ![k] = q] /\ C.policy = U.policy
  <2>1. [r EXCEPT !.yield = FALSE] = q
    BY <1>6, <1>8 DEF SlotRecords
  <2>2. [[U.slots EXCEPT ![k] = r] EXCEPT ![k].yield = FALSE] = [U.slots EXCEPT ![k] = q]
    BY <1>3, <1>10, <2>1, Zenon
  <2> QED BY <1>8, <1>11, <2>2, Zenon
<1>13. /\ A.slots \in [Slots -> SlotRecords] /\ A.slots[k] = r /\ \A i \in Slots : i # k => A.slots[i] = U.slots[i]
       /\ C.slots \in [Slots -> SlotRecords] /\ C.slots[k] = q /\ \A i \in Slots : i # k => C.slots[i] = U.slots[i]
  BY <1>3, <1>9, <1>10, <1>11, <1>12
<1>14. A \in Worlds /\ C \in Worlds
  BY <1>10, <1>11, <1>12, <1>13 DEF Worlds
<1>15. Agree(A, {}) /\ Agree(C, {})
  <2>1. \A i \in Slots : A.slots[i].state = U.slots[i].state /\ A.slots[i].gen = U.slots[i].gen
    BY <1>2, <1>6, <1>9, <1>13
  <2>2. \A i \in Slots : C.slots[i].state = U.slots[i].state /\ C.slots[i].gen = U.slots[i].gen
    BY <1>2, <1>6, <1>9, <1>13
  <2>3. Agree(A, {})
    BY <1>4, <1>11, <1>14, <2>1, AgreeData, ZenonT(30)
  <2>4. Agree(C, {})
    BY <1>4, <1>12, <1>14, <2>2, AgreeData, ZenonT(30)
  <2> QED BY <2>3, <2>4
<1>16. PICK n, V : n = Found(C, k) /\ V = FindReady(C, k)
  BY Zenon
<1>17. /\ V.slots = C.slots
       /\ n = NoSlot => Agree(V, {})
       /\ n # NoSlot => n \in Slots /\ n # k /\ C.slots[n].state = "Ready" /\ Agree(V, {n})
  BY <1>3, <1>15, <1>16, FindReadyOK
<1>18. IF e >= Limit THEN ToLoop(SetSlotState(A, k, "Ready"))
       ELSE IF n # NoSlot THEN SwitchTo(SetSlotState(V, k, "Ready"), n, e)
       ELSE Stay(SetSlotState(V, k, "Running"), cpu.mode, e)
  <2>1. A.slots[k].state = "Running" /\ A.slots[k].state # "Sleeping"
    BY <1>9, <1>13
  <2> QED BY <1>2, <1>8, <1>16, <2>1, ZenonT(30) DEF TimerPreempts
<1>19. "Ready" \in SlotStates /\ "Ready" # "Empty" /\ "Running" \in SlotStates /\ "Running" # "Empty" /\ {} \ {k} = {}
  BY DEF SlotStates
<1>20. ASSUME NEW T, NEW t \in SlotRecords, T = [[U.slots EXCEPT ![k] = t] EXCEPT ![k] = [@ EXCEPT !.state = "Ready"]],
              t.frame = f, t.space = p.space, t.started
       PROVE  AllParked(T, waiters') /\ AllStarted(T) /\ \A i \in Slots : i # k => T[i] = U.slots[i]
  <2>1. T[k] = [t EXCEPT !.state = "Ready"] /\ \A i \in Slots : i # k => T[i] = U.slots[i]
    BY <1>3, <1>10, <1>20
  <2>2. T[k].state = "Ready" /\ T[k].frame = f /\ T[k].space = p.space /\ T[k].started
    BY <1>20, <2>1 DEF SlotRecords
  <2>3. Parked(k, T[k], waiters)
    BY <1>7, <2>2 DEF Parked
  <2>4. AllParked(T, waiters)
    BY <1>3, <1>4, <2>1, <2>3, TickedParked DEF AllParked
  <2>5. AllStarted(T)
    <3>1. ASSUME NEW i \in Slots, i # k PROVE T[i].state # "Empty" => T[i].started
      BY <1>3, <1>4, <2>1, <3>1 DEF AllStarted, Ticked
    <3> QED BY <2>2, <3>1, Zenon DEF AllStarted
  <2> QED BY <1>1, <2>1, <2>4, <2>5
<1>21. waiters' \subseteq Threads /\ cpu_count' = 1
  BY <1>1, <1>3
<1>22. CASE e >= Limit
  <2>1. PICK Y : Y = SetSlotState(A, k, "Ready")
    BY Zenon
  <2>2. Agree(Y, {}) /\ Y.slots = [A.slots EXCEPT ![k] = [@ EXCEPT !.state = "Ready"]]
    <3>1. k \in Slots /\ A.slots[k].state # "Empty" /\ Agree(A, {})
      BY <1>3, <1>9, <1>13, <1>15
    <3>2. /\ Agree(SetSlotState(A, k, "Ready"), {} \ {k})
          /\ SetSlotState(A, k, "Ready").slots = Moved(A.slots, k, "Ready")
      BY <1>19, <3>1, StateMoves, Zenon
    <3> QED BY <1>19, <2>1, <3>2, ZenonT(30) DEF Moved
  <2>3. AllParked(Y.slots, waiters')
    BY <1>9, <1>11, <1>20, <2>2, Zenon
  <2> QED BY <1>18, <1>21, <1>22, <2>1, <2>2, <2>3, LoopKeeps
<1>23. CASE ~(e >= Limit) /\ n # NoSlot
  <2>1. PICK Y : Y = SetSlotState(V, k, "Ready")
    BY Zenon
  <2>2. Agree(Y, {n} \ {k}) /\ Y.slots = [C.slots EXCEPT ![k] = [@ EXCEPT !.state = "Ready"]]
    <3>1. k \in Slots /\ V.slots[k].state # "Empty" /\ Agree(V, {n}) /\ V.slots = C.slots
      BY <1>3, <1>9, <1>13, <1>17, <1>23
    <3>2. /\ Agree(SetSlotState(V, k, "Ready"), {n} \ {k})
          /\ SetSlotState(V, k, "Ready").slots = Moved(V.slots, k, "Ready")
      BY <1>19, <3>1, StateMoves, Zenon
    <3> QED BY <2>1, <3>1, <3>2, ZenonT(30) DEF Moved
  <2>3. AllParked(Y.slots, waiters') /\ AllStarted(Y.slots) /\ \A i \in Slots : i # k => Y.slots[i] = U.slots[i]
    BY <1>9, <1>12, <1>20, <2>2, ZenonT(30)
  <2>4. n \in Slots /\ Y.slots[n].state = "Ready" /\ {n} \ {k} \subseteq {n}
    BY <1>13, <1>17, <1>23, <2>3
  <2>5. SwitchTo(Y, n, e)
    BY <1>18, <1>23, <2>1
  <2> QED BY <1>5, <1>21, <2>2, <2>3, <2>4, <2>5, SwitchKeeps, ZenonT(30)
<1>24. CASE ~(e >= Limit) /\ n = NoSlot
  <2>1. PICK Y, c : Y = SetSlotState(V, k, "Running") /\ c = [cpu EXCEPT !.mode = cpu.mode, !.elapsed = e]
    BY Zenon
  <2>2. Agree(Y, {}) /\ Y.slots = [C.slots EXCEPT ![k] = [@ EXCEPT !.state = "Running"]]
    BY <1>3, <1>9, <1>13, <1>17, <1>19, <1>24, <2>1, StateSet
  <2>3. PICK t : t = [q EXCEPT !.state = "Running"]
    BY Zenon
  <2>4. t.state = "Running" /\ t.frame = f /\ t.space = p.space /\ t.started
    BY <1>9, <2>3 DEF SlotRecords
  <2>5. Y.slots[k] = t /\ \A i \in Slots : i # k => Y.slots[i] = U.slots[i]
    BY <1>3, <1>13, <2>2, <2>3
  <2>6. c \in CpuRecords /\ c.mode = cpu.mode /\ c.mode # "loop" /\ c.current = cur
    BY <1>1, <1>3, <1>5, <2>1, ZenonT(30) DEF CpuRecords, cur
  <2>7. Current(c, t, waiters)
    BY <1>1, <1>3, <1>6, <1>7, <2>4, <2>6 DEF Current
  <2>8. slots' = Y.slots /\ policy' = Y.policy /\ cpu' = c
    BY <1>18, <1>24, <2>1, SMTT(30) DEF Stay
  <2>9. AllStarted(Y.slots) /\ \A i \in Slots : i # k => Parked(i, Y.slots[i], waiters)
    BY <1>3, <1>4, <2>4, <2>5, TickedParked DEF AllStarted, Ticked
  <2> QED BY <1>1, <1>2, <1>3, <2>2, <2>5, <2>6, <2>7, <2>8, <2>9, OwnStep, ZenonT(30)
<1> QED BY <1>22, <1>23, <1>24

-------------------------------------------------------------------------------
\* While a slot is Empty, the policy has room for another thread.
LEMMA RoomForOne ==
  ASSUME NEW W, Agree(W, {}), NEW i \in Slots, W.slots[i].state = "Empty"
  PROVE  Cardinality(Registered(W.policy)) < NSlots
<1>1. PICK R, T : R = Registered(W.policy) /\ T = Slots \ {i}
  BY Zenon
<1>2. \A t \in R : t \in Threads /\ t[1] \in T /\ t = <<t[1], W.slots[t[1]].gen>>
  <2>1. \A t \in R : t \in Threads /\ Owned(W.slots, t)
    BY <1>1 DEF Agree, Registered
  <2> QED BY <1>1, <2>1, Ids DEF Owned
<1>3. PICK f : f = [t \in R |-> t[1]]
  BY Zenon
<1>4. f \in Injection(R, T)
  <2>1. \A t \in R : t[1] \in T
    BY <1>2
  <2>2. f \in [R -> T]
    BY <1>3, <2>1
  <2>3. \A t, u \in R : t[1] = u[1] => t = u
    BY <1>2
  <2>4. \A t, u \in R : f[t] = f[u] => t = u
    BY <1>3, <2>3
  <2>5. IsInjective(f)
    BY <2>2, <2>4, Zenon DEF IsInjective
  <2> QED BY <2>2, <2>5 DEF Injection
<1>5. IsFiniteSet(Slots) /\ Cardinality(Slots) = NThreads
  BY Numbers, ThreadCapacities, FS_Interval DEF Slots
<1>6. IsFiniteSet(T) /\ Cardinality(T) = NThreads - 1
  BY <1>1, <1>5, FS_RemoveElement
<1>7. IsFiniteSet(R) /\ Cardinality(R) <= Cardinality(T)
  BY <1>4, <1>6, FS_Injection
<1>8. Cardinality(R) \in Nat
  BY <1>7, FS_CardinalityType
<1> QED BY <1>1, <1>6, <1>7, <1>8, Numbers, ThreadCapacities, PolicyCapacities

\* create_for_process() enters a thread into both layers.
LEMMA Entering ==
  ASSUME NEW W, Agree(W, {}), NEW i \in Slots, W.slots[i].state = "Empty", NEW t \in Threads,
         t = <<i, W.slots[i].gen + 1>>, NEW r \in SlotRecords, r.state = "Ready", r.gen = t[2],
         NEW V, V = [slots |-> [W.slots EXCEPT ![i] = r], policy |-> RegisterThread(W.policy, t, 0, Boots, 0)]
  PROVE  Agree(V, {})
<1>1. PICK S, P, T, Q : /\ S = W.slots /\ P = W.policy /\ T = [S EXCEPT ![i] = r]
                        /\ Q = RegisterThread(P, t, 0, Boots, 0)
  BY Zenon
<1>2. /\ S \in [Slots -> SlotRecords] /\ P.stat \in [Threads -> StatRecords]
      /\ Tables(P) /\ Affine(P, Boots)
  BY <1>1, SMTT(30) DEF Agree, Worlds, PolicyRecords
<1>3. t[1] = i /\ t[2] = S[i].gen + 1 /\ t[2] \in 1 .. MaxGen
  BY <1>1, Ids, SMTT(30)
<1>4. ~P.stat[t].used
  BY <1>1, <1>3, SMTT(30) DEF Agree, Owned
<1>5. Tables(Q) /\ Affine(Q, Boots)
  <2>1. Boots \in SUBSET AllCpus /\ Boots \in SUBSET Boots /\ Boots # {} /\ 0 \in Priorities
    BY Numbers, ThreadCapacities, SMTT(30) DEF Boots
  <2>2. Cardinality(Registered(P)) < NSlots
    BY <1>1, RoomForOne
  <2> QED BY <1>1, <1>2, <1>4, <2>1, <2>2, RegisterOK, SMTT(30)
<1>6. PICK x : /\ x = [used |-> TRUE, state |-> "Ready", priority |-> 0,
                       affinity |-> Boots, home |-> ChooseHome(P, Boots, 0), last |-> NCpus]
               /\ Q.stat = [P.stat EXCEPT ![t] = x]
  BY <1>1, ZenonT(30) DEF RegisterThread
<1>7. x.used /\ x.state = "Ready"
  BY <1>6, SMTT(30)
<1>8. Q.stat[t] = x /\ \A u \in Threads : u # t => Q.stat[u] = P.stat[u]
  BY <1>2, <1>6, SMTT(30)
<1>9. T \in [Slots -> SlotRecords] /\ T[i] = r /\ \A j \in Slots : j # i => T[j] = S[j]
  BY <1>1, <1>2, SMTT(30)
<1>10. V \in Worlds /\ V.slots = T /\ V.policy = Q
  BY <1>1, <1>5, <1>9 DEF Worlds, Tables
<1>11. ASSUME NEW u \in Threads PROVE Q.stat[u].used <=> Owned(T, u)
  <2>1. CASE u = t
    BY <1>3, <1>7, <1>8, <1>9, <2>1, SMTT(30) DEF Owned
  <2>2. CASE u # t /\ u[1] = i
    <3>1. ~Owned(S, u)
      BY <1>1, <2>2, SMTT(30) DEF Owned
    <3>2. ~Q.stat[u].used
      BY <1>1, <1>8, <2>2, <3>1, SMTT(30) DEF Agree
    <3>3. u[2] # t[2]
      BY <1>3, <2>2, Ids, SMTT(30)
    <3> QED BY <1>9, <2>2, <3>2, <3>3, SMTT(30) DEF Owned
  <2>3. CASE u # t /\ u[1] # i
    <3>1. Owned(T, u) <=> Owned(S, u)
      BY <1>9, <2>3, Ids, SMTT(30) DEF Owned
    <3> QED BY <1>1, <1>8, <2>3, <3>1, SMTT(30) DEF Agree
  <2> QED BY <2>1, <2>2, <2>3, ZenonT(30)
<1>12. ASSUME NEW j \in Slots, T[j].state # "Empty"
       PROVE  T[j].gen # 0 /\ Q.stat[<<j, T[j].gen>>].state = PolicyState(T[j].state)
  <2>1. CASE j = i
    <3>1. t = <<j, T[j].gen>> /\ T[j].gen # 0 /\ T[j].state = "Ready"
      BY <1>1, <1>3, <1>9, <2>1, SMTT(30)
    <3> QED BY <1>7, <1>8, <3>1, SMTT(30) DEF PolicyState
  <2>2. CASE j # i
    <3>1. T[j] = S[j]
      BY <1>9, <2>2
    <3>2. PICK u \in Threads : u = <<j, S[j].gen>>
      BY <1>1, <1>12, <3>1, Known, ZenonT(30)
    <3>3. u # t
      BY <2>2, <3>2
    <3> QED BY <1>1, <1>8, <1>12, <3>1, <3>2, <3>3, SMTT(30) DEF Agree
  <2> QED BY <2>1, <2>2
<1> QED BY <1>5, <1>10, <1>11, <1>12, Zenon DEF Agree

\* create_for_process()
LEMMA CreateKeeps ==
  ASSUME ThreadInv, NEW process \in BOOLEAN, Create(process)
  PROVE  ThreadInv'
<1>1. PICK W, D : W = ReapTerminated(World) /\ D = {i \in Slots : W.slots[i].state = "Empty"}
  BY Zenon
<1>2. PICK i, S : i = Min(D) /\ S = W.slots
  BY Zenon
<1>3. PICK t, running : t = <<i, S[i].gen + 1>> /\ running = (cpu.mode # "loop")
  BY Zenon
<1>4. PICK r, V, c :
        /\ r = [EmptySlot(t[2]) EXCEPT !.state = "Ready", !.process = process, !.started = running,
                                       !.frame = IF running THEN "boot" ELSE "none"]
        /\ V = [slots |-> [S EXCEPT ![i] = r], policy |-> RegisterThread(W.policy, t, 0, Boots, 0)]
        /\ c = IF cpu.mode = "syscall" THEN [cpu EXCEPT !.mode = "return"] ELSE cpu
  BY Zenon
<1>5. /\ Agree(World, {}) /\ World.slots = slots /\ cpu \in CpuRecords /\ cpu_count = 1 /\ OnlineCpus = Boots
      /\ Fit(slots, cpu, waiters)
  BY DEF ThreadInv, World, Fit, OnlineCpus, Boots
<1>6. /\ cpu.mode \in {"loop", "syscall"} /\ D # {} /\ t \in Threads /\ slots' = [S EXCEPT ![i] = r]
      /\ policy' = RegisterThread(W.policy, t, 0, Boots, 0) /\ cpu' = c /\ UNCHANGED <<cpu_count, waiters>>
  BY <1>1, <1>2, <1>3, <1>4, <1>5, Zenon DEF Create
<1>7. slots' = V.slots /\ policy' = V.policy /\ V.slots = [S EXCEPT ![i] = r]
  BY <1>4, <1>6, SMTT(30)
<1>8. Agree(W, {}) /\ S = ReapedSlots(slots) /\ S \in [Slots -> SlotRecords]
  <2>1. PICK Y : Y = World
    BY ZenonT(30)
  <2>2. Agree(W, {}) /\ W.slots = ReapedSlots(slots)
    BY <1>1, <1>5, <2>1, ReapOK, SMTT(30)
  <2> QED BY <1>2, <2>2 DEF Agree, Worlds
<1>9. i \in Slots /\ S[i].state = "Empty"
  <2>1. D \in SUBSET Nat
    BY <1>1, Numbers, Zenon
  <2>2. i \in D
    BY <1>2, <1>6, <2>1, MinOK
  <2> QED BY <1>1, <1>2, <2>2
<1>10. t[2] \in 1 .. MaxGen /\ running \in BOOLEAN
  BY <1>3, <1>6, Ids
<1>11. /\ r \in SlotRecords /\ r.state = "Ready" /\ r.gen = t[2] /\ r.started = running
       /\ r.frame = IF running THEN "boot" ELSE "none"
  <2>1. PICK f \in Frames : f = IF running THEN "boot" ELSE "none"
    BY SlotValues
  <2>2. EmptySlot(t[2]) \in SlotRecords /\ EmptySlot(t[2]).gen = t[2]
    BY <1>10, SlotValues DEF EmptySlot, SlotRecords
  <2>3. r = [EmptySlot(t[2]) EXCEPT !.state = "Ready", !.process = process, !.started = running, !.frame = f]
    BY <1>4, <2>1, Zenon
  <2> QED BY <1>10, <2>1, <2>2, <2>3, SlotValues, Zenon DEF SlotRecords
<1>12. Agree(V, {})
  BY <1>2, <1>3, <1>4, <1>6, <1>8, <1>9, <1>11, Entering, ZenonT(30)
<1>13. V.slots[i] = r /\ \A j \in Slots : j # i => V.slots[j] = S[j]
  BY <1>7, <1>8, <1>9
<1>14. Parked(i, r, waiters)
  BY <1>11 DEF Parked
<1>15. ASSUME NEW j \in Slots, Parked(j, slots[j], waiters)
       PROVE  Parked(j, V.slots[j], waiters)
  <2>1. S[j] = IF slots[j].state = "Terminated" THEN EmptySlot(slots[j].gen) ELSE slots[j]
    BY <1>8 DEF ReapedSlots
  <2>2. Parked(j, EmptySlot(slots[j].gen), waiters)
    BY DEF Parked, EmptySlot
  <2> QED BY <1>13, <1>14, <1>15, <2>1, <2>2
<1>16. CASE cpu.mode = "loop"
  <2>1. c = cpu /\ \A j \in Slots : Parked(j, slots[j], waiters)
    BY <1>4, <1>5, <1>16, Numbers, SMTT(30) DEF Fit
  <2>2. Fit(V.slots, c, waiters)
    BY <1>5, <1>15, <1>16, <2>1 DEF Fit
  <2> QED BY <1>5, <1>6, <1>7, <1>12, <2>2, InvStep, Zenon
<1>17. CASE cpu.mode = "syscall"
  <2>1. c = [cpu EXCEPT !.mode = "return"] /\ running
    BY <1>3, <1>4, <1>17, Zenon
  <2>2. c \in CpuRecords /\ c.mode = "return" /\ c.mode # "loop" /\ c.current = cur
    BY <1>5, <2>1 DEF CpuRecords, Modes, cur
  <2>3. /\ cur \in Slots /\ Current(cpu, slots[cur], waiters) /\ AllStarted(slots) /\ waiters \subseteq Threads
        /\ \A j \in Slots : j # cur => Parked(j, slots[j], waiters)
    BY <1>17, WhileExecuting
  <2>4. slots[cur].state = "Running" /\ slots[cur].space
    BY <1>17, <2>3 DEF Current, Executing
  <2>5. S[cur] = slots[cur] /\ cur # i
    BY <1>8, <1>9, <2>3, <2>4, SMTT(30) DEF ReapedSlots
  <2>6. V.slots[cur] = slots[cur]
    BY <1>13, <2>3, <2>5, SMTT(30)
  <2>7. Current(c, V.slots[cur], waiters)
    BY <1>17, <2>2, <2>3, <2>4, <2>6 DEF Current, Executing
  <2>8. AllStarted(V.slots)
    <3>1. \A j \in Slots : S[j].state # "Empty" => S[j].started
      BY <1>8, <2>3 DEF ReapedSlots, AllStarted, EmptySlot
    <3> QED BY <1>11, <1>13, <2>1, <3>1, ZenonT(30) DEF AllStarted
  <2>9. \A j \in Slots : j # cur => Parked(j, V.slots[j], waiters)
    BY <1>15, <2>3
  <2> QED BY <1>6, <1>7, <1>12, <1>17, <2>2, <2>3, <2>7, <2>8, <2>9, OwnStep, ZenonT(30)
<1> QED BY <1>6, <1>16, <1>17

\* What the pre-dispatch hook leaves: the blocked threads in Done are Ready, and every
\* other blocked thread still has its waiter.
LEMMA PreDispatchOK ==
  ASSUME ThreadInv, cpu.mode = "loop", NEW Done \in SUBSET Awaited,
         NEW W, W = PreDispatch(Done), NEW ws, ws = Awaited \ Done
  PROVE  Agree(W, {}) /\ AllParked(W.slots, ws) /\ ws \subseteq Threads
<1>1. PICK Y, S : Y = World /\ S = slots
  BY ZenonT(30)
<1>2. /\ Agree(Y, {}) /\ Y.slots = S /\ S \in [Slots -> SlotRecords] /\ waiters \subseteq Threads
      /\ \A i \in Slots : Parked(i, S[i], waiters)
  BY <1>1, Numbers DEF ThreadInv, Fit, World, Agree, Worlds
<1>3. PICK I : I = {u[1] : u \in {v \in Done : S[v[1]].frame = "user"}}
  BY Zenon
<1>4. W = SetSlotStates(Y, I, "Ready")
  BY <1>1, <1>3 DEF PreDispatch
<1>5. Awaited = {u \in waiters : <<u[1], S[u[1]].gen>> = u /\ S[u[1]].state = "Blocked"}
  BY <1>1, <1>2 DEF Awaited, Id
<1>6. \A u \in Awaited : u \in Threads /\ u[1] \in Slots /\ S[u[1]].state = "Blocked" /\ u = <<u[1], S[u[1]].gen>>
  BY <1>2, <1>5, Ids
<1>7. I \in SUBSET Slots /\ \A i \in I : S[i].state = "Blocked" /\ S[i].frame = "user"
  BY <1>3, <1>6
<1>8. Agree(W, {} \ I) /\ W.slots = SlotsSet(S, I, "Ready")
  <2>1. "Ready" \in SlotStates /\ "Ready" # "Empty"
    BY DEF SlotStates
  <2>2. \A i \in I : Y.slots[i].state # "Empty"
    BY <1>2, <1>7
  <2> QED BY <1>2, <1>4, <1>7, <2>1, <2>2, StatesSet
<1>9. {} \ I = {}
  OBVIOUS
<1>10. ASSUME NEW i \in Slots PROVE Parked(i, W.slots[i], ws)
  <2>1. W.slots[i] = IF i \in I THEN [S[i] EXCEPT !.state = "Ready"] ELSE S[i]
    BY <1>8 DEF SlotsSet
  <2>2. S[i] \in SlotRecords /\ Parked(i, S[i], waiters)
    BY <1>2
  <2>3. CASE i \in I
    <3>1. PICK r : r = [S[i] EXCEPT !.state = "Ready"]
      BY Zenon
    <3>2. r.state = "Ready" /\ r.frame = S[i].frame /\ r.started = S[i].started /\ r.space = S[i].space
      BY <2>2, <3>1 DEF SlotRecords
    <3>3. S[i].state = "Blocked"
      BY <1>7, <2>3
    <3>4. Parked(i, r, ws)
      BY <2>2, <3>2, <3>3 DEF Parked
    <3> QED BY <2>1, <2>3, <3>1, <3>4
  <2>4. CASE i \notin I
    <3>1. ASSUME S[i].state = "Blocked" PROVE <<i, S[i].gen>> \in ws
      <4>1. PICK u : u = <<i, S[i].gen>>
        BY Zenon
      <4>2. u \in waiters /\ u[1] = i /\ S[i].frame = "user"
        BY <2>2, <3>1, <4>1 DEF Parked
      <4>3. u \in Awaited
        BY <1>5, <3>1, <4>1, <4>2
      <4>4. u \notin Done
        BY <1>3, <2>4, <4>2
      <4> QED BY <4>1, <4>3, <4>4
    <3>2. Parked(i, S[i], ws)
      BY <2>2, <3>1 DEF Parked
    <3> QED BY <2>1, <2>4, <3>2
  <2> QED BY <2>3, <2>4
<1>11. ws \subseteq Threads
  BY <1>6
<1> QED BY <1>8, <1>9, <1>10, <1>11 DEF AllParked

\* run_preemptive_for(): threads that were never started get their first frame.
LEMMA RunKeeps ==
  ASSUME ThreadInv, NEW Done \in SUBSET Awaited, RunPreemptiveFor(Done)
  PROVE  ThreadInv'
<1>1. cpu.mode = "loop" /\ cpu_count' = cpu_count /\ cpu_count = 1 /\ OnlineCpus = Boots
  <2>1. cpu.mode = "loop" /\ cpu_count' = cpu_count
    BY Zenon DEF RunPreemptiveFor
  <2>2. cpu_count = 1
    BY Zenon DEF ThreadInv
  <2> QED BY <2>1, <2>2 DEF OnlineCpus, Boots
<1>2. PICK Y, ws : Y = PreDispatch(Done) /\ ws = Awaited \ Done
  BY Zenon
<1>3. Agree(Y, {}) /\ AllParked(Y.slots, ws) /\ ws \subseteq Threads
  BY <1>1, <1>2, PreDispatchOK
<1>4. PICK W, S : W = ReapTerminated(Y) /\ S = W.slots
  BY Zenon
<1>5. Agree(W, {}) /\ S = ReapedSlots(Y.slots) /\ S \in [Slots -> SlotRecords]
  BY <1>3, <1>4, ReapOK, Zenon DEF Agree, Worlds
<1>6. AllParked(S, ws)
  <2>1. ASSUME NEW i \in Slots PROVE Parked(i, S[i], ws)
    <3>1. S[i] = IF Y.slots[i].state = "Terminated" THEN EmptySlot(Y.slots[i].gen) ELSE Y.slots[i]
      BY <1>5 DEF ReapedSlots
    <3>2. Parked(i, EmptySlot(Y.slots[i].gen), ws)
      BY DEF Parked, EmptySlot
    <3> QED BY <1>3, <3>1, <3>2 DEF AllParked
  <2> QED BY <2>1 DEF AllParked
<1>7. PICK n, V : n = Found(W, NoSlot) /\ V = FindReady(W, NoSlot)
  BY Zenon
<1>8. /\ V.slots = S
      /\ n = NoSlot => Agree(V, {})
      /\ n # NoSlot => n \in Slots /\ S[n].state = "Ready" /\ Agree(V, {n})
  <2>1. PICK p \in Slots \cup {NoSlot} : p = NoSlot
    BY Zenon
  <2>2. OnlineCpus = Boots /\ Agree(W, {}) /\ V = FindReady(W, p) /\ n = Found(W, p)
    BY <1>1, <1>5, <1>7, <2>1, Zenon
  <2>3. /\ V.slots = W.slots
        /\ n = NoSlot => Agree(V, {})
        /\ n # NoSlot => n \in Slots /\ n # p /\ W.slots[n].state = "Ready" /\ Agree(V, {n})
    BY <2>2, FindReadyOK, Zenon
  <2> QED BY <1>4, <2>3, Zenon
<1>9. PICK F, T : /\ F = {i \in Slots : S[i].state = "Ready" /\ ~S[i].started}
                  /\ T = [i \in Slots |-> IF i \in F THEN [S[i] EXCEPT !.frame = "boot", !.started = TRUE] ELSE S[i]]
  BY Zenon
<1>10. PICK X : X = [V EXCEPT !.slots = T]
  BY Zenon
<1>11. waiters' = ws /\ IF n = NoSlot THEN ToLoop(V) ELSE SwitchTo(X, n, 0)
  BY <1>2, <1>4, <1>7, <1>8, <1>9, <1>10, ZenonT(30) DEF RunPreemptiveFor
<1>12. CASE n = NoSlot
  BY <1>1, <1>3, <1>6, <1>8, <1>11, <1>12, LoopKeeps, SMTT(30)
<1>13. CASE n # NoSlot
  <2>1. ASSUME NEW i \in Slots
        PROVE  /\ T[i] \in SlotRecords /\ T[i].state = S[i].state /\ T[i].gen = S[i].gen
               /\ Parked(i, T[i], ws) /\ (T[i].state # "Empty" => T[i].started)
    <3>1. S[i] \in SlotRecords /\ Parked(i, S[i], ws)
      BY <1>5, <1>6 DEF AllParked
    <3>2. CASE i \in F
      <4>1. PICK r : r = [S[i] EXCEPT !.frame = "boot", !.started = TRUE] /\ T[i] = r /\ S[i].state = "Ready"
        BY <1>9, <3>2, Zenon
      <4>2. r \in SlotRecords /\ r.state = S[i].state /\ r.gen = S[i].gen /\ r.started /\ r.frame = "boot"
        BY <3>1, <4>1, Zenon DEF SlotRecords, Frames
      <4>3. Parked(i, r, ws)
        BY <4>1, <4>2, SMTT(30) DEF Parked
      <4> QED BY <4>1, <4>2, <4>3
    <3>3. CASE i \notin F
      <4>1. T[i] = S[i] /\ ~(S[i].state = "Ready" /\ ~S[i].started)
        BY <1>9, <3>3, Zenon
      <4> QED BY <3>1, <4>1 DEF Parked
    <3> QED BY <3>2, <3>3
  <2>2. T \in [Slots -> SlotRecords]
    <3>1. T = [i \in Slots |-> T[i]]
      BY <1>9, Zenon
    <3> QED BY <2>1, <3>1
  <2>3. X \in Worlds /\ X.slots = T /\ X.policy = V.policy
    <3>1. V \in Worlds
      BY <1>8, <1>13 DEF Agree
    <3> QED BY <1>10, <2>2, <3>1, SMTT(30) DEF Worlds
  <2>4. Agree(X, {n})
    <3>1. \A i \in Slots : X.slots[i].state = V.slots[i].state /\ X.slots[i].gen = V.slots[i].gen
      BY <1>8, <2>1, <2>3, SMTT(30)
    <3> QED BY <1>8, <1>13, <2>3, <3>1, AgreeData, SMTT(30)
  <2>5. AllParked(X.slots, ws) /\ AllStarted(X.slots)
    BY <2>1, <2>3 DEF AllParked, AllStarted
  <2>6. n \in Slots /\ X.slots[n].state = "Ready" /\ 0 \in 0 .. Limit
    <3>1. n \in Slots /\ X.slots[n].state = "Ready"
      BY <1>8, <1>13, <2>1, <2>3, ZenonT(30)
    <3> QED BY <3>1, Numbers
  <2> QED BY <1>1, <1>3, <1>11, <1>13, <2>4, <2>5, <2>6, SwitchKeeps, SMTT(30)
<1> QED BY <1>12, <1>13

-------------------------------------------------------------------------------
\* Before the first thread is created.
LEMMA ThreadInvInit == ThreadInit => ThreadInv
<1> SUFFICES ASSUME ThreadInit PROVE ThreadInv
  OBVIOUS
<1>1. PolicyInv /\ cpu_count = 1 /\ policy.stat = [t \in Threads |-> Unused]
  BY PolicyInvInit DEF ThreadInit, PolicyInit
<1>2. Tables(policy) /\ Affine(policy, Boots)
  <2>1. OnlineCpus = Boots
    BY <1>1 DEF OnlineCpus, Boots
  <2> QED BY <1>1, <2>1, ZenonT(30) DEF PolicyInv
<1>3. slots = [i \in Slots |-> EmptySlot(0)] /\ cpu = Loop /\ waiters = {}
  BY DEF ThreadInit
<1>4. EmptySlot(0) \in SlotRecords /\ EmptySlot(0).state = "Empty"
  BY Numbers DEF EmptySlot, SlotRecords, SlotStates, Frames
<1>5. slots \in [Slots -> SlotRecords] /\ \A i \in Slots : slots[i].state = "Empty"
  BY <1>3, <1>4, SMTT(30)
<1>6. World \in Worlds /\ World.slots = slots /\ World.policy = policy
  BY <1>2, <1>5 DEF World, Worlds, Tables
<1>7. \A t \in Threads : policy.stat[t].used <=> Owned(slots, t)
  BY <1>1, <1>5, Ids DEF Unused, Owned
<1>8. Agree(World, {})
  BY <1>2, <1>5, <1>6, <1>7 DEF Agree
<1>9. cpu \in CpuRecords /\ cpu.mode = "loop" /\ cpu.current = NoSlot
  BY <1>3, Numbers DEF Loop, CpuRecords, Modes
<1>10. \A i \in Slots : Parked(i, slots[i], waiters)
  BY <1>3 DEF Parked, EmptySlot
<1>11. Fit(slots, cpu, waiters)
  BY <1>3, <1>9, <1>10 DEF Fit
<1> QED BY <1>1, <1>8, <1>11 DEF ThreadInv

\* Every step keeps the layers in agreement.
LEMMA ThreadInvNext == ThreadInv /\ [ThreadNext]_tvars => ThreadInv'
<1> SUFFICES ASSUME ThreadInv, [ThreadNext]_tvars PROVE ThreadInv'
  OBVIOUS
<1>1. CASE UNCHANGED tvars
  BY <1>1 DEF tvars, ThreadInv, World
<1>2. CASE \E process \in BOOLEAN : Create(process)
  BY <1>2, CreateKeeps
<1>3. CASE \E Done \in SUBSET Awaited : RunPreemptiveFor(Done)
  BY <1>3, RunKeeps
<1>4. CASE EnterSyscall
  <2>1. "user" \in Executing /\ "syscall" \in {"user", "syscall", "return", "exit", "gone"}
    BY DEF Executing
  <2> QED BY <1>4, <2>1, ModeStep DEF EnterSyscall
<1>5. CASE Exit
  BY <1>5, ExitKeeps
<1>6. CASE ExitCurrent
  BY <1>6, ExitCurrentKeeps
<1>7. CASE EnterUser
  BY <1>7, EnterUserKeeps
<1>8. CASE LoadFails
  <2>1. PICK m \in {"exit", "gone"} : InMode("boot", m) /\ UNCHANGED <<slots, policy, cpu_count, waiters>>
    BY <1>8 DEF LoadFails
  <2>2. "boot" \in Executing
    BY DEF Executing
  <2> QED BY <2>1, <2>2, ModeStep
<1>9. CASE OtherCall
  <2>1. "syscall" \in Executing
    BY DEF Executing
  <2> QED BY <1>9, <2>1, ModeStep DEF OtherCall
<1>10. CASE RequestYield
  BY <1>10, RequestYieldKeeps
<1>11. CASE SocketWait
  BY <1>11, SocketWaitKeeps
<1>12. CASE \E n \in 1 .. MaxSleep : SleepCurrent(n)
  BY <1>12, SleepKeeps
<1>13. CASE \E i \in Slots : TerminateChild(i)
  BY <1>13, TerminateKeeps
<1>14. CASE Cleanup
  BY <1>14, CleanupKeeps
<1>15. CASE SoftwareInterruptSchedule
  BY <1>15, SoftwareInterruptKeeps
<1>16. CASE Timer
  BY <1>16, TimerInKernelKeeps, TimerInHaltKeeps, TimerPreemptsKeeps, SMTT(30) DEF Timer
<1> QED BY <1>1, <1>2, <1>3, <1>4, <1>5, <1>6, <1>7, <1>8, <1>9, <1>10, <1>11, <1>12, <1>13, <1>14, <1>15,
           <1>16, ZenonT(30) DEF ThreadNext, KernelStep

\* The invariant gives what the run checks.
LEMMA InvGivesLayers == ThreadInv => LayersAgree
<1> SUFFICES ASSUME ThreadInv PROVE LayersAgree
  OBVIOUS
<1>1. /\ Agree(World, {}) /\ World.slots = slots /\ World.policy = policy /\ cpu_count = 1 /\ OnlineCpus = Boots
      /\ Fit(slots, cpu, waiters)
  BY SMTT(30) DEF ThreadInv, World, OnlineCpus, Boots
<1>2. /\ slots \in [Slots -> SlotRecords] /\ Tables(policy) /\ Affine(policy, OnlineCpus)
  BY <1>1 DEF Agree, Worlds
<1>3. ThreadTypeOK
  <2>1. SlotStates \subseteq States \cup {"Empty", "Blocked", "Sleeping", "Terminated"}
    BY DEF SlotStates, States
  <2>2. \A i \in Slots : slots[i] \in
         [state : States \cup {"Empty", "Blocked", "Sleeping", "Terminated"}, gen : 0 .. MaxGen,
          process : BOOLEAN, frame : {"none", "boot", "user", "doom", "kernel"}, started : BOOLEAN,
          wake : 0 .. MaxSleep, yield : BOOLEAN, space : BOOLEAN]
    BY <1>2, <2>1 DEF SlotRecords, Frames
  <2>3. cpu \in CpuRecords /\ waiters \subseteq Threads
    BY <1>1 DEF Fit
  <2> QED BY <1>2, <2>2, <2>3 DEF ThreadTypeOK, CpuRecords, Modes
<1>4. QueuesMatchTable
  <2>1. cpu_count \in 1 .. NCpus
    BY <1>1, PolicyCapacities, SMTT(30)
  <2> QED BY <1>2, <2>1, InvGivesTables DEF PolicyInv
<1>5. /\ cpu \in CpuRecords /\ (cpu.mode = "loop" <=> cur = NoSlot)
      /\ \A i \in Slots : i # cur => Parked(i, slots[i], waiters)
      /\ cpu.mode # "loop" => Current(cpu, slots[cur], waiters) /\ AllStarted(slots) /\ cur \in Slots
  BY <1>1, SMTT(30) DEF Fit, AllStarted, cur, CpuRecords
<1>6. ASSUME NEW i \in Slots
      PROVE  /\ slots[i].state \in {"Ready", "Sleeping", "Blocked"} /\ i # cur =>
                  slots[i].frame # "none" \/ (~slots[i].started /\ cpu.mode = "loop")
             /\ slots[i].frame \in {"user", "doom"} => slots[i].space
             /\ slots[i].state = "Blocked" => Id(World, i) \in waiters
             /\ slots[i].state = "Running" => i = cur
  <2>1. Id(World, i) = <<i, slots[i].gen>>
    BY <1>1, SMTT(30) DEF Id
  <2>2. CASE i # cur
    BY <1>5, <2>1, <2>2, SMTT(30) DEF Parked, AllStarted
  <2>3. CASE i = cur
    <3>1. cpu.mode # "loop"
      BY <1>5, <2>3, Numbers
    <3> QED BY <1>5, <2>1, <2>3, <3>1 DEF Current, cur
  <2> QED BY <2>2, <2>3
<1>7. Resumable
  BY <1>6, SMTT(30) DEF Resumable
<1>8. \A t \in Threads : policy.stat[t].used <=> (Id(World, t[1]) = t /\ slots[t[1]].state # "Empty")
  <2>1. \A t \in Threads : Owned(slots, t) <=> (Id(World, t[1]) = t /\ slots[t[1]].state # "Empty")
    BY <1>1, Ids, SMTT(30) DEF Owned, Id
  <2> QED BY <1>1, <2>1 DEF Agree
<1>9. \A i \in Slots : slots[i].state # "Empty" => policy.stat[Id(World, i)].state = PolicyState(slots[i].state)
  BY <1>1 DEF Agree, Id
<1>10. cpu.mode \in {"boot", "user", "doomed", "exit", "gone", "kernel"} => slots[cur].state = "Running"
  BY <1>5 DEF Current, Executing
<1> QED BY <1>3, <1>4, <1>5, <1>6, <1>7, <1>8, <1>9, <1>10 DEF LayersAgree

\* Whatever the timer, the system calls and the kernel loop do, for any number of slots,
\* generations, ticks and sleeps: the policy knows exactly the threads that have a slot,
\* each in the state of its slot, so that find_ready() never cancels a pick; one thread
\* executes; and every other one can be continued, with a Ring 3 frame only while its
\* address space exists and a waiter while it is blocked.
THEOREM LayersStayAgreed == ThreadSpec => []LayersAgree
<1>1. ThreadInv /\ [ThreadNext]_tvars => ThreadInv'
  BY ThreadInvNext
<1> QED BY <1>1, ThreadInvInit, InvGivesLayers, PTL DEF ThreadSpec
===============================================================================
