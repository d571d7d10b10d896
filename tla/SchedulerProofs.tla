--------------------------- MODULE SchedulerProofs ---------------------------
(***************************************************************************)
(* Proofs about the scheduling policy (module Scheduler2): its thread      *)
(* table and its run queues agree whatever calls are made, and pick_next   *)
(* takes the best thread there is.                                         *)
(***************************************************************************)
EXTENDS Scheduler2, FiniteSetTheorems, WellFoundedInduction, TLAPS

-------------------------------------------------------------------------------
\* A set of naturals that is not empty has a least element.
LEMMA LeastNatural ==
  ASSUME NEW S \in SUBSET Nat, S # {}
  PROVE  \E x \in S : \A y \in S : x <= y
<1> DEFINE Less == {ss \in Nat \X Nat : ss[1] < ss[2]}
<1>1. IsWellFoundedOn(Less, Nat)
  BY NatLessThanWellFounded DEF OpToRel
<1>2. \A a, b \in Nat : a < b => <<a, b>> \in Less
  OBVIOUS
<1>3. PICK x \in S : \A y \in S : ~(<<y, x>> \in Less)
  <2> HIDE DEF Less
  <2> QED BY <1>1, WFMin, Zenon
<1>4. ASSUME NEW y \in S PROVE x <= y
  <2>1. x \in Nat /\ y \in Nat /\ ~(y < x)
    <3> HIDE DEF Less
    <3> QED BY <1>2, <1>3, <1>4, Zenon
  <2> QED BY <2>1
<1> QED BY <1>4, Zenon

\* Entry x goes before entry y, or is y, when f, g and h are compared in turn.
GoesBefore(f, g, h, x, y) ==
  \/ f[x] < f[y]
  \/ f[x] = f[y] /\ (g[x] < g[y] \/ (g[x] = g[y] /\ h[x] <= h[y]))

\* The loops that look for the best entry compare two or three things in turn, and
\* there is an entry that goes before all others.
LEMMA LexicalLeast ==
  ASSUME NEW E, E # {}, NEW f \in [E -> Nat], NEW g \in [E -> Nat], NEW h \in [E -> Nat]
  PROVE  \E x \in E : \A y \in E : GoesBefore(f, g, h, x, y)
<1>1. PICK x1 \in E : \A y \in E : f[x1] <= f[y]
  <2> DEFINE S == {f[y] : y \in E}
  <2>1. S \in SUBSET Nat /\ S # {}
    OBVIOUS
  <2>2. \E m \in S : \A n \in S : m <= n
    <3> HIDE DEF S
    <3> QED BY <2>1, LeastNatural
  <2> QED BY <2>2
<1> DEFINE E2 == {y \in E : f[y] = f[x1]}
<1>2. PICK x2 \in E2 : \A y \in E2 : g[x2] <= g[y]
  <2> DEFINE S == {g[y] : y \in E2}
  <2>1. S \in SUBSET Nat /\ S # {}
    OBVIOUS
  <2>2. \E m \in S : \A n \in S : m <= n
    <3> HIDE DEF S
    <3> QED BY <2>1, LeastNatural
  <2> QED BY <2>2
<1> DEFINE E3 == {y \in E2 : g[y] = g[x2]}
<1>3. PICK x3 \in E3 : \A y \in E3 : h[x3] <= h[y]
  <2> DEFINE S == {h[y] : y \in E3}
  <2>1. S \in SUBSET Nat /\ S # {}
    OBVIOUS
  <2>2. \E m \in S : \A n \in S : m <= n
    <3> HIDE DEF S
    <3> QED BY <2>1, LeastNatural
  <2> QED BY <2>2
<1>4. x3 \in E /\ f[x3] = f[x1] /\ g[x3] = g[x2]
  BY <1>3
<1>5. ASSUME NEW y \in E
      PROVE  GoesBefore(f, g, h, x3, y)
  <2>1. CASE f[y] # f[x1]
    BY <1>1, <1>4, <1>5, <2>1 DEF GoesBefore
  <2>2. CASE f[y] = f[x1] /\ g[y] # g[x2]
    BY <1>2, <1>4, <1>5, <2>2 DEF GoesBefore
  <2>3. CASE f[y] = f[x1] /\ g[y] = g[x2]
    BY <1>3, <1>4, <1>5, <2>3 DEF GoesBefore
  <2> QED BY <2>1, <2>2, <2>3
<1> QED BY <1>4, <1>5

-------------------------------------------------------------------------------
\* A queue: no thread twice, and the cursor points into it.
QueueRecords == [ids : Seq(Threads), cursor : Nat]
QueueOK(q) ==
  /\ q \in QueueRecords /\ IsInjective(q.ids)
  /\ q.cursor < Len(q.ids) \/ q = Empty

\* A queue that was empty is one.
LEMMA EmptyOK == QueueOK(Empty) /\ \A t \in Threads : ~QueueContains(Empty, t)
BY DEF QueueOK, QueueRecords, Empty, IsInjective, QueueContains

\* queue_add() puts a thread that is not there behind the others.
LEMMA QueueAddOK ==
  ASSUME NEW q, QueueOK(q), NEW t \in Threads, ~QueueContains(q, t)
  PROVE  /\ QueueOK(QueueAdd(q, t))
         /\ \A u \in Threads : QueueContains(QueueAdd(q, t), u) <=> (u = t \/ QueueContains(q, u))
         /\ QueueAdd(q, t).ids # <<>>
<1> DEFINE r == QueueAdd(q, t)
<1>1. /\ q.ids \in Seq(Threads) /\ q.cursor \in Nat
      /\ \A a, b \in 1 .. Len(q.ids) : q.ids[a] = q.ids[b] => a = b
      /\ q.cursor < Len(q.ids) \/ q.ids = <<>>
      /\ \A i \in 1 .. Len(q.ids) : q.ids[i] # t
  BY DEF QueueOK, QueueRecords, IsInjective, QueueContains, Empty
<1>2. r = [ids |-> Append(q.ids, t), cursor |-> IF q.ids = <<>> THEN 0 ELSE q.cursor]
  BY DEF QueueAdd
<1>3. /\ r.ids \in Seq(Threads) /\ Len(r.ids) = Len(q.ids) + 1
      /\ \A i \in 1 .. Len(q.ids) : r.ids[i] = q.ids[i]
      /\ r.ids[Len(q.ids) + 1] = t
  BY <1>1, <1>2
<1>4. r \in QueueRecords /\ r.cursor < Len(r.ids)
  BY <1>1, <1>2, <1>3 DEF QueueRecords
<1>5. \A a, b \in 1 .. Len(r.ids) : r.ids[a] = r.ids[b] => a = b
  BY <1>1, <1>3
<1>6. DOMAIN r.ids = 1 .. Len(r.ids)
  BY <1>3
<1>7. ASSUME NEW u \in Threads
      PROVE  QueueContains(r, u) <=> (u = t \/ QueueContains(q, u))
  <2>1. ASSUME NEW i \in 1 .. Len(r.ids), r.ids[i] = u PROVE u = t \/ QueueContains(q, u)
    <3>1. i \in 1 .. Len(q.ids) \/ i = Len(q.ids) + 1
      BY <1>1, <1>3
    <3> QED BY <1>3, <2>1, <3>1 DEF QueueContains
  <2>2. ASSUME NEW i \in 1 .. Len(q.ids), q.ids[i] = u PROVE QueueContains(r, u)
    <3>1. i \in 1 .. Len(r.ids) /\ r.ids[i] = u
      BY <1>1, <1>3, <2>2
    <3> HIDE DEF r
    <3> QED BY <3>1 DEF QueueContains
  <2>3. QueueContains(r, t)
    <3>1. Len(r.ids) \in 1 .. Len(r.ids) /\ r.ids[Len(r.ids)] = t
      BY <1>1, <1>3
    <3> HIDE DEF r
    <3> QED BY <3>1 DEF QueueContains
  <2> HIDE DEF r
  <2> QED BY <2>1, <2>2, <2>3 DEF QueueContains
<1> HIDE DEF r
<1>8. r.ids # <<>>
  BY <1>1, <1>3
<1> QED BY <1>4, <1>5, <1>6, <1>7, <1>8 DEF QueueOK, IsInjective, r

\* Where queue_remove() finds a thread that is there.
LEMMA FoundIndex ==
  ASSUME NEW q, QueueOK(q), NEW t, QueueContains(q, t)
  PROVE  LET k == CHOOSE i \in DOMAIN q.ids : q.ids[i] = t /\ \A j \in 1 .. i - 1 : q.ids[j] # t
         IN  k \in 1 .. Len(q.ids) /\ q.ids[k] = t
<1>1. /\ q.ids \in Seq(Threads) /\ DOMAIN q.ids = 1 .. Len(q.ids)
      /\ \A a, b \in 1 .. Len(q.ids) : q.ids[a] = q.ids[b] => a = b
  BY DEF QueueOK, QueueRecords, IsInjective
<1>2. PICK i \in 1 .. Len(q.ids) : q.ids[i] = t
  BY DEF QueueContains
<1>3. i \in DOMAIN q.ids /\ q.ids[i] = t /\ \A j \in 1 .. i - 1 : q.ids[j] # t
  BY <1>1, <1>2
<1>4. \E x \in DOMAIN q.ids : q.ids[x] = t /\ \A j \in 1 .. x - 1 : q.ids[j] # t
  BY <1>3
<1> QED BY <1>1, <1>4, Zenon

\* queue_remove() takes out the thread and no other one.
LEMMA QueueRemoveOK ==
  ASSUME NEW q, QueueOK(q), NEW t \in Threads, QueueContains(q, t)
  PROVE  /\ QueueOK(QueueRemove(q, t))
         /\ \A u \in Threads : QueueContains(QueueRemove(q, t), u) <=> (u # t /\ QueueContains(q, u))
<1> DEFINE r == QueueRemove(q, t)
           n == Len(q.ids) - 1
<1>1. /\ q.ids \in Seq(Threads) /\ q.cursor \in Nat /\ Len(q.ids) \in Nat
      /\ \A a, b \in 1 .. Len(q.ids) : q.ids[a] = q.ids[b] => a = b
      /\ \A a \in 1 .. Len(q.ids) : q.ids[a] \in Threads
  BY DEF QueueOK, QueueRecords, IsInjective
<1>2. PICK k : k = CHOOSE i \in DOMAIN q.ids : q.ids[i] = t /\ \A j \in 1 .. i - 1 : q.ids[j] # t
  BY Zenon
<1>3. k \in 1 .. Len(q.ids) /\ q.ids[k] = t
  BY <1>2, FoundIndex, ZenonT(30)
<1>4. n \in Nat /\ Len(q.ids) = n + 1 /\ q.cursor < n + 1
  BY <1>1, <1>3 DEF QueueOK, Empty
<1>5. r = [ids |-> [i \in 1 .. n |-> IF i < k THEN q.ids[i] ELSE q.ids[i + 1]],
           cursor |-> IF n = 0 THEN 0 ELSE IF q.cursor >= n THEN q.cursor % n ELSE q.cursor]
  BY <1>2, Zenon DEF QueueRemove
<1> HIDE DEF r, n
<1>6. /\ r.ids \in Seq(Threads) /\ Len(r.ids) = n /\ DOMAIN r.ids = 1 .. n
      /\ \A i \in 1 .. n : r.ids[i] = IF i < k THEN q.ids[i] ELSE q.ids[i + 1]
  <2> DEFINE s == [i \in 1 .. n |-> IF i < k THEN q.ids[i] ELSE q.ids[i + 1]]
  <2>1. r.ids = s
    BY <1>5
  <2>2. \A i \in 1 .. n : s[i] \in Threads /\ s[i] = IF i < k THEN q.ids[i] ELSE q.ids[i + 1]
    BY <1>1, <1>4
  <2>3. s \in [1 .. n -> Threads]
    BY <2>2
  <2> HIDE DEF s
  <2> QED BY <1>4, <2>1, <2>2, <2>3
<1>7. r \in QueueRecords
  BY <1>1, <1>4, <1>5, <1>6 DEF QueueRecords
<1>8. r.cursor < Len(r.ids) \/ r = Empty
  <2>1. CASE n = 0
    BY <1>5, <2>1 DEF Empty
  <2>2. CASE n # 0
    <3>1. r.cursor = IF q.cursor >= n THEN q.cursor % n ELSE q.cursor
      BY <1>5, <2>2
    <3>2. q.cursor % n < n
      BY <1>1, <1>4, <2>2
    <3> QED BY <1>1, <1>4, <1>6, <3>1, <3>2
  <2> QED BY <2>1, <2>2
<1>9. ASSUME NEW a \in 1 .. n, NEW b \in 1 .. n, r.ids[a] = r.ids[b] PROVE a = b
  <2> DEFINE From(i) == IF i < k THEN i ELSE i + 1
  <2>1. From(a) \in 1 .. Len(q.ids) /\ From(b) \in 1 .. Len(q.ids)
    BY <1>3, <1>4
  <2>2. r.ids[a] = q.ids[From(a)] /\ r.ids[b] = q.ids[From(b)]
    BY <1>6
  <2>3. From(a) = From(b)
    <3> HIDE DEF From
    <3> QED BY <1>1, <1>9, <2>1, <2>2, Zenon
  <2> QED BY <1>3, <2>3
<1>10. ASSUME NEW u \in Threads
       PROVE  QueueContains(r, u) <=> (u # t /\ QueueContains(q, u))
  <2>1. ASSUME NEW i \in 1 .. n, r.ids[i] = u PROVE u # t /\ \E j \in 1 .. Len(q.ids) : q.ids[j] = u
    <3>1. CASE i < k
      <4>1. i \in 1 .. Len(q.ids) /\ q.ids[i] = u /\ i # k
        BY <1>3, <1>4, <1>6, <2>1, <3>1
      <4> QED BY <1>1, <1>3, <4>1
    <3>2. CASE ~(i < k)
      <4>1. i + 1 \in 1 .. Len(q.ids) /\ q.ids[i + 1] = u /\ i + 1 # k
        BY <1>3, <1>4, <1>6, <2>1, <3>2
      <4> QED BY <1>1, <1>3, <4>1
    <3> QED BY <3>1, <3>2
  <2>2. ASSUME NEW j \in 1 .. Len(q.ids), q.ids[j] = u, u # t PROVE \E i \in 1 .. n : r.ids[i] = u
    <3>1. CASE j < k
      <4>1. j \in 1 .. n /\ r.ids[j] = u
        BY <1>3, <1>4, <1>6, <2>2, <3>1
      <4> QED BY <4>1
    <3>2. CASE ~(j < k)
      <4>1. j - 1 \in 1 .. n /\ ~(j - 1 < k) /\ j - 1 + 1 = j
        BY <1>3, <1>4, <2>2, <3>2
      <4>2. r.ids[j - 1] = u
        BY <1>6, <2>2, <4>1
      <4> QED BY <4>1, <4>2
    <3> QED BY <3>1, <3>2
  <2> QED BY <1>6, <2>1, <2>2 DEF QueueContains
<1> QED BY <1>6, <1>7, <1>8, <1>9, <1>10 DEF QueueOK, IsInjective, r

-------------------------------------------------------------------------------
\* The table and the queues: a thread stands in the queue of its home and in no other,
\* and there are no more of them than the table has slots.
StatRecords ==
  [used : BOOLEAN, state : States, priority : Priorities \cup {0}, affinity : SUBSET AllCpus,
   home : AllCpus, last : AllCpus \cup {NCpus}]
PolicyRecords == [stat : [Threads -> StatRecords], queue : [AllCpus -> QueueRecords]]
Tables(P) ==
  /\ P \in PolicyRecords
  /\ \A c \in AllCpus : QueueOK(P.queue[c])
  /\ \A c \in AllCpus, t \in Threads :
       QueueContains(P.queue[c], t) <=> (P.stat[t].used /\ P.stat[t].home = c)
  /\ IsFiniteSet(Registered(P)) /\ Cardinality(Registered(P)) <= NSlots
\* The home of a thread is in its affinity, and that among the processors cs.
Affine(P, cs) ==
  \A t \in Threads : P.stat[t].used => P.stat[t].home \in P.stat[t].affinity /\ P.stat[t].affinity \subseteq cs
PolicyInv == cpu_count \in 1 .. NCpus /\ Tables(policy) /\ Affine(policy, OnlineCpus)

\* Two policies with the same threads registered in the same places, and a policy in
\* which the record of one thread was replaced.
SamePlaces(P, Q) ==
  /\ \A c \in AllCpus : QueueOK(Q.queue[c]) /\ Q.queue[c].ids = P.queue[c].ids
  /\ \A t \in Threads : (Q.stat[t].used <=> P.stat[t].used) /\ Q.stat[t].home = P.stat[t].home
Replaced(P, Q, t, r) == Q = [stat |-> [P.stat EXCEPT ![t] = r], queue |-> P.queue]

\* What changes neither who is registered nor where keeps the tables in step.
LEMMA Kept ==
  ASSUME NEW P, NEW Q, Tables(P), Q \in PolicyRecords, SamePlaces(P, Q)
  PROVE  Tables(Q)
<1>1. Registered(Q) = Registered(P)
  BY DEF Registered, SamePlaces
<1> QED BY <1>1 DEF Tables, SamePlaces, QueueContains

\* The record of a thread may be replaced by one with the same home.
LEMMA StatReplaced ==
  ASSUME NEW P, Tables(P), NEW t \in Threads, NEW r \in StatRecords,
         r.used = P.stat[t].used, r.home = P.stat[t].home, NEW Q, Replaced(P, Q, t, r)
  PROVE  Tables(Q)
<1>1. Q.queue = P.queue /\ Q.stat = [P.stat EXCEPT ![t] = r] /\ Q \in PolicyRecords
  BY DEF Tables, PolicyRecords, Replaced
<1>2. \A u \in Threads : (Q.stat[u].used <=> P.stat[u].used) /\ Q.stat[u].home = P.stat[u].home
  BY <1>1 DEF Tables, PolicyRecords
<1>3. SamePlaces(P, Q)
  BY <1>1, <1>2, Zenon DEF Tables, SamePlaces
<1> QED BY <1>1, <1>3, Kept

\* set_state().
LEMMA SetStateOK ==
  ASSUME NEW P, Tables(P), NEW t \in Threads, P.stat[t].used, NEW s \in States
  PROVE  LET r == [P.stat[t] EXCEPT !.state = s] IN
         r \in StatRecords /\ Tables(SetState(P, t, s)) /\ Replaced(P, SetState(P, t, s), t, r)
<1> DEFINE r == [P.stat[t] EXCEPT !.state = s]
<1>1. P.stat[t] \in StatRecords
  BY DEF Tables, PolicyRecords
<1>2. r \in StatRecords /\ r.used = P.stat[t].used /\ r.home = P.stat[t].home
  BY <1>1, Zenon DEF StatRecords
<1>3. Replaced(P, SetState(P, t, s), t, r)
  BY DEF SetState, Tables, PolicyRecords, Replaced
<1> HIDE DEF r
<1>4. Tables(SetState(P, t, s))
  BY <1>2, <1>3, StatReplaced, Zenon
<1> QED BY <1>2, <1>3, <1>4 DEF r

-------------------------------------------------------------------------------
\* A thread's record and one queue change together: the thread enters that queue.
LEMMA Entered ==
  ASSUME NEW P, Tables(P), NEW t \in Threads, ~P.stat[t].used, NEW r \in StatRecords, r.used,
         Cardinality(Registered(P)) < NSlots, NEW Q,
         Q = [stat |-> [P.stat EXCEPT ![t] = r], queue |-> [P.queue EXCEPT ![r.home] = QueueAdd(@, t)]]
  PROVE  Tables(Q)
<1> DEFINE h == r.home
<1>1. /\ h \in AllCpus /\ P.stat \in [Threads -> StatRecords] /\ P.queue \in [AllCpus -> QueueRecords]
      /\ \A c \in AllCpus : QueueOK(P.queue[c]) /\ ~QueueContains(P.queue[c], t)
  BY DEF StatRecords, Tables, PolicyRecords
<1>2. PICK a : a = QueueAdd(P.queue[h], t)
  BY Zenon
<1>3. /\ QueueOK(a)
      /\ \A u \in Threads : QueueContains(a, u) <=> (u = t \/ QueueContains(P.queue[h], u))
  BY <1>1, <1>2, QueueAddOK
<1>4. /\ Q.stat = [P.stat EXCEPT ![t] = r] /\ Q.queue = [P.queue EXCEPT ![h] = a]
      /\ Q = [stat |-> Q.stat, queue |-> Q.queue]
  BY <1>2
<1>5. Q \in PolicyRecords
  BY <1>1, <1>3, <1>4 DEF PolicyRecords, QueueOK
<1>6. \A c \in AllCpus : QueueOK(Q.queue[c])
  BY <1>1, <1>3, <1>4
<1>7. ASSUME NEW c \in AllCpus, NEW u \in Threads
      PROVE  QueueContains(Q.queue[c], u) <=> (Q.stat[u].used /\ Q.stat[u].home = c)
  <2>1. QueueContains(P.queue[c], u) <=> (P.stat[u].used /\ P.stat[u].home = c)
    BY DEF Tables
  <2>2. CASE u = t
    <3>1. Q.stat[u] = r
      BY <1>1, <1>4, <2>2
    <3>2. CASE c = h
      BY <1>1, <1>3, <1>4, <2>2, <3>1, <3>2
    <3>3. CASE c # h
      BY <1>1, <1>4, <2>2, <3>1, <3>3
    <3> QED BY <3>2, <3>3
  <2>3. CASE u # t
    <3>1. Q.stat[u] = P.stat[u]
      BY <1>1, <1>4, <2>3
    <3>2. CASE c = h
      BY <1>1, <1>3, <1>4, <2>1, <2>3, <3>1, <3>2
    <3>3. CASE c # h
      BY <1>1, <1>4, <2>1, <3>1, <3>3
    <3> QED BY <3>2, <3>3
  <2> QED BY <2>2, <2>3
<1>8. Registered(Q) = Registered(P) \cup {t} /\ t \notin Registered(P)
  BY <1>1, <1>4 DEF Registered
<1>9. /\ IsFiniteSet(Registered(P)) /\ NSlots \in Nat /\ Cardinality(Registered(P)) \in Nat
      /\ Cardinality(Registered(P)) < NSlots
  BY FS_CardinalityType, PolicyCapacities DEF Tables
<1>10. IsFiniteSet(Registered(Q)) /\ Cardinality(Registered(Q)) <= NSlots
  <2>1. /\ IsFiniteSet(Registered(P) \cup {t})
        /\ Cardinality(Registered(P) \cup {t}) = Cardinality(Registered(P)) + 1
    BY <1>8, <1>9, FS_AddElement, Zenon
  <2>2. IsFiniteSet(Registered(Q)) /\ Cardinality(Registered(Q)) = Cardinality(Registered(P)) + 1
    BY <1>8, <2>1, Zenon
  <2> QED BY <1>9, <2>2
<1> QED BY <1>5, <1>6, <1>7, <1>10 DEF Tables

\* A thread's record is cleared and it leaves the queue of its home.
LEMMA Left ==
  ASSUME NEW P, Tables(P), NEW t \in Threads, P.stat[t].used, NEW r \in StatRecords, ~r.used, NEW Q,
         Q = [stat |-> [P.stat EXCEPT ![t] = r],
              queue |-> [P.queue EXCEPT ![P.stat[t].home] = QueueRemove(@, t)]]
  PROVE  Tables(Q)
<1> DEFINE h == P.stat[t].home
<1>1. /\ h \in AllCpus /\ P.stat \in [Threads -> StatRecords] /\ P.queue \in [AllCpus -> QueueRecords]
      /\ \A c \in AllCpus : QueueOK(P.queue[c]) /\ (QueueContains(P.queue[c], t) <=> c = h)
  BY DEF StatRecords, Tables, PolicyRecords
<1>2. PICK a : a = QueueRemove(P.queue[h], t)
  BY Zenon
<1>3. /\ QueueOK(a)
      /\ \A u \in Threads : QueueContains(a, u) <=> (u # t /\ QueueContains(P.queue[h], u))
  BY <1>1, <1>2, QueueRemoveOK
<1>4. /\ Q.stat = [P.stat EXCEPT ![t] = r] /\ Q.queue = [P.queue EXCEPT ![h] = a]
      /\ Q = [stat |-> Q.stat, queue |-> Q.queue]
  BY <1>2
<1>5. Q \in PolicyRecords
  BY <1>1, <1>3, <1>4 DEF PolicyRecords, QueueOK
<1>6. \A c \in AllCpus : QueueOK(Q.queue[c])
  BY <1>1, <1>3, <1>4
<1>7. ASSUME NEW c \in AllCpus, NEW u \in Threads
      PROVE  QueueContains(Q.queue[c], u) <=> (Q.stat[u].used /\ Q.stat[u].home = c)
  <2>1. QueueContains(P.queue[c], u) <=> (P.stat[u].used /\ P.stat[u].home = c)
    BY DEF Tables
  <2>2. CASE u = t
    <3>1. Q.stat[u] = r
      BY <1>1, <1>4, <2>2
    <3>2. CASE c = h
      BY <1>1, <1>3, <1>4, <2>2, <3>1, <3>2
    <3>3. CASE c # h
      BY <1>1, <1>4, <2>2, <3>1, <3>3
    <3> QED BY <3>2, <3>3
  <2>3. CASE u # t
    <3>1. Q.stat[u] = P.stat[u]
      BY <1>1, <1>4, <2>3
    <3>2. CASE c = h
      BY <1>1, <1>3, <1>4, <2>1, <2>3, <3>1, <3>2
    <3>3. CASE c # h
      BY <1>1, <1>4, <2>1, <3>1, <3>3
    <3> QED BY <3>2, <3>3
  <2> QED BY <2>2, <2>3
<1>8. Registered(Q) = Registered(P) \ {t} /\ t \in Registered(P)
  BY <1>1, <1>4 DEF Registered
<1>9. /\ IsFiniteSet(Registered(P)) /\ NSlots \in Nat /\ Cardinality(Registered(P)) \in Nat
      /\ Cardinality(Registered(P)) <= NSlots
  BY FS_CardinalityType, PolicyCapacities DEF Tables
<1>10. IsFiniteSet(Registered(Q)) /\ Cardinality(Registered(Q)) <= NSlots
  <2>1. /\ IsFiniteSet(Registered(P) \ {t})
        /\ Cardinality(Registered(P) \ {t}) = Cardinality(Registered(P)) - 1
    BY <1>8, <1>9, FS_RemoveElement, Zenon
  <2>2. IsFiniteSet(Registered(Q)) /\ Cardinality(Registered(Q)) = Cardinality(Registered(P)) - 1
    BY <1>8, <2>1, Zenon
  <2> QED BY <1>9, <2>2
<1> QED BY <1>5, <1>6, <1>7, <1>10 DEF Tables

\* choose_home() finds a processor of the affinity.
LEMMA ChooseHomeOK ==
  ASSUME NEW P \in PolicyRecords, NEW m \in SUBSET AllCpus, m # {}, NEW preferred
  PROVE  ChooseHome(P, m, preferred) \in m
<1>1. CASE preferred \in m
  BY <1>1 DEF ChooseHome
<1>2. CASE preferred \notin m
  <2> DEFINE load == [c \in m |-> Count(P, c)]
             number == [c \in m |-> c]
  <2>1. load \in [m -> Nat] /\ number \in [m -> Nat]
    BY PolicyCapacities DEF PolicyRecords, QueueRecords, Count, AllCpus
  <2>2. PICK x \in m : \A y \in m : GoesBefore(load, number, number, x, y)
    <3> HIDE DEF load, number
    <3> QED BY <2>1, LexicalLeast, Zenon
  <2>3. \A y \in m : Count(P, x) < Count(P, y) \/ (Count(P, x) = Count(P, y) /\ x <= y)
    BY <2>1, <2>2 DEF GoesBefore
  <2>4. (CHOOSE c \in m : \A d \in m : Count(P, c) < Count(P, d) \/ (Count(P, c) = Count(P, d) /\ c <= d)) \in m
    BY <2>3, Zenon
  <2> QED BY <1>2, <2>4, Zenon DEF ChooseHome
<1> QED BY <1>1, <1>2

\* Moving a thread to another queue; its record keeps all but the home.
LEMMA MigrateOK ==
  ASSUME NEW P, Tables(P), NEW t \in Threads, P.stat[t].used, NEW c \in AllCpus, c # P.stat[t].home
  PROVE  LET Q == Migrate(P, t, c) IN
         /\ Tables(Q) /\ Q.stat = [P.stat EXCEPT ![t].home = c]
         /\ Q.queue[c] = QueueAdd(P.queue[c], t)
<1> DEFINE h == P.stat[t].home
<1>0. PICK Q : Q = Migrate(P, t, c)
  BY Zenon
<1>1. /\ h \in AllCpus /\ P.stat \in [Threads -> StatRecords] /\ P.queue \in [AllCpus -> QueueRecords]
      /\ \A d \in AllCpus : QueueOK(P.queue[d]) /\ (QueueContains(P.queue[d], t) <=> d = h)
  BY DEF StatRecords, Tables, PolicyRecords
<1>2. PICK a, b : a = QueueAdd(P.queue[c], t) /\ b = QueueRemove(P.queue[h], t)
  BY Zenon
<1>3. /\ QueueOK(a)
      /\ \A u \in Threads : QueueContains(a, u) <=> (u = t \/ QueueContains(P.queue[c], u))
  BY <1>1, <1>2, QueueAddOK
<1>4. /\ QueueOK(b)
      /\ \A u \in Threads : QueueContains(b, u) <=> (u # t /\ QueueContains(P.queue[h], u))
  BY <1>1, <1>2, QueueRemoveOK
<1>5. /\ Q = [stat |-> [P.stat EXCEPT ![t].home = c],
              queue |-> [[P.queue EXCEPT ![h] = b] EXCEPT ![c] = QueueAdd([P.queue EXCEPT ![h] = b][c], t)]]
  BY <1>0, <1>2, Zenon DEF Migrate
<1>6. [P.queue EXCEPT ![h] = b][c] = P.queue[c]
  BY <1>1
<1>7. /\ Q.stat = [P.stat EXCEPT ![t].home = c]
      /\ Q.queue = [[P.queue EXCEPT ![h] = b] EXCEPT ![c] = a]
      /\ Q = [stat |-> Q.stat, queue |-> Q.queue]
  BY <1>2, <1>5, <1>6
<1>8. /\ Q.queue[c] = a /\ Q.queue[h] = b
      /\ \A d \in AllCpus \ {c, h} : Q.queue[d] = P.queue[d]
      /\ Q.queue \in [AllCpus -> QueueRecords]
  BY <1>1, <1>3, <1>4, <1>7 DEF QueueOK
<1>9. /\ Q.stat \in [Threads -> StatRecords] /\ Q.stat[t].used /\ Q.stat[t].home = c
      /\ \A u \in Threads \ {t} : Q.stat[u] = P.stat[u]
  BY <1>1, <1>7 DEF StatRecords
<1>10. Q \in PolicyRecords
  BY <1>7, <1>8, <1>9 DEF PolicyRecords
<1>11. \A d \in AllCpus : QueueOK(Q.queue[d])
  BY <1>1, <1>3, <1>4, <1>8
<1>12. ASSUME NEW d \in AllCpus, NEW u \in Threads
       PROVE  QueueContains(Q.queue[d], u) <=> (Q.stat[u].used /\ Q.stat[u].home = d)
  <2>1. QueueContains(P.queue[d], u) <=> (P.stat[u].used /\ P.stat[u].home = d)
    BY DEF Tables
  <2>2. CASE d = c
    BY <1>3, <1>8, <1>9, <2>1, <2>2
  <2>3. CASE d = h
    BY <1>4, <1>8, <1>9, <2>1, <2>3
  <2>4. CASE d # c /\ d # h
    BY <1>1, <1>8, <1>9, <2>1, <2>4
  <2> QED BY <2>2, <2>3, <2>4
<1>13. Registered(Q) = Registered(P)
  BY <1>9 DEF Registered
<1>14. Tables(Q)
  BY <1>10, <1>11, <1>12, <1>13, Zenon DEF Tables
<1> QED BY <1>0, <1>2, <1>7, <1>8, <1>14, Zenon

\* register_thread(), into a table with a free slot.
LEMMA RegisterOK ==
  ASSUME NEW P, NEW cs \in SUBSET AllCpus, Tables(P), Affine(P, cs), NEW t \in Threads, ~P.stat[t].used,
         Cardinality(Registered(P)) < NSlots, NEW priority \in Priorities,
         NEW m \in SUBSET cs, m # {}, NEW preferred
  PROVE  LET Q == RegisterThread(P, t, priority, m, preferred) IN Tables(Q) /\ Affine(Q, cs)
<1>0. PICK Q, h : Q = RegisterThread(P, t, priority, m, preferred) /\ h = ChooseHome(P, m, preferred)
  BY Zenon
<1>1. h \in m /\ h \in AllCpus
  BY <1>0, ChooseHomeOK DEF Tables
<1> DEFINE r == [used |-> TRUE, state |-> "Ready", priority |-> priority, affinity |-> m, home |-> h, last |-> NCpus]
<1>2. r \in StatRecords /\ r.used /\ r.home = h /\ r.affinity = m
  BY <1>1 DEF StatRecords, States
<1>3. Q = [stat |-> [P.stat EXCEPT ![t] = r], queue |-> [P.queue EXCEPT ![r.home] = QueueAdd(@, t)]]
  BY <1>0, <1>2 DEF RegisterThread
<1> HIDE DEF r
<1>4. Tables(Q)
  BY <1>2, <1>3, Entered
<1>5. Q.stat = [P.stat EXCEPT ![t] = r] /\ P.stat \in [Threads -> StatRecords]
  BY <1>3 DEF Tables, PolicyRecords
<1>6. Affine(Q, cs)
  BY <1>1, <1>2, <1>5 DEF Affine
<1> QED BY <1>0, <1>4, <1>6

\* unregister_thread().
LEMMA UnregisterOK ==
  ASSUME NEW P, NEW cs \in SUBSET AllCpus, Tables(P), Affine(P, cs), NEW t \in Threads, P.stat[t].used
  PROVE  LET Q == UnregisterThread(P, t) IN Tables(Q) /\ Affine(Q, cs)
<1>0. PICK Q : Q = UnregisterThread(P, t)
  BY Zenon
<1>1. Unused \in StatRecords /\ ~Unused.used
  BY PolicyCapacities DEF StatRecords, Unused, States, AllCpus
<1>2. Q = [stat |-> [P.stat EXCEPT ![t] = Unused],
           queue |-> [P.queue EXCEPT ![P.stat[t].home] = QueueRemove(@, t)]]
  BY <1>0 DEF UnregisterThread
<1>3. Tables(Q)
  BY <1>1, <1>2, Left
<1>4. Q.stat = [P.stat EXCEPT ![t] = Unused] /\ P.stat \in [Threads -> StatRecords]
  BY <1>2 DEF Tables, PolicyRecords
<1>5. Affine(Q, cs)
  BY <1>1, <1>4 DEF Affine
<1> QED BY <1>0, <1>3, <1>5

\* f is the policy after each number of slots of the loop of reap_terminated().
UptoSlot(P, dead, n, f) ==
  f = [k \in 0 .. n |-> IF k = 0 THEN P
                       ELSE IF k \in DOMAIN dead THEN UnregisterThread(f[k - 1], dead[k]) ELSE f[k - 1]]

\* The loop of reap_terminated() is what its recursive definition says: there is
\* a function of the number of slots passed that satisfies it.
LEMMA ReapLoop ==
  ASSUME NEW P, NEW dead, NEW n \in Nat
  PROVE  \E f : UptoSlot(P, dead, n, f)
<1>0. PICK D : D = DOMAIN dead
  BY Zenon
<1> DEFINE S == {k \in Nat : ~\E f : UptoSlot(P, dead, k, f)}
<1> SUFFICES ASSUME S # {} PROVE FALSE
  OBVIOUS
<1>1. PICK m \in S : \A k \in S : m <= k
  <2>1. S \in SUBSET Nat
    OBVIOUS
  <2> HIDE DEF S
  <2> QED BY <2>1, LeastNatural
<1>2. CASE m = 0
  <2> DEFINE f == [k \in 0 .. 0 |-> P]
  <2>1. UptoSlot(P, dead, m, f)
    BY <1>2 DEF UptoSlot
  <2> QED BY <1>1, <2>1
<1>3. CASE m # 0
  <2>1. m - 1 \in Nat /\ m - 1 \notin S
    BY <1>1, <1>3
  <2>2. PICK f : UptoSlot(P, dead, m - 1, f)
    BY <2>1
  <2> DEFINE last == IF m \in D THEN UnregisterThread(f[m - 1], dead[m]) ELSE f[m - 1]
             g == [k \in 0 .. m |-> IF k = m THEN last ELSE f[k]]
  <2>3. \A k \in 0 .. m - 1 : f[k] = IF k = 0 THEN P
                       ELSE IF k \in D THEN UnregisterThread(f[k - 1], dead[k]) ELSE f[k - 1]
    BY <1>0, <2>2 DEF UptoSlot
  <2>4. \A k \in 0 .. m : k # 0 => k - 1 \in 0 .. m /\ g[k - 1] = f[k - 1]
    BY <2>1
  <2>5. \A k \in 0 .. m : g[k] = IF k = 0 THEN P
                       ELSE IF k \in D THEN UnregisterThread(g[k - 1], dead[k]) ELSE g[k - 1]
    <3> SUFFICES ASSUME NEW k \in 0 .. m
                 PROVE  g[k] = IF k = 0 THEN P
                          ELSE IF k \in D THEN UnregisterThread(g[k - 1], dead[k]) ELSE g[k - 1]
      OBVIOUS
    <3>1. CASE k = m
      BY <1>3, <2>4, <3>1
    <3>2. CASE k # m
      <4>1. k \in 0 .. m - 1 /\ g[k] = f[k]
        BY <2>1, <3>2
      <4> HIDE DEF g
      <4> QED BY <2>3, <2>4, <4>1
    <3> QED BY <3>1, <3>2
  <2>6. UptoSlot(P, dead, m, g)
    <3>1. g = [k \in 0 .. m |-> g[k]]
      OBVIOUS
    <3> HIDE DEF g
    <3> QED BY <1>0, <2>5, <3>1, Zenon DEF UptoSlot
  <2> QED BY <1>1, <2>6
<1> QED BY <1>2, <1>3

\* Q is P without the threads of the first k slots: the tables are in step, and the
\* records of these threads are Unused.
WithoutFirst(P, cs, dead, k, Q) ==
  /\ Tables(Q) /\ Affine(Q, cs)
  /\ \A t \in Threads :
       Q.stat[t] = IF \E j \in DOMAIN dead : j <= k /\ dead[j] = t THEN Unused ELSE P.stat[t]

\* One turn of the loop, at a slot that is Terminated.
LEMMA TurnOK ==
  ASSUME NEW P, NEW cs \in SUBSET AllCpus, NEW n \in Nat, NEW D \in SUBSET (1 .. n),
         NEW dead \in [D -> Registered(P)], IsInjective(dead), NEW k \in D,
         NEW Q, WithoutFirst(P, cs, dead, k - 1, Q)
  PROVE  WithoutFirst(P, cs, dead, k, UnregisterThread(Q, dead[k]))
<1>1. PICK u \in Threads : u = dead[k] /\ P.stat[u].used
  BY DEF Registered
<1>2. \A j \in D : dead[j] = u => j = k
  BY <1>1 DEF IsInjective
<1>3. Tables(Q) /\ Affine(Q, cs) /\ Q.stat[u] = P.stat[u]
  <2>1. k \in Nat /\ ~(k <= k - 1) /\ DOMAIN dead = D
    OBVIOUS
  <2>2. ~\E j \in DOMAIN dead : j <= k - 1 /\ dead[j] = u
    BY <1>2, <2>1
  <2> QED BY <1>1, <2>2, Zenon DEF WithoutFirst
<1>4. PICK R : R = UnregisterThread(Q, u)
  BY Zenon
<1>5. Tables(R) /\ Affine(R, cs)
  BY <1>1, <1>3, <1>4, UnregisterOK
<1>6. R.stat[u] = Unused /\ \A t \in Threads : t # u => R.stat[t] = Q.stat[t]
  BY <1>1, <1>3, <1>4 DEF UnregisterThread, Tables, PolicyRecords
<1>7. ASSUME NEW t \in Threads
      PROVE  R.stat[t] = IF \E j \in D : j <= k /\ dead[j] = t THEN Unused ELSE P.stat[t]
  <2>1. CASE t = u
    BY <1>1, <1>6, <2>1
  <2>2. CASE t # u
    <3>1. \A j \in D : dead[j] = t => (j <= k <=> j <= k - 1)
      BY <1>1, <2>2
    <3>2. Q.stat[t] = IF \E j \in D : j <= k - 1 /\ dead[j] = t THEN Unused ELSE P.stat[t]
      BY Zenon DEF WithoutFirst
    <3> QED BY <1>6, <2>2, <3>1, <3>2
  <2> QED BY <2>1, <2>2
<1> QED BY <1>1, <1>4, <1>5, <1>7, Zenon DEF WithoutFirst

\* reap_terminated() unregisters the terminated threads and no others.
LEMMA UnregisterInTurnOK ==
  ASSUME NEW P, NEW cs \in SUBSET AllCpus, Tables(P), Affine(P, cs), NEW n \in Nat,
         NEW D \in SUBSET (1 .. n), NEW dead \in [D -> Registered(P)], IsInjective(dead)
  PROVE  LET Q == UnregisterInTurn(P, dead, n) IN
         /\ Tables(Q) /\ Affine(Q, cs)
         /\ \A t \in Threads : Q.stat[t] = IF \E j \in D : dead[j] = t THEN Unused ELSE P.stat[t]
<1>1. PICK f : f = CHOOSE g : UptoSlot(P, dead, n, g)
  BY Zenon
<1>2. UptoSlot(P, dead, n, f)
  BY <1>1, ReapLoop
<1>3. UnregisterInTurn(P, dead, n) = f[n]
  BY <1>1 DEF UnregisterInTurn, UptoSlot
<1>4. /\ f[0] = P
      /\ \A k \in 1 .. n : f[k] = IF k \in D THEN UnregisterThread(f[k - 1], dead[k]) ELSE f[k - 1]
  <2>1. 0 \in 0 .. n /\ (\A k \in 1 .. n : k \in 0 .. n /\ k # 0) /\ DOMAIN dead = D
    OBVIOUS
  <2> QED BY <1>2, <2>1 DEF UptoSlot
<1> DEFINE Good(k) == WithoutFirst(P, cs, dead, k, f[k])
           S == {k \in 0 .. n : ~Good(k)}
<1>5. ASSUME S # {} PROVE FALSE
  <2>1. PICK m \in S : \A k \in S : m <= k
    <3>1. S \in SUBSET Nat
      OBVIOUS
    <3> HIDE DEF S
    <3> QED BY <1>5, <3>1, LeastNatural
  <2>2. m \in 0 .. n /\ ~Good(m) /\ \A k \in 0 .. n : ~Good(k) => m <= k
    <3> HIDE DEF Good
    <3> QED BY <2>1
  <2> HIDE DEF S
  <2>3. m # 0
    <3>1. \A j \in DOMAIN dead : ~(j <= 0)
      OBVIOUS
    <3>2. Good(0)
      BY <1>4, <3>1, Zenon DEF WithoutFirst
    <3> HIDE DEF Good
    <3> QED BY <2>2, <3>2
  <2>4. m \in 1 .. n /\ m - 1 \in 0 .. n /\ Good(m - 1)
    <3>1. m \in 1 .. n /\ m - 1 \in 0 .. n /\ ~(m <= m - 1)
      BY <2>2, <2>3
    <3> HIDE DEF Good
    <3> QED BY <2>2, <3>1, Zenon
  <2>5. PICK Q : Q = f[m - 1] /\ WithoutFirst(P, cs, dead, m - 1, Q)
    BY <2>4, Zenon
  <2>6. CASE m \in D
    <3>1. WithoutFirst(P, cs, dead, m, UnregisterThread(Q, dead[m]))
      BY <2>5, <2>6, TurnOK, Zenon
    <3>2. f[m] = UnregisterThread(Q, dead[m])
      BY <1>4, <2>4, <2>5, <2>6
    <3> QED BY <2>2, <3>1, <3>2, Zenon
  <2>7. CASE m \notin D
    <3>1. f[m] = Q
      BY <1>4, <2>4, <2>5, <2>7
    <3>2. \A j \in DOMAIN dead : j <= m <=> j <= m - 1
      BY <2>4, <2>7
    <3>3. WithoutFirst(P, cs, dead, m, Q)
      BY <2>5, <3>2, Zenon DEF WithoutFirst
    <3> QED BY <2>2, <3>1, <3>3, Zenon
  <2> QED BY <2>6, <2>7
<1>6. WithoutFirst(P, cs, dead, n, f[n])
  <2>1. Good(n)
    <3> HIDE DEF Good
    <3> QED BY <1>5
  <2> QED BY <2>1
<1>7. DOMAIN dead = D /\ \A j \in D : j <= n
  OBVIOUS
<1> QED BY <1>3, <1>6, <1>7, Zenon DEF WithoutFirst

\* A record replaced by one with the same home and an affinity that still fits.
LEMMA ReplacedAffine ==
  ASSUME NEW P, NEW cs, Tables(P), Affine(P, cs), NEW t \in Threads, NEW r,
         r.used => r.home \in r.affinity /\ r.affinity \subseteq cs, NEW Q, Replaced(P, Q, t, r)
  PROVE  Affine(Q, cs)
<1>1. Q.stat = [P.stat EXCEPT ![t] = r] /\ P.stat \in [Threads -> StatRecords]
  BY DEF Tables, PolicyRecords, Replaced
<1> QED BY <1>1 DEF Affine

\* set_state() leaves affinities alone.
LEMMA SetStateAffine ==
  ASSUME NEW P, NEW cs, Tables(P), Affine(P, cs), NEW t \in Threads, P.stat[t].used, NEW s \in States
  PROVE  Affine(SetState(P, t, s), cs)
<1> DEFINE r == [P.stat[t] EXCEPT !.state = s]
<1>1. P.stat[t] \in StatRecords
  BY DEF Tables, PolicyRecords
<1>2. r.used => r.home \in r.affinity /\ r.affinity \subseteq cs
  BY <1>1 DEF Affine, StatRecords
<1>3. Replaced(P, SetState(P, t, s), t, r)
  BY SetStateOK
<1> HIDE DEF r
<1> QED BY <1>2, <1>3, ReplacedAffine

\* set_priority().
LEMMA SetPriorityOK ==
  ASSUME NEW P, NEW cs, Tables(P), Affine(P, cs), NEW t \in Threads, NEW p \in Priorities
  PROVE  LET Q == SetPriority(P, t, p) IN Tables(Q) /\ Affine(Q, cs)
<1> DEFINE r == [P.stat[t] EXCEPT !.priority = p]
<1>1. P.stat[t] \in StatRecords
  BY DEF Tables, PolicyRecords
<1>2. /\ r \in StatRecords /\ r.used = P.stat[t].used /\ r.home = P.stat[t].home
      /\ r.used => r.home \in r.affinity /\ r.affinity \subseteq cs
  BY <1>1 DEF Affine, StatRecords
<1>3. Replaced(P, SetPriority(P, t, p), t, r)
  BY DEF SetPriority, Tables, PolicyRecords, Replaced
<1> HIDE DEF r
<1> QED BY <1>2, <1>3, StatReplaced, ReplacedAffine

\* set_affinity(): a thread whose home is excluded moves to one that is not.
LEMMA SetAffinityOK ==
  ASSUME NEW P, NEW cs \in SUBSET AllCpus, Tables(P), Affine(P, cs), NEW t \in Threads, P.stat[t].used,
         NEW m \in SUBSET cs, m # {}
  PROVE  LET Q == SetAffinity(P, t, m) IN Tables(Q) /\ Affine(Q, cs)
<1> DEFINE r == [P.stat[t] EXCEPT !.affinity = m]
<1>0. PICK A : A = [P EXCEPT !.stat[t].affinity = m]
  BY Zenon
<1>1. P.stat[t] \in StatRecords /\ P.stat \in [Threads -> StatRecords]
  BY DEF Tables, PolicyRecords
<1>2. /\ r \in StatRecords /\ r.used = P.stat[t].used /\ r.home = P.stat[t].home /\ r.affinity = m
  BY <1>1, Zenon DEF StatRecords
<1>3. Replaced(P, A, t, r)
  BY <1>0 DEF Tables, PolicyRecords, Replaced
<1> HIDE DEF r
<1>4. Tables(A)
  BY <1>2, <1>3, StatReplaced, Zenon
<1>5. A.stat = [P.stat EXCEPT ![t] = r]
  BY <1>3 DEF Replaced
<1>6. CASE P.stat[t].home \in m
  <2>1. SetAffinity(P, t, m) = A
    BY <1>0, <1>6, Zenon DEF SetAffinity
  <2> QED BY <1>2, <1>3, <1>4, <1>6, <2>1, ReplacedAffine
<1>7. CASE P.stat[t].home \notin m
  <2>1. PICK h : h = ChooseHome(A, m, NCpus)
    BY Zenon
  <2>2. h \in m /\ h \in AllCpus
    BY <1>4, <2>1, ChooseHomeOK DEF Tables
  <2>3. SetAffinity(P, t, m) = Migrate(A, t, h)
    BY <1>0, <1>7, <2>1, Zenon DEF SetAffinity
  <2>4. PICK Q : Q = Migrate(A, t, h)
    BY Zenon
  <2>5. A.stat[t] = r /\ h # A.stat[t].home /\ A.stat[t].used
    BY <1>1, <1>2, <1>5, <1>7, <2>2, Zenon
  <2>6. Tables(Q) /\ Q.stat = [A.stat EXCEPT ![t].home = h]
    BY <1>4, <2>2, <2>4, <2>5, MigrateOK
  <2>7. Q.stat[t].home = h /\ Q.stat[t].affinity = m /\ \A u \in Threads \ {t} : Q.stat[u] = P.stat[u]
    BY <1>1, <1>2, <1>5, <2>5, <2>6 DEF StatRecords
  <2>8. Affine(Q, cs)
    BY <2>2, <2>7 DEF Affine
  <2> QED BY <2>3, <2>4, <2>6, <2>8
<1> QED BY <1>6, <1>7

-------------------------------------------------------------------------------
\* Going round a ring of n places from any of them comes to each.
LEMMA RingIndex ==
  ASSUME NEW n \in Nat, NEW c \in 0 .. n - 1
  PROVE  /\ \A o \in 0 .. n - 1 : (c + o) % n \in 0 .. n - 1
         /\ \A i \in 0 .. n - 1 : \E o \in 0 .. n - 1 : (c + o) % n = i
<1>1. \A o \in 0 .. n - 1 : (c + o) % n \in 0 .. n - 1
  OBVIOUS
<1>2. ASSUME NEW i \in 0 .. n - 1 PROVE \E o \in 0 .. n - 1 : (c + o) % n = i
  <2>1. CASE i >= c
    <3>1. i - c \in 0 .. n - 1 /\ c + (i - c) = i /\ i % n = i
      BY <2>1
    <3> QED BY <3>1, Zenon
  <2>2. CASE i < c
    <3>1. i - c + n \in 0 .. n - 1 /\ c + (i - c + n) = i + n /\ (i + n) % n = i
      BY <2>2
    <3> QED BY <3>1
  <2> QED BY <2>1, <2>2
<1> QED BY <1>1, <1>2

\* The entries of a queue from its cursor on are its threads.
LEMMA QueueEntries ==
  ASSUME NEW P, Tables(P), NEW c \in AllCpus
  PROVE  /\ Count(P, c) \in Nat
         /\ \A o \in 0 .. Count(P, c) - 1 :
              LET t == PolicyAt(P, c, o) IN t \in Threads /\ P.stat[t].used /\ P.stat[t].home = c
         /\ \A t \in Threads : P.stat[t].used /\ P.stat[t].home = c =>
              \E o \in 0 .. Count(P, c) - 1 : PolicyAt(P, c, o) = t
<1>1. PICK q : q = P.queue[c]
  BY Zenon
<1>2. QueueOK(q) /\ \A t \in Threads : QueueContains(q, t) <=> (P.stat[t].used /\ P.stat[t].home = c)
  BY <1>1 DEF Tables
<1>3. PICK n : n = Len(q.ids)
  BY Zenon
<1>4. /\ n \in Nat /\ Count(P, c) = n /\ q.cursor \in Nat
      /\ \A i \in 1 .. n : q.ids[i] \in Threads /\ QueueContains(q, q.ids[i])
      /\ n # 0 => q.cursor \in 0 .. n - 1
  BY <1>1, <1>2, <1>3 DEF QueueOK, QueueRecords, Count, QueueContains, Empty
<1>5. \A o : PolicyAt(P, c, o) = q.ids[((q.cursor + o) % n) + 1]
  BY <1>1, <1>3 DEF PolicyAt, Count
<1>6. ASSUME NEW o \in 0 .. n - 1
      PROVE  LET t == PolicyAt(P, c, o) IN t \in Threads /\ P.stat[t].used /\ P.stat[t].home = c
  <2>0. q.cursor \in 0 .. n - 1
    BY <1>4
  <2>1. (q.cursor + o) % n \in 0 .. n - 1
    BY <1>4, <2>0, RingIndex, Zenon
  <2>2. ((q.cursor + o) % n) + 1 \in 1 .. n
    BY <1>4, <2>1
  <2>3. PICK i, t : i \in 1 .. n /\ t = q.ids[i] /\ PolicyAt(P, c, o) = t
    BY <1>5, <2>2
  <2>4. t \in Threads /\ P.stat[t].used /\ P.stat[t].home = c
    BY <1>2, <1>4, <2>3
  <2> QED BY <2>3, <2>4
<1>7. ASSUME NEW t \in Threads, P.stat[t].used, P.stat[t].home = c
      PROVE  \E o \in 0 .. n - 1 : PolicyAt(P, c, o) = t
  <2>1. PICK i \in 1 .. n : q.ids[i] = t
    BY <1>2, <1>3, <1>7 DEF QueueContains
  <2>2. i - 1 \in 0 .. n - 1 /\ q.cursor \in 0 .. n - 1
    BY <1>4, <2>1
  <2>3. PICK o \in 0 .. n - 1 : (q.cursor + o) % n = i - 1
    BY <1>4, <2>2, RingIndex, Zenon
  <2>4. PolicyAt(P, c, o) = q.ids[i - 1 + 1]
    BY <1>5, <2>3
  <2> QED BY <2>1, <2>4
<1> QED BY <1>4, <1>6, <1>7

\* A queue is never longer than the table.
LEMMA QueueFits ==
  ASSUME NEW P, Tables(P), NEW c \in AllCpus
  PROVE  Len(P.queue[c].ids) \in Nat /\ Len(P.queue[c].ids) <= NSlots
<1>1. PICK s : s = P.queue[c].ids
  BY Zenon
<1>2. /\ s \in Seq(Threads) /\ IsInjective(s) /\ DOMAIN s = 1 .. Len(s) /\ Len(s) \in Nat
      /\ \A t \in Threads : (\E i \in 1 .. Len(s) : s[i] = t) => P.stat[t].used
  BY <1>1 DEF Tables, QueueOK, QueueRecords, QueueContains
<1>3. \A i \in 1 .. Len(s) : s[i] \in Registered(P)
  BY <1>2 DEF Registered
<1>4. s \in [1 .. Len(s) -> Registered(P)]
  BY <1>2, <1>3
<1>5. s \in Injection(1 .. Len(s), Registered(P))
  BY <1>2, <1>4 DEF Injection, IsInjective
<1>6. IsFiniteSet(Registered(P)) /\ Cardinality(Registered(P)) <= NSlots
  BY DEF Tables
<1>7. Cardinality(1 .. Len(s)) <= Cardinality(Registered(P))
  BY <1>5, <1>6, FS_Injection, Zenon
<1>8. Cardinality(1 .. Len(s)) = Len(s)
  BY <1>2, FS_Interval
<1>9. Cardinality(Registered(P)) \in Nat /\ NSlots \in Nat
  BY <1>6, FS_CardinalityType, PolicyCapacities
<1> QED BY <1>1, <1>2, <1>6, <1>7, <1>8, <1>9

\* Priorities are what the comparisons of the selection loops take them for.
LEMMA PriorityRange ==
  ASSUME NEW P, Tables(P), NEW t \in Threads
  PROVE  P.stat[t].priority \in 0 .. MAX_PRIORITY
<1>1. P.stat[t].priority \in Priorities \cup {0}
  BY DEF Tables, PolicyRecords, StatRecords
<1>2. \A p \in Priorities \cup {0} : p \in 0 .. MAX_PRIORITY
  BY PolicyCapacities
<1> QED BY <1>1, <1>2, Zenon

\* select_from_queue() returns an entry that may be dispatched, and none that may is of
\* a higher priority.
LEMMA SelectOffsetOK ==
  ASSUME NEW P, Tables(P), NEW c \in AllCpus, NEW x, Eligible(P, c, x) # {}
  PROVE  LET o == SelectOffset(P, c, x) IN
         /\ o \in Eligible(P, c, x)
         /\ \A q \in Eligible(P, c, x) :
              P.stat[PolicyAt(P, c, o)].priority >= P.stat[PolicyAt(P, c, q)].priority
<1>1. PICK E : E = Eligible(P, c, x)
  BY Zenon
<1> DEFINE Pr(o) == P.stat[PolicyAt(P, c, o)].priority
           rank == [o \in E |-> MAX_PRIORITY - Pr(o)]
           place == [o \in E |-> o]
           Best(o) == \A q \in E : Pr(o) > Pr(q) \/ (Pr(o) = Pr(q) /\ o <= q)
<1>2. \A o \in E : o \in Nat /\ Pr(o) \in 0 .. MAX_PRIORITY
  <2>1. ASSUME NEW o \in E PROVE o \in Nat /\ Pr(o) \in 0 .. MAX_PRIORITY
    <3>1. o \in 0 .. Count(P, c) - 1
      BY <1>1 DEF Eligible
    <3>2. PolicyAt(P, c, o) \in Threads /\ o \in Nat
      BY <3>1, QueueEntries
    <3> QED BY <3>2, PriorityRange
  <2> QED BY <2>1
<1> HIDE DEF Pr
<1>3. rank \in [E -> Nat] /\ place \in [E -> Nat]
  BY <1>2, PolicyCapacities
<1>4. E # {}
  BY <1>1
<1>5. PICK b \in E : \A q \in E : GoesBefore(rank, place, place, b, q)
  <2> HIDE DEF rank, place
  <2> QED BY <1>3, <1>4, LexicalLeast, SMTT(30)
<1>6. Best(b)
  <2>1. ASSUME NEW q \in E PROVE Pr(b) > Pr(q) \/ (Pr(b) = Pr(q) /\ b <= q)
    <3>1. GoesBefore(rank, place, place, b, q)
      BY <1>5, <2>1
    <3>2. rank[b] = MAX_PRIORITY - Pr(b) /\ rank[q] = MAX_PRIORITY - Pr(q) /\ place[b] = b /\ place[q] = q
      BY <1>5, <2>1
    <3>3. b \in Nat /\ q \in Nat /\ Pr(b) \in 0 .. MAX_PRIORITY /\ Pr(q) \in 0 .. MAX_PRIORITY
      BY <1>2, <1>5, <2>1
    <3> HIDE DEF rank, place
    <3> QED BY <3>1, <3>2, <3>3, PolicyCapacities DEF GoesBefore
  <2> QED BY <2>1
<1>7. PICK o : o = CHOOSE best \in E : Best(best)
  BY Zenon
<1>8. o \in E /\ Best(o)
  <2> HIDE DEF Best
  <2> QED BY <1>5, <1>6, <1>7, Zenon
<1>9. SelectOffset(P, c, x) = o
  BY <1>1, <1>4, <1>7, Zenon DEF SelectOffset, Pr
<1>10. \A q \in E : Pr(o) >= Pr(q)
  BY <1>2, <1>8
<1> QED BY <1>1, <1>8, <1>9, <1>10 DEF Pr

\* select_steal_candidate() returns an entry of another queue that may be dispatched here,
\* and none that may is of a higher priority.
LEMMA StealCandidateOK ==
  ASSUME NEW P, Tables(P), NEW cs \in SUBSET AllCpus, NEW c, NEW x, Candidates(P, cs, c, x) # {}
  PROVE  \E b \in Candidates(P, cs, c, x) :
           /\ StealCandidate(P, cs, c, x) = PolicyAt(P, b[1], b[2])
           /\ \A q \in Candidates(P, cs, c, x) :
                P.stat[PolicyAt(P, b[1], b[2])].priority >= P.stat[PolicyAt(P, q[1], q[2])].priority
<1>1. PICK E : E = Candidates(P, cs, c, x)
  BY Zenon
<1> DEFINE Pr(co) == P.stat[PolicyAt(P, co[1], co[2])].priority
           Before(y, z) == y[1] < z[1] \/ (y[1] = z[1] /\ y[2] <= z[2])
           rank == [co \in E |-> MAX_PRIORITY - Pr(co)]
           number == [co \in E |-> co[1]]
           place == [co \in E |-> co[2]]
           Best(co) == \A q \in E : Pr(co) > Pr(q) \/ (Pr(co) = Pr(q) /\ Before(co, q))
<1>2. ASSUME NEW co \in E PROVE co[1] \in Nat /\ co[2] \in Nat /\ Pr(co) \in 0 .. MAX_PRIORITY
  <2>1. co[1] \in AllCpus /\ co[2] \in 0 .. NSlots - 1 /\ co[2] < Count(P, co[1])
    BY <1>1 DEF Candidates
  <2>2. co[1] \in Nat /\ co[2] \in Nat /\ Count(P, co[1]) \in Nat
    BY <2>1, QueueEntries, PolicyCapacities DEF AllCpus
  <2>3. co[2] \in 0 .. Count(P, co[1]) - 1
    BY <2>1, <2>2
  <2>4. PolicyAt(P, co[1], co[2]) \in Threads
    BY <2>1, <2>3, QueueEntries
  <2> QED BY <2>2, <2>4, PriorityRange
<1> HIDE DEF Pr
<1>3. rank \in [E -> Nat] /\ number \in [E -> Nat] /\ place \in [E -> Nat]
  BY <1>2, PolicyCapacities
<1>4. E # {}
  BY <1>1
<1>5. PICK b \in E : \A q \in E : GoesBefore(rank, number, place, b, q)
  <2> HIDE DEF rank, number, place
  <2> QED BY <1>3, <1>4, LexicalLeast, Zenon
<1>6. Best(b)
  <2>1. ASSUME NEW q \in E PROVE Pr(b) > Pr(q) \/ (Pr(b) = Pr(q) /\ Before(b, q))
    <3>1. GoesBefore(rank, number, place, b, q)
      BY <1>5, <2>1
    <3>2. /\ rank[b] = MAX_PRIORITY - Pr(b) /\ rank[q] = MAX_PRIORITY - Pr(q)
          /\ number[b] = b[1] /\ number[q] = q[1] /\ place[b] = b[2] /\ place[q] = q[2]
      BY <1>5, <2>1
    <3>3. Pr(b) \in 0 .. MAX_PRIORITY /\ Pr(q) \in 0 .. MAX_PRIORITY
      BY <1>2, <1>5, <2>1
    <3> HIDE DEF rank, number, place
    <3> QED BY <3>1, <3>2, <3>3, PolicyCapacities DEF GoesBefore
  <2> QED BY <2>1
<1>7. PICK o : o = CHOOSE co \in E : Best(co)
  BY Zenon
<1>8. o \in E /\ Best(o)
  <2> HIDE DEF Best
  <2> QED BY <1>5, <1>6, <1>7, Zenon
<1>9. StealCandidate(P, cs, c, x) = PolicyAt(P, o[1], o[2])
  BY <1>1, <1>7, Zenon DEF StealCandidate, Pr
<1>10. \A q \in E : Pr(o) >= Pr(q)
  BY <1>2, <1>8
<1> QED BY <1>1, <1>8, <1>9, <1>10 DEF Pr

\* What a dispatch of entry o of queue c leaves: the thread is Running there, and the
\* cursor is behind it.
DispatchedAt(P, Q, c, o) ==
  LET t == PolicyAt(P, c, o) IN
  /\ t \in Threads /\ P.stat[t].used /\ P.stat[t].home = c
  /\ Tables(Q) /\ Q.stat = [P.stat EXCEPT ![t] = [@ EXCEPT !.state = "Running", !.last = c]]

\* The selected thread becomes Running; the tables stay in step.
LEMMA DispatchOK ==
  ASSUME NEW P, Tables(P), NEW c \in AllCpus, NEW x, Eligible(P, c, x) # {}
  PROVE  DispatchedAt(P, Dispatch(P, c, x), c, SelectOffset(P, c, x))
<1>1. PICK o, Q, n : o = SelectOffset(P, c, x) /\ Q = Dispatch(P, c, x) /\ n = Count(P, c)
  BY Zenon
<1>2. o \in 0 .. n - 1 /\ n \in Nat
  <2>1. o \in Eligible(P, c, x)
    BY <1>1, SelectOffsetOK
  <2> QED BY <1>1, <2>1, QueueEntries DEF Eligible
<1>3. PICK t : t = PolicyAt(P, c, o)
  BY Zenon
<1>4. t \in Threads /\ P.stat[t].used /\ P.stat[t].home = c
  BY <1>1, <1>2, <1>3, QueueEntries
<1>5. /\ P \in PolicyRecords /\ P.stat \in [Threads -> StatRecords] /\ P.queue \in [AllCpus -> QueueRecords]
      /\ P.stat[t] \in StatRecords
  BY <1>4 DEF Tables, PolicyRecords
<1>6. PICK k : k = (P.queue[c].cursor + o + 1) % n
  BY Zenon
<1>7. k \in 0 .. n - 1
  <2>1. P.queue[c].cursor \in Nat
    BY <1>5 DEF QueueRecords
  <2> QED BY <1>2, <1>6, <2>1
<1>8. PICK A, B : A = [P.stat EXCEPT ![t] = [@ EXCEPT !.state = "Running", !.last = c]] /\ B = [P.queue EXCEPT ![c].cursor = k]
  BY Zenon
<1>9. /\ Q.stat = [P.stat EXCEPT ![t] = [@ EXCEPT !.state = "Running", !.last = c]]
      /\ Q.queue = [P.queue EXCEPT ![c].cursor = k]
      /\ Q = [stat |-> Q.stat, queue |-> Q.queue]
  <2>1. Q = [stat |-> A, queue |-> B]
    BY <1>1, <1>3, <1>6, <1>8, Zenon DEF Dispatch
  <2>2. Q.stat = A /\ Q.queue = B
    BY <2>1
  <2> QED BY <1>8, <2>1, <2>2, Zenon
<1>10. /\ Q.stat \in [Threads -> StatRecords]
       /\ \A u \in Threads : (Q.stat[u].used <=> P.stat[u].used) /\ Q.stat[u].home = P.stat[u].home
  <2>1. PICK r : r = [P.stat[t] EXCEPT !.state = "Running", !.last = c]
    BY Zenon
  <2>2. r \in StatRecords /\ r.used = P.stat[t].used /\ r.home = P.stat[t].home
    BY <1>5, <2>1, Zenon DEF StatRecords, States
  <2>3. Q.stat = [P.stat EXCEPT ![t] = r]
    BY <1>9, <2>1, Zenon
  <2> QED BY <1>4, <1>5, <2>2, <2>3, Zenon
<1>11. /\ Q.queue \in [AllCpus -> QueueRecords]
       /\ \A d \in AllCpus : QueueOK(Q.queue[d]) /\ Q.queue[d].ids = P.queue[d].ids
  <2>1. \A d \in AllCpus : QueueOK(P.queue[d]) /\ P.queue[d] \in QueueRecords
    BY DEF Tables, QueueOK
  <2>2. \A d \in AllCpus \ {c} : Q.queue[d] = P.queue[d]
    BY <1>5, <1>9
  <2>3. Q.queue[c] = [ids |-> P.queue[c].ids, cursor |-> k]
    BY <1>5, <1>9, <2>1 DEF QueueRecords
  <2>4. QueueOK(Q.queue[c]) /\ Q.queue[c].ids = P.queue[c].ids
    BY <1>1, <1>2, <1>7, <2>1, <2>3 DEF QueueOK, QueueRecords, Count
  <2> QED BY <1>5, <1>9, <2>1, <2>2, <2>4 DEF QueueOK
<1>12. Q \in PolicyRecords
  BY <1>9, <1>10, <1>11 DEF PolicyRecords
<1>13. SamePlaces(P, Q)
  BY <1>10, <1>11, Zenon DEF SamePlaces
<1>14. Tables(Q)
  BY <1>12, <1>13, Kept
<1> QED BY <1>1, <1>3, <1>4, <1>9, <1>14 DEF DispatchedAt

-------------------------------------------------------------------------------
\* The threads that may run on processor c, and those pick_next() has to choose from.
Runnable(P, c, x) == {t \in Threads : Dispatchable(P, t, c, x)}
LocalOnes(P, c, x) == {t \in Runnable(P, c, x) : P.stat[t].home = c}
Choice(P, c, x) == IF LocalOnes(P, c, x) # {} THEN LocalOnes(P, c, x) ELSE Runnable(P, c, x)
Foremost(P, S) == {t \in S : \A u \in S : P.stat[t].priority >= P.stat[u].priority}
RunsOn(P, t, c) == [P.stat EXCEPT ![t] = [@ EXCEPT !.state = "Running", !.last = c, !.home = c]]

\* The local queue has an entry to select exactly when a thread at home may run.
LEMMA EligibleMeansLocal ==
  ASSUME NEW P, Tables(P), NEW c \in AllCpus, NEW x
  PROVE  /\ \A o \in Eligible(P, c, x) : PolicyAt(P, c, o) \in LocalOnes(P, c, x)
         /\ \A t \in LocalOnes(P, c, x) : \E o \in Eligible(P, c, x) : PolicyAt(P, c, o) = t
<1>1. ASSUME NEW o \in Eligible(P, c, x) PROVE PolicyAt(P, c, o) \in LocalOnes(P, c, x)
  <2>1. o \in 0 .. Count(P, c) - 1 /\ Dispatchable(P, PolicyAt(P, c, o), c, x)
    BY <1>1 DEF Eligible
  <2>2. PolicyAt(P, c, o) \in Threads /\ P.stat[PolicyAt(P, c, o)].home = c
    BY <2>1, QueueEntries
  <2> QED BY <2>1, <2>2 DEF LocalOnes, Runnable
<1>2. ASSUME NEW t \in LocalOnes(P, c, x) PROVE \E o \in Eligible(P, c, x) : PolicyAt(P, c, o) = t
  <2>1. t \in Threads /\ Dispatchable(P, t, c, x) /\ P.stat[t].home = c /\ P.stat[t].used
    BY <1>2 DEF LocalOnes, Runnable, Dispatchable
  <2>2. PICK o \in 0 .. Count(P, c) - 1 : PolicyAt(P, c, o) = t
    BY <2>1, QueueEntries
  <2>3. o \in Eligible(P, c, x)
    BY <2>1, <2>2, Zenon DEF Eligible
  <2> QED BY <2>2, <2>3
<1> QED BY <1>1, <1>2

\* The other queues have a candidate for each thread that may run here and is not at
\* home here.
LEMMA CandidatesMeanOthers ==
  ASSUME NEW P, NEW cs \in SUBSET AllCpus, Tables(P), Affine(P, cs), NEW c \in AllCpus, NEW x
  PROVE  /\ \A b \in Candidates(P, cs, c, x) :
              LET t == PolicyAt(P, b[1], b[2]) IN t \in Runnable(P, c, x) /\ P.stat[t].home # c
         /\ \A t \in Runnable(P, c, x) : P.stat[t].home # c =>
              \E b \in Candidates(P, cs, c, x) : PolicyAt(P, b[1], b[2]) = t
<1>1. ASSUME NEW b \in Candidates(P, cs, c, x)
      PROVE  LET t == PolicyAt(P, b[1], b[2]) IN t \in Runnable(P, c, x) /\ P.stat[t].home # c
  <2>1. /\ b[1] \in AllCpus /\ b[1] # c /\ b[2] \in 0 .. NSlots - 1 /\ b[2] < Count(P, b[1])
        /\ Dispatchable(P, PolicyAt(P, b[1], b[2]), c, x)
    BY <1>1 DEF Candidates
  <2>2. b[2] \in 0 .. Count(P, b[1]) - 1
    BY <2>1, QueueEntries, PolicyCapacities
  <2>3. PolicyAt(P, b[1], b[2]) \in Threads /\ P.stat[PolicyAt(P, b[1], b[2])].home = b[1]
    BY <2>1, <2>2, QueueEntries
  <2> QED BY <2>1, <2>3, Zenon DEF Runnable
<1>2. ASSUME NEW t \in Runnable(P, c, x), P.stat[t].home # c
      PROVE  \E b \in Candidates(P, cs, c, x) : PolicyAt(P, b[1], b[2]) = t
  <2>1. t \in Threads /\ Dispatchable(P, t, c, x) /\ P.stat[t].used
    BY <1>2 DEF Runnable, Dispatchable
  <2>2. PICK h : h = P.stat[t].home
    BY Zenon
  <2>3. h \in cs /\ h \in AllCpus /\ h # c
    BY <1>2, <2>1, <2>2 DEF Affine
  <2>4. PICK o \in 0 .. Count(P, h) - 1 : PolicyAt(P, h, o) = t
    BY <2>1, <2>2, <2>3, QueueEntries
  <2>5. Count(P, h) \in Nat /\ Count(P, h) <= NSlots /\ NSlots \in Nat
    BY <2>3, QueueFits, PolicyCapacities DEF Count
  <2>6. o \in 0 .. NSlots - 1 /\ o < Count(P, h)
    BY <2>4, <2>5
  <2>7. <<h, o>> \in Candidates(P, cs, c, x)
    BY <2>1, <2>3, <2>4, <2>6 DEF Candidates
  <2>8. <<h, o>>[1] = h /\ <<h, o>>[2] = o
    OBVIOUS
  <2> QED BY <2>4, <2>7, <2>8, Zenon
<1> QED BY <1>1, <1>2

\* What pick_next() promises of the policy it leaves and of the thread it returns.
PickKept(P, cs, c, x, Q, t) ==
  /\ Tables(Q) /\ Affine(Q, cs)
  /\ IF Runnable(P, c, x) = {} THEN Q = P /\ t = NoThread
     ELSE t \in Foremost(P, Choice(P, c, x)) /\ Q.stat = RunsOn(P, t, c)

\* A thread that runs where it is at home has not moved.
LEMMA RunsOnAffine ==
  ASSUME NEW P, NEW cs, Tables(P), Affine(P, cs), NEW t \in Threads, NEW c \in P.stat[t].affinity,
         NEW Q, Q.stat = RunsOn(P, t, c)
  PROVE  Affine(Q, cs)
<1>1. P.stat \in [Threads -> StatRecords] /\ P.stat[t] \in StatRecords
  BY DEF Tables, PolicyRecords
<1>2. PICK r : r = [P.stat[t] EXCEPT !.state = "Running", !.last = c, !.home = c]
  BY Zenon
<1>3. r.home = c /\ r.affinity = P.stat[t].affinity /\ (r.used <=> P.stat[t].used)
  BY <1>1, <1>2 DEF StatRecords
<1>4. Q.stat = [P.stat EXCEPT ![t] = r]
  BY <1>2, Zenon DEF RunsOn
<1> QED BY <1>1, <1>3, <1>4 DEF Affine

\* pick_next() with a thread of its own queue to run.
LEMMA PickLocal ==
  ASSUME NEW P, NEW cs \in SUBSET AllCpus, Tables(P), Affine(P, cs), NEW c \in AllCpus, NEW x,
         Eligible(P, c, x) # {}
  PROVE  PickKept(P, cs, c, x, PickNext(P, cs, c, x), Picked(P, cs, c, x))
<1>1. PICK o, Q, t : o = SelectOffset(P, c, x) /\ Q = Dispatch(P, c, x) /\ t = PolicyAt(P, c, o)
  BY Zenon
<1>2. /\ o \in Eligible(P, c, x)
      /\ \A q \in Eligible(P, c, x) : P.stat[t].priority >= P.stat[PolicyAt(P, c, q)].priority
  BY <1>1, SelectOffsetOK
<1>3. t \in LocalOnes(P, c, x)
  BY <1>1, <1>2, EligibleMeansLocal
<1>4. \A u \in LocalOnes(P, c, x) : P.stat[t].priority >= P.stat[u].priority
  BY <1>2, EligibleMeansLocal
<1>5. t \in Foremost(P, Choice(P, c, x)) /\ Runnable(P, c, x) # {}
  <2>1. Choice(P, c, x) = LocalOnes(P, c, x)
    BY <1>3 DEF Choice
  <2>2. t \in Foremost(P, LocalOnes(P, c, x))
    BY <1>3, <1>4 DEF Foremost
  <2>3. Runnable(P, c, x) # {}
    BY <1>3 DEF LocalOnes
  <2> QED BY <2>1, <2>2, <2>3, Zenon
<1>6. DispatchedAt(P, Q, c, o)
  BY <1>1, DispatchOK
<1>7. /\ t \in Threads /\ P.stat[t].home = c /\ Tables(Q)
      /\ Q.stat = [P.stat EXCEPT ![t] = [@ EXCEPT !.state = "Running", !.last = c]]
  BY <1>1, <1>6, Zenon DEF DispatchedAt
<1>8. Q.stat = RunsOn(P, t, c)
  <2>1. P.stat \in [Threads -> StatRecords] /\ P.stat[t] \in StatRecords
    BY <1>7 DEF Tables, PolicyRecords
  <2>2. PICK r : r = [P.stat[t] EXCEPT !.state = "Running", !.last = c]
    BY Zenon
  <2>3. r = [P.stat[t] EXCEPT !.state = "Running", !.last = c, !.home = c]
    BY <1>7, <2>1, <2>2, Zenon DEF StatRecords
  <2>4. Q.stat = [P.stat EXCEPT ![t] = r]
    BY <1>7, <2>2, Zenon
  <2> QED BY <2>3, <2>4, Zenon DEF RunsOn
<1>9. c \in P.stat[t].affinity
  BY <1>3 DEF LocalOnes, Runnable, Dispatchable
<1>10. Affine(Q, cs)
  BY <1>7, <1>8, <1>9, RunsOnAffine
<1>11. PickNext(P, cs, c, x) = Q /\ Picked(P, cs, c, x) = t
  BY <1>1, Zenon DEF PickNext, Picked
<1> QED BY <1>5, <1>7, <1>8, <1>10, <1>11, Zenon DEF PickKept

\* pick_next() with no thread of its own queue to run, and one of another.
LEMMA PickStolen ==
  ASSUME NEW P, NEW cs \in SUBSET AllCpus, Tables(P), Affine(P, cs), NEW c \in AllCpus, NEW x,
         Eligible(P, c, x) = {}, Candidates(P, cs, c, x) # {}
  PROVE  PickKept(P, cs, c, x, PickNext(P, cs, c, x), Picked(P, cs, c, x))
<1>1. PICK b \in Candidates(P, cs, c, x) :
        /\ StealCandidate(P, cs, c, x) = PolicyAt(P, b[1], b[2])
        /\ \A q \in Candidates(P, cs, c, x) :
             P.stat[PolicyAt(P, b[1], b[2])].priority >= P.stat[PolicyAt(P, q[1], q[2])].priority
  BY StealCandidateOK
<1>2. PICK t : t = PolicyAt(P, b[1], b[2])
  BY Zenon
<1>3. t \in Runnable(P, c, x) /\ P.stat[t].home # c
  BY <1>1, <1>2, CandidatesMeanOthers
<1>4. LocalOnes(P, c, x) = {}
  BY EligibleMeansLocal
<1>5. \A u \in Runnable(P, c, x) : P.stat[t].priority >= P.stat[u].priority
  <2>1. ASSUME NEW u \in Runnable(P, c, x) PROVE P.stat[t].priority >= P.stat[u].priority
    <3>1. P.stat[u].home # c
      BY <1>4, <2>1 DEF LocalOnes
    <3>2. PICK q \in Candidates(P, cs, c, x) : PolicyAt(P, q[1], q[2]) = u
      BY <2>1, <3>1, CandidatesMeanOthers
    <3> QED BY <1>1, <1>2, <3>2
  <2> QED BY <2>1
<1>6. t \in Foremost(P, Choice(P, c, x)) /\ Runnable(P, c, x) # {}
  <2>1. Choice(P, c, x) = Runnable(P, c, x)
    BY <1>4 DEF Choice
  <2>2. t \in Foremost(P, Runnable(P, c, x))
    BY <1>3, <1>5 DEF Foremost
  <2> QED BY <1>3, <2>1, <2>2, Zenon
<1>7. PICK M : M = Migrate(P, t, c)
  BY Zenon
<1>8. /\ t \in Threads /\ P.stat[t].used /\ t # x /\ P.stat[t].state = "Ready" /\ c \in P.stat[t].affinity
      /\ P.stat \in [Threads -> StatRecords] /\ P.stat[t] \in StatRecords
  BY <1>3 DEF Runnable, Dispatchable, Tables, PolicyRecords
<1>9. Tables(M) /\ M.stat = [P.stat EXCEPT ![t].home = c]
  BY <1>3, <1>7, <1>8, MigrateOK
<1>10. /\ M.stat[t] = [P.stat[t] EXCEPT !.home = c]
       /\ \A u \in Threads \ {t} : M.stat[u] = P.stat[u]
  BY <1>8, <1>9
<1>11. t \in LocalOnes(M, c, x)
  BY <1>8, <1>10 DEF LocalOnes, Runnable, Dispatchable, StatRecords
<1>12. Eligible(M, c, x) # {}
  BY <1>9, <1>11, EligibleMeansLocal
<1>13. PICK o, Q : o = SelectOffset(M, c, x) /\ Q = Dispatch(M, c, x)
  BY Zenon
<1>14. PolicyAt(M, c, o) \in LocalOnes(M, c, x)
  BY <1>9, <1>12, <1>13, SelectOffsetOK, EligibleMeansLocal
<1>15. PolicyAt(M, c, o) = t
  <2>1. PICK u : u = PolicyAt(M, c, o)
    BY Zenon
  <2>2. ASSUME u # t PROVE FALSE
    <3>1. u \in Threads /\ M.stat[u] = P.stat[u] /\ Dispatchable(M, u, c, x) /\ M.stat[u].home = c
      BY <1>10, <1>14, <2>1, <2>2 DEF LocalOnes, Runnable
    <3>2. u \in LocalOnes(P, c, x)
      BY <3>1 DEF LocalOnes, Runnable, Dispatchable
    <3> QED BY <1>4, <3>2
  <2> QED BY <2>1, <2>2
<1>16. DispatchedAt(M, Q, c, o)
  BY <1>9, <1>12, <1>13, DispatchOK
<1>17. Tables(Q) /\ Q.stat = [M.stat EXCEPT ![t] = [@ EXCEPT !.state = "Running", !.last = c]]
  BY <1>15, <1>16, Zenon DEF DispatchedAt
<1>18. Q.stat = RunsOn(P, t, c)
  <2>1. PICK r : r = [P.stat[t] EXCEPT !.state = "Running", !.last = c, !.home = c]
    BY Zenon
  <2>2. PICK m : m = [M.stat[t] EXCEPT !.state = "Running", !.last = c]
    BY Zenon
  <2>3. m = r
    BY <1>8, <1>10, <2>1, <2>2, Zenon DEF StatRecords
  <2>4. Q.stat = [M.stat EXCEPT ![t] = r]
    BY <1>17, <2>2, <2>3, Zenon
  <2>5. Q.stat = [P.stat EXCEPT ![t] = r]
    BY <1>8, <1>9, <2>4
  <2> QED BY <2>1, <2>5, Zenon DEF RunsOn
<1>19. Affine(Q, cs)
  BY <1>8, <1>18, RunsOnAffine
<1>20. PickNext(P, cs, c, x) = Q /\ Picked(P, cs, c, x) = t
  BY <1>1, <1>2, <1>7, <1>13, Zenon DEF PickNext, Picked
<1> QED BY <1>6, <1>17, <1>18, <1>19, <1>20, Zenon DEF PickKept

\* pick_next().
LEMMA PickOK ==
  ASSUME NEW P, NEW cs \in SUBSET AllCpus, Tables(P), Affine(P, cs), NEW c \in AllCpus, NEW x
  PROVE  PickKept(P, cs, c, x, PickNext(P, cs, c, x), Picked(P, cs, c, x))
<1>1. CASE Eligible(P, c, x) # {}
  BY <1>1, PickLocal
<1>2. CASE Eligible(P, c, x) = {} /\ Candidates(P, cs, c, x) # {}
  BY <1>2, PickStolen
<1>3. CASE Eligible(P, c, x) = {} /\ Candidates(P, cs, c, x) = {}
  <2>1. Runnable(P, c, x) = {}
    <3>1. ASSUME NEW t \in Runnable(P, c, x) PROVE FALSE
      <4>1. CASE P.stat[t].home = c
        <5>1. t \in LocalOnes(P, c, x)
          BY <3>1, <4>1 DEF LocalOnes
        <5> QED BY <1>3, <5>1, EligibleMeansLocal
      <4>2. CASE P.stat[t].home # c
        BY <1>3, <3>1, <4>2, CandidatesMeanOthers
      <4> QED BY <4>1, <4>2
    <3> QED BY <3>1
  <2>2. PickNext(P, cs, c, x) = P /\ Picked(P, cs, c, x) = NoThread
    BY <1>3, Zenon DEF PickNext, Picked
  <2> QED BY <2>1, <2>2, Zenon DEF PickKept
<1> QED BY <1>1, <1>2, <1>3

-------------------------------------------------------------------------------
\* cancel_dispatch().
LEMMA CancelOK ==
  ASSUME NEW P, NEW cs, Tables(P), Affine(P, cs), NEW t \in Threads, NEW c
  PROVE  LET Q == CancelDispatch(P, t, c) IN Tables(Q) /\ Affine(Q, cs)
<1>1. CASE P.stat[t].used /\ P.stat[t].state = "Running" /\ P.stat[t].last = c
  <2>1. CancelDispatch(P, t, c) = SetState(P, t, "Ready") /\ "Ready" \in States
    BY <1>1 DEF CancelDispatch, States
  <2> QED BY <1>1, <2>1, SetStateOK, SetStateAffine, Zenon
<1>2. CASE ~(P.stat[t].used /\ P.stat[t].state = "Running" /\ P.stat[t].last = c)
  BY <1>2 DEF CancelDispatch
<1> QED BY <1>1, <1>2

\* expand_cpu_count(): nobody was at home on a processor that was not online.
LEMMA ExpandOK ==
  ASSUME NEW P, NEW m \in 1 .. NCpus, NEW n \in 1 .. NCpus, m < n, Tables(P), Affine(P, 0 .. m - 1), NEW Q,
         Q = [P EXCEPT !.queue = [c \in AllCpus |-> IF c \in m .. n - 1 THEN Empty ELSE @[c]]]
  PROVE  Tables(Q) /\ Affine(Q, 0 .. n - 1)
<1>1. P.stat \in [Threads -> StatRecords] /\ P.queue \in [AllCpus -> QueueRecords] /\ NCpus \in Nat
  BY PolicyCapacities DEF Tables, PolicyRecords
<1>2. PICK B : B = [c \in AllCpus |-> IF c \in m .. n - 1 THEN Empty ELSE P.queue[c]]
  BY Zenon
<1>3. Q = [stat |-> P.stat, queue |-> B]
  BY <1>2 DEF Tables, PolicyRecords
<1>4. Q.stat = P.stat /\ Q.queue = B
  BY <1>3
<1>5. \A c \in AllCpus : QueueOK(B[c])
  BY <1>2, EmptyOK DEF Tables
<1>6. Q \in PolicyRecords
  BY <1>1, <1>2, <1>3, <1>5, Zenon DEF PolicyRecords, QueueOK
<1>7. ASSUME NEW c \in AllCpus, NEW t \in Threads
      PROVE  QueueContains(B[c], t) <=> (P.stat[t].used /\ P.stat[t].home = c)
  <2>1. CASE c \in m .. n - 1
    <3>1. ~QueueContains(B[c], t)
      BY <1>2, <2>1, EmptyOK
    <3>2. ~(P.stat[t].used /\ P.stat[t].home = c)
      BY <2>1 DEF Affine
    <3> QED BY <3>1, <3>2
  <2>2. CASE c \notin m .. n - 1
    BY <1>2, <2>2 DEF Tables
  <2> QED BY <2>1, <2>2
<1>8. Registered(Q) = Registered(P)
  BY <1>4 DEF Registered
<1>9. Tables(Q)
  BY <1>4, <1>5, <1>6, <1>7, <1>8 DEF Tables
<1>10. Affine(Q, 0 .. n - 1)
  BY <1>4 DEF Affine
<1> QED BY <1>9, <1>10

\* configure() leaves empty tables.
LEMMA PolicyInvInit == PolicyInit => PolicyInv
<1> SUFFICES ASSUME PolicyInit PROVE PolicyInv
  OBVIOUS
<1>1. policy.stat = [t \in Threads |-> Unused] /\ policy.queue = [c \in AllCpus |-> Empty] /\ cpu_count = 1
  BY DEF PolicyInit
<1>2. policy = [stat |-> policy.stat, queue |-> policy.queue]
  BY DEF PolicyInit
<1>3. Unused \in StatRecords /\ ~Unused.used /\ NCpus \in Nat /\ NCpus >= 1 /\ NSlots \in Nat
  BY PolicyCapacities DEF StatRecords, Unused, States, AllCpus
<1>4. Empty \in QueueRecords
  BY EmptyOK DEF QueueOK
<1>5. policy \in PolicyRecords
  BY <1>1, <1>2, <1>3, <1>4 DEF PolicyRecords
<1>6. Registered(policy) = {}
  BY <1>1, <1>3 DEF Registered
<1>7. IsFiniteSet(Registered(policy)) /\ Cardinality(Registered(policy)) <= NSlots
  BY <1>3, <1>6, FS_EmptySet
<1>8. Tables(policy)
  BY <1>1, <1>3, <1>5, <1>7, EmptyOK DEF Tables
<1>9. Affine(policy, OnlineCpus)
  BY <1>1, <1>3 DEF Affine
<1> QED BY <1>1, <1>3, <1>8, <1>9 DEF PolicyInv

\* Every call keeps the tables in step.
LEMMA PolicyInvNext == PolicyInv /\ [PolicyNext]_pvars => PolicyInv'
<1> SUFFICES ASSUME PolicyInv, [PolicyNext]_pvars PROVE PolicyInv'
  OBVIOUS
<1>1. cpu_count \in 1 .. NCpus /\ Tables(policy) /\ Affine(policy, OnlineCpus) /\ OnlineCpus \in SUBSET AllCpus
  BY PolicyCapacities DEF PolicyInv, OnlineCpus, AllCpus
<1> DEFINE Kept1 == UNCHANGED cpu_count /\ Tables(policy') /\ Affine(policy', OnlineCpus)
<1>2. ASSUME NEW t \in Threads, NEW p \in Priorities, NEW m \in Masks, NEW c, Register(t, p, m, c) PROVE Kept1
  <2>1. m \in SUBSET OnlineCpus /\ m # {} /\ ~policy.stat[t].used /\ Cardinality(Registered(policy)) < NSlots
    BY <1>2 DEF Masks, Register
  <2> QED BY <1>1, <1>2, <2>1, RegisterOK DEF Register
<1>3. ASSUME NEW t \in Threads, Unregister(t) PROVE Kept1
  BY <1>1, <1>3, UnregisterOK DEF Unregister, Registered
<1>4. ASSUME NEW t \in Threads, NEW s \in States, ChangeState(t, s) PROVE Kept1
  BY <1>1, <1>4, SetStateOK, SetStateAffine, Zenon DEF ChangeState, Registered
<1>5. ASSUME NEW t \in Threads, NEW m \in Masks, ChangeAffinity(t, m) PROVE Kept1
  BY <1>1, <1>5, SetAffinityOK DEF ChangeAffinity, Registered, Masks
<1>6. ASSUME NEW t \in Threads, NEW p \in Priorities, ChangePriority(t, p) PROVE Kept1
  BY <1>1, <1>6, SetPriorityOK DEF ChangePriority
<1>7. ASSUME NEW c \in OnlineCpus, NEW x, Pick(c, x) PROVE Kept1
  BY <1>1, <1>7, PickOK DEF Pick, PickKept
<1>8. ASSUME NEW t \in Threads, NEW c, Cancel(t, c) PROVE Kept1
  BY <1>1, <1>8, CancelOK DEF Cancel
<1>10. Kept1 => PolicyInv'
  BY <1>1 DEF PolicyInv, OnlineCpus
<1> HIDE DEF Kept1
<1>11. ASSUME NEW n \in 1 .. NCpus, ExpandCpuCount(n) PROVE PolicyInv'
  <2>1. /\ cpu_count < n /\ cpu_count' = n
        /\ policy' = [policy EXCEPT !.queue = [c \in AllCpus |-> IF c \in cpu_count .. n - 1 THEN Empty ELSE @[c]]]
    BY <1>1, <1>11, PolicyCapacities DEF ExpandCpuCount
  <2>2. Tables(policy') /\ Affine(policy', 0 .. n - 1)
    BY <1>1, <2>1, ExpandOK DEF OnlineCpus
  <2> QED BY <1>11, <2>1, <2>2 DEF PolicyInv, OnlineCpus
<1>12. CASE UNCHANGED pvars
  BY <1>1, <1>12 DEF pvars, PolicyInv, OnlineCpus
<1> QED BY <1>2, <1>3, <1>4, <1>5, <1>6, <1>7, <1>8, <1>10, <1>11, <1>12, Zenon DEF PolicyNext

\* The invariant gives what the runs check: the tables agree.
LEMMA InvGivesTables == PolicyInv => QueuesMatchTable
<1> SUFFICES ASSUME PolicyInv PROVE QueuesMatchTable
  OBVIOUS
<1>1. cpu_count \in 1 .. NCpus /\ Tables(policy) /\ Affine(policy, OnlineCpus) /\ policy.stat \in [Threads -> StatRecords]
  BY DEF PolicyInv, Tables, PolicyRecords
<1>2. ASSUME NEW c \in AllCpus
      PROVE  LET q == policy.queue[c] IN
             /\ IsInjective(q.ids)
             /\ Range(q.ids) = {t \in Registered(policy) : policy.stat[t].home = c}
             /\ q.cursor < Len(q.ids) \/ q = Empty
             /\ Range(q.ids) \subseteq Threads /\ Len(q.ids) <= NSlots
  <2>1. PICK q : q = policy.queue[c]
    BY Zenon
  <2>2. /\ QueueOK(q) /\ q.ids \in Seq(Threads) /\ DOMAIN q.ids = 1 .. Len(q.ids)
        /\ \A t \in Threads : QueueContains(q, t) <=> (policy.stat[t].used /\ policy.stat[t].home = c)
    BY <1>1, <2>1 DEF Tables, QueueOK, QueueRecords
  <2>3. Len(q.ids) <= NSlots
    BY <1>1, <2>1, QueueFits
  <2>4. Range(q.ids) \subseteq Threads /\ \A t \in Threads : t \in Range(q.ids) <=> QueueContains(q, t)
    BY <2>2 DEF Range, QueueContains
  <2>5. Range(q.ids) = {t \in Registered(policy) : policy.stat[t].home = c}
    BY <2>2, <2>4 DEF Registered
  <2> QED BY <2>1, <2>2, <2>3, <2>4, <2>5 DEF QueueOK
<1>3. PolicyTypeOK
  BY <1>1, <1>2 DEF PolicyTypeOK, StatRecords
<1>4. \A t \in Registered(policy) :
        policy.stat[t].home \in policy.stat[t].affinity /\ policy.stat[t].affinity \subseteq OnlineCpus
  BY <1>1 DEF Affine, Registered
<1> QED BY <1>2, <1>3, <1>4 DEF QueuesMatchTable

\* And pick_next() keeps its promise in every such state.
LEMMA InvGivesBest == PolicyInv => PickIsBest
<1> SUFFICES ASSUME PolicyInv, NEW c \in OnlineCpus, NEW x \in Threads \cup {NoThread}
             PROVE  LET D == {t \in Registered(policy) : /\ t # x /\ policy.stat[t].state = "Ready"
                                                         /\ c \in policy.stat[t].affinity}
                        Local == {t \in D : policy.stat[t].home = c}
                        Pool == IF Local # {} THEN Local ELSE D
                        best == {t \in Pool : \A u \in Pool : policy.stat[t].priority >= policy.stat[u].priority}
                        after == PickNext(policy, OnlineCpus, c, x)
                    IN  IF D = {} THEN after = policy
                        ELSE \E t \in best :
                               after.stat = [policy.stat EXCEPT
                                               ![t] = [@ EXCEPT !.state = "Running", !.last = c, !.home = c]]
  BY Zenon DEF PickIsBest
<1>1. Tables(policy) /\ Affine(policy, OnlineCpus) /\ OnlineCpus \in SUBSET AllCpus /\ c \in AllCpus
  BY PolicyCapacities DEF PolicyInv, OnlineCpus, AllCpus
<1>2. PICK Q, t : Q = PickNext(policy, OnlineCpus, c, x) /\ t = Picked(policy, OnlineCpus, c, x)
  BY Zenon
<1>3. PickKept(policy, OnlineCpus, c, x, Q, t)
  BY <1>1, <1>2, PickOK
<1> DEFINE D == {u \in Registered(policy) : /\ u # x /\ policy.stat[u].state = "Ready"
                                            /\ c \in policy.stat[u].affinity}
           Local == {u \in D : policy.stat[u].home = c}
           Pool == IF Local # {} THEN Local ELSE D
           best == {u \in Pool : \A v \in Pool : policy.stat[u].priority >= policy.stat[v].priority}
<1>4. D = Runnable(policy, c, x)
  BY DEF Registered, Runnable, Dispatchable
<1>5. Local = LocalOnes(policy, c, x)
  <2> HIDE DEF D
  <2> QED BY <1>4 DEF LocalOnes
<1>6. Pool = Choice(policy, c, x)
  <2> HIDE DEF D, Local
  <2> QED BY <1>4, <1>5 DEF Choice
<1>7. best = Foremost(policy, Choice(policy, c, x))
  <2> HIDE DEF Pool
  <2> QED BY <1>6 DEF Foremost
<1> HIDE DEF D, best
<1>8. IF D = {} THEN Q = policy ELSE t \in best /\ Q.stat = RunsOn(policy, t, c)
  BY <1>3, <1>4, <1>7 DEF PickKept
<1>9. IF D = {} THEN Q = policy
      ELSE \E u \in best : Q.stat = [policy.stat EXCEPT
                                       ![u] = [@ EXCEPT !.state = "Running", !.last = c, !.home = c]]
  BY <1>8, Zenon DEF RunsOn
<1> QED BY <1>2, <1>9, Zenon DEF D, best

\* Whatever calls are made, by any number of threads on any number of processors, the
\* thread table and the run queues of scheduler2.cpp agree, and pick_next() takes a
\* thread of the highest priority from its own queue, or else from all of them.
THEOREM PolicyStaysExact == PolicySpec => []PolicyExact
<1>1. PolicyInv => PolicyExact
  BY InvGivesTables, InvGivesBest DEF PolicyExact
<1> QED BY <1>1, PolicyInvInit, PolicyInvNext, PTL DEF PolicySpec
===============================================================================
