-------------------------- MODULE SharedMemoryProofs --------------------------
(***************************************************************************)
(* Shared memory keeps its frames, its counts and its views exact, for     *)
(* every number of frames, objects, grants and processes.                  *)
(***************************************************************************)
EXTENDS SharedMemory, FiniteSetTheorems, WellFoundedInduction, TLAPS

\* A set of naturals has a least element, which is what Min chooses.
LEMMA MinOfNaturals ==
  ASSUME NEW S \in SUBSET Nat, S # {}
  PROVE  Min(S) \in S
<1> DEFINE Less == {ss \in Nat \X Nat : ss[1] < ss[2]}
<1>1. IsWellFoundedOn(Less, Nat)
  BY NatLessThanWellFounded DEF OpToRel
<1>2. \A a, b \in Nat : a < b => <<a, b>> \in Less
  OBVIOUS
<1>3. PICK x \in S : \A y \in S : ~(<<y, x>> \in Less)
  <2> HIDE DEF Less
  <2> QED BY <1>1, WFMin, Zenon
<1>4. ASSUME NEW y \in S PROVE x <= y
  <2>1. x \in Nat /\ y \in Nat /\ ~(y < x)
    <3> HIDE DEF Less
    <3> QED BY <1>2, <1>3, <1>4, Zenon
  <2> QED BY <2>1
<1> QED BY <1>4, Zenon DEF Min

-------------------------------------------------------------------------------
\* An object in use, whose views belong to the processes in M: counts are the views,
\* a process has one entry that counts, and the owner has none besides its own.
GrantRecords == [pid : Sharers \cup {NoSharer}, open : BOOLEAN, mappings : Nat]
ObjectRecords ==
  [active : BOOLEAN, generation : Nat, owner : Sharers \cup {NoSharer}, frames : SUBSET Frames,
   owner_open : BOOLEAN, owner_mappings : Nat, grants : [Slots -> GrantRecords]]
Count(p, M) == IF p \in M THEN 1 ELSE 0
AccessOK(ob, M) ==
  /\ ob \in ObjectRecords /\ ob.owner \in Sharers /\ M \subseteq Sharers
  /\ ob.owner_mappings = Count(ob.owner, M)
  /\ \A s \in Slots :
       /\ ob.grants[s].pid # ob.owner
       /\ ob.grants[s].pid = NoSharer => ~LiveGrant(ob.grants[s])
       /\ LiveGrant(ob.grants[s]) => ob.grants[s].mappings = Count(ob.grants[s].pid, M)
  /\ \A s, t \in Slots : /\ LiveGrant(ob.grants[s]) /\ LiveGrant(ob.grants[t])
                         /\ ob.grants[s].pid = ob.grants[t].pid
                         => s = t
  /\ \A p \in M : p = ob.owner \/ HasGrant(ob, p)
ObjectOK(ob, M) ==
  IF ob.active THEN AccessOK(ob, M) /\ HasLiveAccess(ob)
  ELSE ob \in ObjectRecords /\ ob = FreeObject(ob.generation) /\ M = {}

\* find_grant() finds the entry of a process that counts.
LEMMA FindGrantFinds ==
  ASSUME NEW ob, NEW M, AccessOK(ob, M), NEW p, HasGrant(ob, p)
  PROVE  /\ FindGrant(ob, p) \in Slots
         /\ ob.grants[FindGrant(ob, p)].pid = p /\ LiveGrant(ob.grants[FindGrant(ob, p)])
         /\ p \in Sharers /\ p # ob.owner
         /\ ob.grants[FindGrant(ob, p)].mappings = Count(p, M)
         /\ \A t \in Slots : ob.grants[t].pid = p /\ LiveGrant(ob.grants[t]) => t = FindGrant(ob, p)
<1> DEFINE S == {s \in Slots : ob.grants[s].pid = p /\ LiveGrant(ob.grants[s])}
<1>1. S \in SUBSET Nat /\ S # {}
  BY ShmCapacities DEF HasGrant, Slots
<1>2. Min(S) \in S
  <2> HIDE DEF S
  <2> QED BY <1>1, MinOfNaturals
<1>3. /\ FindGrant(ob, p) \in Slots
      /\ ob.grants[FindGrant(ob, p)].pid = p /\ LiveGrant(ob.grants[FindGrant(ob, p)])
  BY <1>2 DEF FindGrant
<1>4. ob.grants[FindGrant(ob, p)] \in GrantRecords
  BY <1>3 DEF AccessOK, ObjectRecords
<1> QED BY <1>3, <1>4, NoSharerIsNone DEF AccessOK, GrantRecords

\* An entry of the table is replaced: what must hold of the new one.
LEMMA EntryReplaced ==
  ASSUME NEW ob, NEW M, AccessOK(ob, M), NEW s \in Slots, NEW gr \in GrantRecords,
         NEW N \in SUBSET Sharers, \A p \in Sharers : p # gr.pid => (p \in M <=> p \in N),
         gr.pid \in Sharers, gr.pid # ob.owner,
         \A t \in Slots \ {s} : ob.grants[t].pid = gr.pid => ~LiveGrant(ob.grants[t]),
         ob.grants[s].pid \in {gr.pid, NoSharer},
         LiveGrant(gr) => gr.mappings = Count(gr.pid, N), gr.pid \in N => LiveGrant(gr)
  PROVE  AccessOK([ob EXCEPT !.grants[s] = gr], N)
<1> DEFINE new == [ob EXCEPT !.grants[s] = gr]
<1>1. /\ new \in ObjectRecords /\ new.owner = ob.owner /\ new.owner_mappings = ob.owner_mappings
      /\ new.grants[s] = gr /\ \A t \in Slots \ {s} : new.grants[t] = ob.grants[t]
  BY DEF AccessOK, ObjectRecords
<1> HIDE DEF new
<1>2. \A t \in Slots : ob.grants[t] \in GrantRecords
  BY DEF AccessOK, ObjectRecords
<1>3. ASSUME NEW t \in Slots
      PROVE  /\ new.grants[t].pid # new.owner
             /\ new.grants[t].pid = NoSharer => ~LiveGrant(new.grants[t])
             /\ LiveGrant(new.grants[t]) => new.grants[t].mappings = Count(new.grants[t].pid, N)
  <2>1. CASE t = s
    BY <1>1, <2>1, NoSharerIsNone DEF AccessOK
  <2>2. CASE t # s
    BY <1>1, <1>2, <2>2 DEF AccessOK, GrantRecords, Count
  <2> QED BY <2>1, <2>2
<1>4. ASSUME NEW t \in Slots, NEW u \in Slots, LiveGrant(new.grants[t]), LiveGrant(new.grants[u]),
             new.grants[t].pid = new.grants[u].pid
      PROVE  t = u
  BY <1>1, <1>4 DEF AccessOK
<1>5. ASSUME NEW p \in N PROVE p = new.owner \/ HasGrant(new, p)
  <2>1. CASE p = gr.pid
    BY <1>1, <2>1 DEF HasGrant
  <2>2. CASE p # gr.pid
    <3>1. p \in M
      BY <2>2
    <3>2. CASE p = ob.owner
      BY <1>1, <3>2
    <3>3. CASE p # ob.owner
      <4>1. PICK t \in Slots : ob.grants[t].pid = p /\ LiveGrant(ob.grants[t])
        BY <3>1, <3>3 DEF AccessOK, HasGrant
      <4>2. t # s
        BY <2>2, <4>1, NoSharerIsNone DEF AccessOK
      <4> QED BY <1>1, <4>1, <4>2 DEF HasGrant
    <3> QED BY <3>2, <3>3
  <2> QED BY <2>1, <2>2
<1>6. new.owner_mappings = Count(new.owner, N) /\ new.owner \in Sharers
  BY <1>1 DEF AccessOK, Count
<1> QED BY <1>1, <1>3, <1>4, <1>5, <1>6 DEF AccessOK, new

\* What the operations on access leave alone.
SameObject(a, b) ==
  a.active = b.active /\ a.generation = b.generation /\ a.owner = b.owner /\ a.frames = b.frames

\* The same of the owner's own reference.
LEMMA OwnerReplaced ==
  ASSUME NEW ob, NEW M, AccessOK(ob, M), NEW new \in ObjectRecords, NEW N \in SUBSET Sharers,
         \A p \in Sharers : p # ob.owner => (p \in M <=> p \in N),
         SameObject(new, ob), new.grants = ob.grants, new.owner_mappings = Count(ob.owner, N)
  PROVE  AccessOK(new, N)
<1>1. \A s \in Slots : ob.grants[s] \in GrantRecords
  BY DEF AccessOK, ObjectRecords
<1>2. \A p : HasGrant(new, p) <=> HasGrant(ob, p)
  BY Zenon DEF HasGrant
<1>3. \A s \in Slots : LiveGrant(ob.grants[s]) => ob.grants[s].mappings = Count(ob.grants[s].pid, N)
  BY <1>1 DEF AccessOK, GrantRecords, Count
<1> QED BY <1>1, <1>2, <1>3 DEF AccessOK, SameObject

\* close() drops the open reference and leaves the mappings counted.
LEMMA SetOpenKeeps ==
  ASSUME NEW ob, NEW M, AccessOK(ob, M), NEW p \in Sharers, HasAccess(ob, p)
  PROVE  AccessOK(SetOpen(ob, p, FALSE), M) /\ SameObject(SetOpen(ob, p, FALSE), ob)
<1>1. CASE p = ob.owner
  <2>1. /\ SetOpen(ob, p, FALSE) \in ObjectRecords /\ SameObject(SetOpen(ob, p, FALSE), ob)
        /\ SetOpen(ob, p, FALSE).grants = ob.grants
        /\ SetOpen(ob, p, FALSE).owner_mappings = Count(ob.owner, M)
    BY <1>1, Zenon DEF SetOpen, AccessOK, ObjectRecords, SameObject
  <2>2. M \in SUBSET Sharers
    BY DEF AccessOK
  <2> QED BY <2>1, <2>2, OwnerReplaced, Zenon
<1>2. CASE p # ob.owner
  <2> DEFINE s == FindGrant(ob, p)
             gr == [ob.grants[s] EXCEPT !.open = FALSE]
  <2>1. HasGrant(ob, p)
    BY <1>2 DEF HasAccess
  <2>2. /\ s \in Slots /\ ob.grants[s].pid = p /\ LiveGrant(ob.grants[s])
        /\ ob.grants[s].mappings = Count(p, M)
        /\ \A t \in Slots : ob.grants[t].pid = p /\ LiveGrant(ob.grants[t]) => t = s
    BY <2>1, FindGrantFinds
  <2> HIDE DEF s
  <2>3. ob.grants[s] \in GrantRecords
    BY <2>2 DEF AccessOK, ObjectRecords
  <2>4. gr \in GrantRecords /\ gr.pid = p /\ gr.mappings = Count(p, M) /\ gr.open = FALSE
    BY <2>2, <2>3, Zenon DEF GrantRecords
  <2>5. SetOpen(ob, p, FALSE) = [ob EXCEPT !.grants[s] = gr]
    BY <1>2 DEF SetOpen, s
  <2> HIDE DEF gr
  <2>6. M \in SUBSET Sharers
    BY DEF AccessOK
  <2>7. (LiveGrant(gr) => gr.mappings = Count(gr.pid, M)) /\ (gr.pid \in M => LiveGrant(gr))
    BY <2>4 DEF LiveGrant, Count
  <2>8. AccessOK([ob EXCEPT !.grants[s] = gr], M)
    BY <1>2, <2>2, <2>4, <2>6, <2>7, EntryReplaced
  <2>9. SameObject([ob EXCEPT !.grants[s] = gr], ob)
    BY DEF AccessOK, ObjectRecords, SameObject
  <2> QED BY <2>5, <2>8, <2>9, Zenon
<1> QED BY <1>1, <1>2, Zenon

\* acquire() and release() change a count by one, with the view of the process.
LEMMA AddMappingsKeeps ==
  ASSUME NEW ob, NEW M, AccessOK(ob, M), NEW p \in Sharers, HasAccess(ob, p), NEW n \in Int,
         NEW N \in SUBSET Sharers, \A q \in Sharers : q # p => (q \in M <=> q \in N),
         Count(p, N) = Count(p, M) + n, p \in N \/ p \in M
  PROVE  AccessOK(AddMappings(ob, p, n), N) /\ SameObject(AddMappings(ob, p, n), ob)
<1>0. Count(p, N) \in Nat /\ (p \in N => Count(p, N) = 1)
  BY DEF Count
<1>1. CASE p = ob.owner
  <2>1. /\ AddMappings(ob, p, n) \in ObjectRecords /\ SameObject(AddMappings(ob, p, n), ob)
        /\ AddMappings(ob, p, n).grants = ob.grants
        /\ AddMappings(ob, p, n).owner_mappings = Count(ob.owner, N)
    BY <1>0, <1>1 DEF AddMappings, AccessOK, ObjectRecords, SameObject
  <2> QED BY <1>1, <2>1, OwnerReplaced
<1>2. CASE p # ob.owner
  <2> DEFINE s == FindGrant(ob, p)
             gr == [ob.grants[s] EXCEPT !.mappings = @ + n]
  <2>1. HasGrant(ob, p)
    BY <1>2 DEF HasAccess
  <2>2. /\ s \in Slots /\ ob.grants[s].pid = p /\ LiveGrant(ob.grants[s])
        /\ ob.grants[s].mappings = Count(p, M)
        /\ \A t \in Slots : ob.grants[t].pid = p /\ LiveGrant(ob.grants[t]) => t = s
    BY <2>1, FindGrantFinds
  <2> HIDE DEF s
  <2>3. ob.grants[s] \in GrantRecords
    BY <2>2 DEF AccessOK, ObjectRecords
  <2>4. gr \in GrantRecords /\ gr.pid = p /\ gr.mappings = Count(p, N)
    BY <1>0, <2>2, <2>3 DEF GrantRecords
  <2>5. AddMappings(ob, p, n) = [ob EXCEPT !.grants[s] = gr]
    BY <1>2 DEF AddMappings, s
  <2> HIDE DEF gr
  <2>7. (LiveGrant(gr) => gr.mappings = Count(gr.pid, N)) /\ (gr.pid \in N => LiveGrant(gr))
    BY <1>0, <2>4 DEF LiveGrant
  <2>8. AccessOK([ob EXCEPT !.grants[s] = gr], N)
    BY <1>2, <2>2, <2>4, <2>7, EntryReplaced
  <2>9. SameObject([ob EXCEPT !.grants[s] = gr], ob)
    BY DEF AccessOK, ObjectRecords, SameObject
  <2> QED BY <2>5, <2>8, <2>9
<1> QED BY <1>1, <1>2

\* maybe_reclaim() frees an object nobody has access to: nobody maps it either.
LEMMA ReclaimObjectKeeps ==
  ASSUME NEW ob, NEW M, AccessOK(ob, M), ob.active
  PROVE  /\ ObjectOK(ReclaimObject(ob), M)
         /\ ReclaimObject(ob).generation = ob.generation
         /\ \/ HasLiveAccess(ob) /\ ReclaimObject(ob) = ob
            \/ M = {} /\ ReclaimObject(ob) = FreeObject(ob.generation)
<1>1. CASE HasLiveAccess(ob)
  BY <1>1 DEF ReclaimObject, ObjectOK
<1>2. CASE ~HasLiveAccess(ob)
  <2>1. ReclaimObject(ob) = FreeObject(ob.generation)
    BY <1>2 DEF ReclaimObject
  <2>2. M = {}
    BY <1>2 DEF AccessOK, HasLiveAccess, HasGrant, Count
  <2>3. /\ FreeObject(ob.generation) \in ObjectRecords /\ ~FreeObject(ob.generation).active
        /\ FreeObject(ob.generation).generation = ob.generation
    BY DEF FreeObject, NoGrant, AccessOK, ObjectRecords, GrantRecords
  <2> QED BY <2>1, <2>2, <2>3 DEF ObjectOK
<1> QED BY <1>1, <1>2

\* What an object may become when a process gives up its access.
Shrunk(new, ob) ==
  /\ new.generation = ob.generation /\ new.frames \subseteq ob.frames
  /\ new.active => ob.active /\ new.frames = ob.frames

\* An object that is reclaimed when nobody has access is shrunk.
LEMMA ReclaimShrinks ==
  ASSUME NEW ob, NEW kept, NEW N, AccessOK(kept, N), SameObject(kept, ob), ob.active
  PROVE  ObjectOK(ReclaimObject(kept), N) /\ Shrunk(ReclaimObject(kept), ob)
<1>1. kept.active
  BY DEF SameObject
<1>2. FreeObject(kept.generation).frames = {} /\ ~FreeObject(kept.generation).active
  BY DEF FreeObject
<1>3. kept.frames = ob.frames /\ kept.generation = ob.generation
  BY DEF SameObject
<1> QED BY <1>1, <1>2, <1>3, ReclaimObjectKeeps DEF Shrunk

\* release() of a process that has a view.
LEMMA ReleaseKeeps ==
  ASSUME NEW ob, NEW M, ObjectOK(ob, M), NEW p \in M
  PROVE  /\ ObjectOK(Release(ob, p), M \ {p}) /\ Shrunk(Release(ob, p), ob)
<1>1. ob.active /\ AccessOK(ob, M) /\ p \in Sharers
  BY DEF ObjectOK, AccessOK
<1>2. HasAccess(ob, p) /\ Mappings(ob, p) = 1
  <2>1. CASE p = ob.owner
    BY <1>1, <2>1 DEF HasAccess, Mappings, AccessOK, Count
  <2>2. CASE p # ob.owner
    <3>1. HasGrant(ob, p)
      BY <1>1, <2>2 DEF AccessOK
    <3>2. ob.grants[FindGrant(ob, p)].mappings = Count(p, M)
      BY <1>1, <3>1, FindGrantFinds
    <3> QED BY <2>2, <3>1, <3>2 DEF HasAccess, Mappings, Count
  <2> QED BY <2>1, <2>2
<1>3. AccessOK(AddMappings(ob, p, -1), M \ {p}) /\ SameObject(AddMappings(ob, p, -1), ob)
  <2>1. Count(p, M \ {p}) = Count(p, M) + -1
    BY DEF Count
  <2>2. M \ {p} \in SUBSET Sharers /\ -1 \in Int
    BY <1>1 DEF AccessOK
  <2>3. \A q \in Sharers : q # p => (q \in M <=> q \in M \ {p})
    OBVIOUS
  <2> QED BY <1>1, <1>2, <2>1, <2>2, <2>3, AddMappingsKeeps
<1>4. Release(ob, p) = ReclaimObject(AddMappings(ob, p, -1))
  BY <1>2 DEF Release
<1> QED BY <1>1, <1>3, <1>4, ReclaimShrinks

\* map_shared_object() that fails gives back what acquire() took.
LEMMA AcquireReleased ==
  ASSUME NEW ob, NEW M, ObjectOK(ob, M), ob.active, NEW p \in Sharers \ M, Acquires(ob, p)
  PROVE  Release(AddMappings(ob, p, 1), p) = ob
<1> DEFINE more == AddMappings(ob, p, 1)
<1>1. AccessOK(ob, M) /\ HasAccess(ob, p) /\ HasLiveAccess(ob) /\ M \cup {p} \in SUBSET Sharers
  BY DEF ObjectOK, Acquires, AccessOK
<1>2. AccessOK(more, M \cup {p}) /\ SameObject(more, ob)
  <2>1. Count(p, M \cup {p}) = Count(p, M) + 1
    BY DEF Count
  <2>2. \A q \in Sharers : q # p => (q \in M <=> q \in M \cup {p})
    OBVIOUS
  <2> QED BY <1>1, <2>1, <2>2, AddMappingsKeeps
<1>3. HasAccess(more, p) /\ Mappings(more, p) = 1 /\ AddMappings(more, p, -1) = ob
  <2>1. CASE p = ob.owner
    <3>1. ob \in ObjectRecords /\ ob.owner_mappings = 0
      BY <1>1, <2>1 DEF AccessOK, Count
    <3>2. more = [ob EXCEPT !.owner_mappings = 1] /\ more.owner = p /\ more.owner_mappings = 1
      BY <2>1, <3>1 DEF AddMappings, ObjectRecords
    <3>3. AddMappings(more, p, -1) = [more EXCEPT !.owner_mappings = 0]
      BY <3>2 DEF AddMappings
    <3>4. [more EXCEPT !.owner_mappings = 0] = ob
      BY <3>1, <3>2 DEF ObjectRecords
    <3> QED BY <3>2, <3>3, <3>4 DEF HasAccess, Mappings
  <2>2. CASE p # ob.owner
    <3>1. more.owner = ob.owner /\ HasGrant(more, p)
      BY <1>2, <2>2 DEF AccessOK, SameObject
    <3>2. PICK s \in Slots : s = FindGrant(ob, p) /\ ob.grants[s].pid = p /\ LiveGrant(ob.grants[s])
      <4>1. HasGrant(ob, p)
        BY <1>1, <2>2 DEF HasAccess
      <4> QED BY <1>1, <4>1, FindGrantFinds
    <3>3. more = [ob EXCEPT !.grants[s] = [ob.grants[s] EXCEPT !.mappings = @ + 1]]
      BY <2>2, <3>2 DEF AddMappings
    <3>4. PICK t \in Slots : /\ t = FindGrant(more, p) /\ more.grants[t].mappings = Count(p, M \cup {p})
                             /\ more.grants[t].pid = p /\ LiveGrant(more.grants[t])
                             /\ \A u \in Slots : more.grants[u].pid = p /\ LiveGrant(more.grants[u]) => u = t
      BY <1>2, <3>1, FindGrantFinds
    <3>5. ob.grants \in [Slots -> GrantRecords] /\ ob.grants[s] \in GrantRecords /\ ob \in ObjectRecords
      BY <1>1, <3>2 DEF AccessOK, ObjectRecords
    <3>6. more.grants[s] = [ob.grants[s] EXCEPT !.mappings = @ + 1]
      BY <3>3, <3>5 DEF ObjectRecords
    <3>7. more.grants[s].pid = p /\ LiveGrant(more.grants[s])
      BY <3>2, <3>5, <3>6 DEF GrantRecords, LiveGrant
    <3>8. s = t
      BY <3>4, <3>7
    <3>9. AddMappings(more, p, -1) = [more EXCEPT !.grants[s] = [more.grants[s] EXCEPT !.mappings = @ + -1]]
      BY <2>2, <3>1, <3>4, <3>8 DEF AddMappings
    <3>10. [more.grants[s] EXCEPT !.mappings = @ + -1] = ob.grants[s]
      BY <3>5, <3>6 DEF GrantRecords
    <3>11. [more EXCEPT !.grants[s] = ob.grants[s]] = ob
      BY <3>3, <3>5 DEF ObjectRecords
    <3> QED BY <2>2, <3>1, <3>4, <3>9, <3>10, <3>11 DEF HasAccess, Mappings, Count
  <2> QED BY <2>1, <2>2
<1>4. Release(more, p) = ReclaimObject(ob)
  BY <1>3 DEF Release
<1> QED BY <1>1, <1>4 DEF ReclaimObject

\* release_process() drops every reference of a process, whether it had views or not.
LEMMA DropObjectKeeps ==
  ASSUME NEW ob, NEW M, ObjectOK(ob, M), NEW p \in Sharers
  PROVE  ObjectOK(DropObject(ob, p), M \ {p}) /\ Shrunk(DropObject(ob, p), ob)
<1>1. CASE ~ob.active
  BY <1>1 DEF DropObject, ObjectOK, Shrunk
<1>2. CASE ob.active
  <2> DEFINE kept == [ob EXCEPT
            !.owner_open = @ /\ ob.owner # p,
            !.owner_mappings = IF ob.owner = p THEN 0 ELSE @,
            !.grants = [s \in Slots |->
               IF @[s].pid = p THEN [@[s] EXCEPT !.open = FALSE, !.mappings = 0]
               ELSE @[s]]]
             N == M \ {p}
  <2>1. AccessOK(ob, M) /\ ob \in ObjectRecords /\ N \in SUBSET Sharers
    BY <1>2 DEF ObjectOK, AccessOK
  <2>2. \A s \in Slots : ob.grants[s] \in GrantRecords
    BY <2>1 DEF ObjectRecords
  <2>3. /\ SameObject(kept, ob) /\ kept.owner_open \in BOOLEAN
        /\ kept.owner_mappings = IF ob.owner = p THEN 0 ELSE ob.owner_mappings
    BY <2>1 DEF ObjectRecords, SameObject
  <2>4. ASSUME NEW s \in Slots
        PROVE  kept.grants[s] = IF ob.grants[s].pid = p
                                THEN [ob.grants[s] EXCEPT !.open = FALSE, !.mappings = 0]
                                ELSE ob.grants[s]
    BY <2>1 DEF ObjectRecords
  <2>5. \A s \in Slots : kept.grants[s] \in GrantRecords
    <3> HIDE DEF kept
    <3>1. ASSUME NEW gr \in GrantRecords PROVE [gr EXCEPT !.open = FALSE, !.mappings = 0] \in GrantRecords
      BY Zenon DEF GrantRecords
    <3> QED BY <2>2, <2>4, <3>1, Zenon
  <2>6. kept \in ObjectRecords
    <3>1. kept.grants \in [Slots -> GrantRecords]
      BY <2>1, <2>5, Zenon DEF ObjectRecords
    <3>2. kept.owner_mappings \in Nat
      BY <2>1, <2>3 DEF ObjectRecords
    <3> QED BY <2>1, <2>3, <3>1, <3>2, Zenon DEF ObjectRecords
  <2>7. DropObject(ob, p) = ReclaimObject(kept)
    BY <1>2 DEF DropObject
  <2> HIDE DEF kept
  <2>8. \A s \in Slots : /\ kept.grants[s].pid = ob.grants[s].pid
                         /\ ob.grants[s].pid = p => ~LiveGrant(kept.grants[s])
                         /\ ob.grants[s].pid # p => kept.grants[s] = ob.grants[s]
    BY <2>2, <2>4, Zenon DEF GrantRecords, LiveGrant
  <2>9. AccessOK(kept, N)
    <3>1. kept.owner \in Sharers /\ kept.owner_mappings = Count(kept.owner, N)
      BY <2>1, <2>3 DEF AccessOK, SameObject, Count
    <3>2. ASSUME NEW s \in Slots
          PROVE  /\ kept.grants[s].pid # kept.owner
                 /\ kept.grants[s].pid = NoSharer => ~LiveGrant(kept.grants[s])
                 /\ LiveGrant(kept.grants[s]) => kept.grants[s].mappings = Count(kept.grants[s].pid, N)
      BY <2>1, <2>3, <2>8 DEF AccessOK, SameObject, Count
    <3>3. ASSUME NEW s \in Slots, NEW u \in Slots, LiveGrant(kept.grants[s]), LiveGrant(kept.grants[u]),
                 kept.grants[s].pid = kept.grants[u].pid
          PROVE  s = u
      BY <2>1, <2>8, <3>3 DEF AccessOK
    <3>4. ASSUME NEW q \in N PROVE q = kept.owner \/ HasGrant(kept, q)
      BY <2>1, <2>3, <2>8 DEF AccessOK, SameObject, HasGrant
    <3> QED BY <2>1, <2>6, <3>1, <3>2, <3>3, <3>4, Zenon DEF AccessOK
  <2> QED BY <1>2, <2>3, <2>7, <2>9, ReclaimShrinks
<1> QED BY <1>1, <1>2

\* KU_SYS_EXIT releases the view a process has, if any, and then drops its references.
LEMMA ExitKeeps ==
  ASSUME NEW ob, NEW M, ObjectOK(ob, M), NEW p \in Sharers, NEW cleaned,
         cleaned = IF p \in M THEN Release(ob, p) ELSE ob
  PROVE  ObjectOK(DropObject(cleaned, p), M \ {p}) /\ Shrunk(DropObject(cleaned, p), ob)
<1>1. ObjectOK(cleaned, M \ {p}) /\ Shrunk(cleaned, ob)
  <2>1. CASE p \in M
    BY <2>1, ReleaseKeeps
  <2>2. CASE p \notin M
    <3>1. M \ {p} = M
      BY <2>2
    <3> QED BY <2>2, <3>1 DEF Shrunk
  <2> QED BY <2>1, <2>2
<1>2. ObjectOK(DropObject(cleaned, p), (M \ {p}) \ {p}) /\ Shrunk(DropObject(cleaned, p), cleaned)
  BY <1>1, DropObjectKeeps
<1>3. (M \ {p}) \ {p} = M \ {p}
  OBVIOUS
<1> QED BY <1>1, <1>2, <1>3 DEF Shrunk

\* grant() reopens the entry of a process that still maps the object, or takes an
\* unused one: no process ever has two entries that count.
LEMMA GrantKeeps ==
  ASSUME NEW ob, NEW M, ObjectOK(ob, M), ob.active, NEW q \in Sharers, q # ob.owner,
         ~\E s \in Slots : ob.grants[s].pid = q /\ ob.grants[s].open,
         NEW s \in NextEntry(ob, q), NEW new,
         new = [ob EXCEPT !.grants[s] = [@ EXCEPT !.pid = q, !.open = TRUE]]
  PROVE  ObjectOK(new, M) /\ SameObject(new, ob)
<1> DEFINE gr == [ob.grants[s] EXCEPT !.pid = q, !.open = TRUE]
<1>1. AccessOK(ob, M) /\ s \in Slots /\ M \in SUBSET Sharers
  BY DEF ObjectOK, AccessOK, NextEntry, Reusable, UnusedObject
<1>2. \A t \in Slots : ob.grants[t] \in GrantRecords
  BY <1>1 DEF AccessOK, ObjectRecords
<1>3. /\ gr \in GrantRecords /\ gr.pid = q /\ LiveGrant(gr)
      /\ gr.mappings = ob.grants[s].mappings
  BY <1>1, <1>2, Zenon DEF GrantRecords, LiveGrant
<1>4. /\ ob.grants[s].pid \in {q, NoSharer} /\ gr.mappings = Count(q, M)
      /\ \A t \in Slots \ {s} : ob.grants[t].pid = q => ~LiveGrant(ob.grants[t])
  <2>1. CASE Reusable(ob, q) # {}
    <3>1. ob.grants[s].pid = q /\ LiveGrant(ob.grants[s])
      BY <2>1 DEF NextEntry, Reusable, LiveGrant
    <3> QED BY <1>1, <1>3, <3>1 DEF AccessOK
  <2>2. CASE Reusable(ob, q) = {}
    <3>1. ob.grants[s].pid = NoSharer
      BY <2>2 DEF NextEntry, UnusedObject
    <3>2. \A t \in Slots : ob.grants[t].pid = q => ~LiveGrant(ob.grants[t])
      BY <1>2, <2>2 DEF Reusable, LiveGrant, GrantRecords
    <3>3. q \notin M
      BY <1>1, <3>2 DEF AccessOK, HasGrant
    <3>4. ob.grants[s].mappings = 0
      BY <1>1, <1>2, <3>1 DEF AccessOK, LiveGrant, GrantRecords
    <3> QED BY <1>3, <3>1, <3>2, <3>3, <3>4 DEF Count
  <2> QED BY <2>1, <2>2
<1>5. new = [ob EXCEPT !.grants[s] = gr]
  BY <1>1 DEF AccessOK, ObjectRecords
<1> HIDE DEF gr
<1>6. AccessOK([ob EXCEPT !.grants[s] = gr], M)
  BY <1>1, <1>3, <1>4, EntryReplaced
<1>7. /\ SameObject([ob EXCEPT !.grants[s] = gr], ob)
      /\ [ob EXCEPT !.grants[s] = gr].grants[s] = gr
  BY <1>1, Zenon DEF AccessOK, ObjectRecords, SameObject
<1>8. HasLiveAccess(new) /\ new.active
  <2>1. LiveGrant(new.grants[s]) /\ new.active
    BY <1>3, <1>5, <1>7, Zenon DEF SameObject
  <2> QED BY <1>1, <2>1, Zenon DEF HasLiveAccess
<1> QED BY <1>5, <1>6, <1>7, <1>8 DEF ObjectOK

-------------------------------------------------------------------------------
\* The processes that have a view of the object in slot o.
Mappers(o) == {p \in Sharers : Mapped(p, ObjectHandle(o, objects[o].generation))}

\* A process that maps an object has live access to it.
LEMMA MapperHasAccess ==
  ASSUME NEW ob, NEW M, AccessOK(ob, M), NEW p \in M
  PROVE  HasLiveAccess(ob)
<1>1. CASE p = ob.owner
  <2>1. ob.owner_mappings = 1
    BY <1>1 DEF AccessOK, Count
  <2> QED BY <2>1 DEF HasLiveAccess
<1>2. CASE HasGrant(ob, p)
  BY <1>2, Zenon DEF HasGrant, HasLiveAccess
<1> QED BY <1>1, <1>2, Zenon DEF AccessOK

\* The inductive invariant of the object table and the views.
SharedInv ==
  /\ objects \in [Objects -> ObjectRecords]
  /\ free \subseteq Frames /\ ended \subseteq Sharers
  /\ object_handles \subseteq [index : Objects, generation : Nat]
  /\ \A h \in object_handles : h.generation <= objects[h.index].generation
  /\ views \subseteq [pid : Sharers, handle : object_handles, frames : SUBSET Frames]
  /\ \A v \in views : /\ v.pid \notin ended /\ DecodesObject(v.handle)
                      /\ v.frames = objects[v.handle.index].frames
  /\ \A o \in Objects : ObjectOK(objects[o], Mappers(o))
  /\ FramesAccounted

\* All frames are free and nothing is mapped at boot.
LEMMA SharedInvInit == ShmInit => SharedInv
<1> SUFFICES ASSUME ShmInit PROVE SharedInv
  OBVIOUS
<1>1. FreeObject(0) \in ObjectRecords /\ FreeObject(0).frames = {} /\ ~FreeObject(0).active
      /\ FreeObject(0).generation = 0
  BY DEF FreeObject, NoGrant, ObjectRecords, GrantRecords
<1>2. \A o \in Objects : objects[o] = FreeObject(0) /\ Mappers(o) = {}
  BY DEF ShmInit, Mappers, Mapped, ViewsOf
<1>3. objects \in [Objects -> ObjectRecords]
  BY <1>1 DEF ShmInit
<1>4. FramesAccounted
  BY <1>1, <1>2 DEF FramesAccounted, ShmInit
<1> QED BY <1>1, <1>2, <1>3, <1>4 DEF SharedInv, ShmInit, ObjectOK

\* A handle is its slot and its generation; a process that has a view is a mapper.
LEMMA ViewersMap ==
  ASSUME SharedInv, NEW v \in views
  PROVE  /\ v.handle \in [index : Objects, generation : Nat] /\ v.handle.index \in Objects
         /\ v.handle = ObjectHandle(v.handle.index, objects[v.handle.index].generation)
         /\ v.pid \in Mappers(v.handle.index)
<1>1. v.handle \in [index : Objects, generation : Nat] /\ v.pid \in Sharers
  BY DEF SharedInv
<1>2. v.handle = ObjectHandle(v.handle.index, objects[v.handle.index].generation)
  BY <1>1 DEF SharedInv, DecodesObject, ObjectHandle
<1> QED BY <1>1, <1>2 DEF Mappers, Mapped, ViewsOf

\* maybe_reclaim() gives back the frames of what it reclaims, and nothing else.
LEMMA FramesReleased ==
  ASSUME FramesAccounted, \A o \in Objects : objects'[o].frames \subseteq objects[o].frames,
         free' = free \cup Returned(objects, objects')
  PROVE  FramesAccounted'
<1>1. \A f : f \in free' <=> \/ f \in free
                              \/ \E o \in Objects : f \in objects[o].frames /\ f \notin objects'[o].frames
  BY DEF Returned
<1>2. ASSUME NEW o \in Objects
      PROVE  /\ objects'[o].frames \cap free' = {}
             /\ \A q \in Objects \ {o} : objects'[o].frames \cap objects'[q].frames = {}
  BY <1>1 DEF FramesAccounted
<1>3. free' \cup UNION {objects'[o].frames : o \in Objects} = Frames
  <2>1. ASSUME NEW f PROVE f \in Frames <=> f \in free \/ \E o \in Objects : f \in objects[o].frames
    BY DEF FramesAccounted
  <2>2. ASSUME NEW f PROVE f \in free' \cup UNION {objects'[o].frames : o \in Objects} <=> f \in Frames
    BY <1>1, <2>1
  <2> QED BY <2>2
<1> QED BY <1>2, <1>3 DEF FramesAccounted

\* The calls by which processes give up access to objects.
LEMMA AccessGivenUp ==
  ASSUME SharedInv, objects' \in [Objects -> ObjectRecords],
         \A o \in Objects : Shrunk(objects'[o], objects[o]) /\ ObjectOK(objects'[o], Mappers(o)'),
         free' = free \cup Returned(objects, objects'), object_handles' = object_handles,
         views' \subseteq views, ended' \subseteq Sharers, \A v \in views' : v.pid \notin ended'
  PROVE  SharedInv'
<1>1. FramesAccounted'
  BY FramesReleased DEF SharedInv, Shrunk
<1>2. free' \subseteq Frames
  BY <1>1 DEF FramesAccounted
<1>3. \A h \in object_handles' : h.generation <= objects'[h.index].generation
  BY DEF SharedInv, Shrunk
<1>4. ASSUME NEW v \in views'
      PROVE  DecodesObject(v.handle)' /\ v.frames = objects'[v.handle.index].frames
  <2>1. /\ v \in views /\ v.handle.index \in Objects /\ v.pid \in Sharers
        /\ v.handle = ObjectHandle(v.handle.index, objects[v.handle.index].generation)
    BY ViewersMap DEF SharedInv
  <2>2. PICK o \in Objects : o = v.handle.index
    BY <2>1
  <2>3. v.pid \in Mappers(o)'
    BY <2>1, <2>2, Zenon DEF Mappers, Mapped, ViewsOf, Shrunk
  <2>4. objects'[o].active
    BY <2>3 DEF ObjectOK
  <2> QED BY <2>1, <2>2, <2>4 DEF SharedInv, DecodesObject, Shrunk
<1>5. \A o \in Objects : ObjectOK(objects[o], Mappers(o))'
  OBVIOUS
<1> QED BY <1>1, <1>2, <1>3, <1>4, <1>5 DEF SharedInv

\* create() keeps the invariant, with the frames it wants or without.
LEMMA CreateObjectKeeps ==
  ASSUME SharedInv, NEW p \in Sharing, NEW pages \in 1..MaxPages, CreateObject(p, pages)
  PROVE  SharedInv'
<1>1. PICK o \in Objects : o = FirstInactive /\ ~objects[o].active
  <2> DEFINE S == {o \in Objects : ~objects[o].active}
  <2>1. S \in SUBSET Nat /\ S # {}
    BY ShmCapacities DEF CreateObject, Objects
  <2>2. Min(S) \in S
    <3> HIDE DEF S
    <3> QED BY <2>1, MinOfNaturals
  <2> QED BY <2>2, Zenon DEF FirstInactive
<1>2. PICK g \in Nat : g = objects[o].generation + 1 /\ g > objects[o].generation
  BY DEF SharedInv, ObjectRecords
<1>3. UNCHANGED <<views, ended>> /\ p \in Sharers
  BY DEF CreateObject, Sharing
<1>4. objects[o].frames = {} /\ Mappers(o) = {}
  <2>1. objects[o] = FreeObject(objects[o].generation) /\ Mappers(o) = {}
    BY <1>1 DEF SharedInv, ObjectOK
  <2> QED BY <2>1 DEF FreeObject
<1>5. \A v \in views : v.handle.index # o
  BY <1>1 DEF SharedInv, DecodesObject
<1>6. ASSUME NEW new \in ObjectRecords, new.generation = g, ObjectOK(new, {}),
             objects' = [objects EXCEPT ![o] = new], FramesAccounted',
             object_handles' = object_handles \/ object_handles' = object_handles \cup {ObjectHandle(o, g)}
      PROVE  SharedInv'
  <2>1. /\ objects' \in [Objects -> ObjectRecords] /\ objects'[o] = new
        /\ \A x \in Objects \ {o} : objects'[x] = objects[x]
    BY <1>6 DEF SharedInv
  <2>2. /\ object_handles' \subseteq [index : Objects, generation : Nat]
        /\ object_handles \subseteq object_handles'
        /\ \A h \in object_handles' : h \in object_handles \/ (h.index = o /\ h.generation = g)
    BY <1>6 DEF SharedInv, ObjectHandle
  <2>3. \A h \in object_handles' : h.generation <= objects'[h.index].generation
    BY <1>2, <1>6, <2>1, <2>2 DEF SharedInv, ObjectRecords
  <2>4. \A v \in views' : /\ v.pid \notin ended' /\ DecodesObject(v.handle)'
                          /\ v.frames = objects'[v.handle.index].frames
    BY <1>3, <1>5, <2>1 DEF SharedInv, DecodesObject
  <2>5. ASSUME NEW x \in Objects PROVE ObjectOK(objects'[x], Mappers(x)')
    <3>1. CASE x = o
      <4>1. Mappers(o)' = {}
        BY <1>3, <1>5 DEF Mappers, Mapped, ViewsOf, ObjectHandle
      <4> QED BY <1>6, <2>1, <3>1, <4>1
    <3>2. CASE x # o
      <4>1. objects'[x] = objects[x] /\ Mappers(x)' = Mappers(x)
        BY <1>3, <2>1, <3>2 DEF Mappers, Mapped, ViewsOf
      <4> QED BY <4>1 DEF SharedInv
    <3> QED BY <3>1, <3>2
  <2>6. free' \subseteq Frames
    BY <1>6 DEF FramesAccounted
  <2>7. views' \subseteq [pid : Sharers, handle : object_handles', frames : SUBSET Frames]
    BY <1>3, <2>2 DEF SharedInv
  <2> QED BY <1>3, <1>6, <2>1, <2>2, <2>3, <2>4, <2>5, <2>6, <2>7 DEF SharedInv
<1>7. CASE Cardinality(free) >= pages
  <2> DEFINE fs == Lowest(pages)
             new == OccupyObject(g, p, fs)
  <2>1. /\ free' = free \ fs /\ objects' = [objects EXCEPT ![o] = new]
        /\ object_handles' = object_handles \cup {ObjectHandle(o, g)}
    BY <1>1, <1>2, <1>7 DEF CreateObject
  <2>2. fs \subseteq free /\ fs \subseteq Frames
    BY DEF Lowest, SharedInv
  <2> HIDE DEF fs
  <2>3. /\ new \in ObjectRecords /\ new.generation = g /\ new.frames = fs
        /\ new.active /\ new.owner = p /\ new.owner_open /\ new.owner_mappings = 0
        /\ \A s \in Slots : new.grants[s] = NoGrant
    BY <1>2, <1>3, <2>2, Zenon DEF OccupyObject, FreeObject, NoGrant, ObjectRecords, GrantRecords
  <2> HIDE DEF new
  <2>4. ObjectOK(new, {})
    BY <1>3, <2>3, NoSharerIsNone DEF ObjectOK, AccessOK, HasLiveAccess, NoGrant, LiveGrant, Count
  <2>5. FramesAccounted'
    <3>1. objects'[o].frames = fs /\ \A x \in Objects \ {o} : objects'[x].frames = objects[x].frames
      BY <2>1, <2>3 DEF SharedInv
    <3>2. ASSUME NEW x \in Objects
          PROVE  /\ objects'[x].frames \cap free' = {}
                 /\ \A q \in Objects \ {x} : objects'[x].frames \cap objects'[q].frames = {}
      BY <2>1, <2>2, <3>1, ZenonT(30) DEF SharedInv, FramesAccounted
    <3>3. ASSUME NEW f PROVE f \in free' \cup UNION {objects'[x].frames : x \in Objects} <=> f \in Frames
      <4>1. f \in Frames <=> f \in free \/ \E x \in Objects : f \in objects[x].frames
        BY DEF SharedInv, FramesAccounted
      <4>2. (\E x \in Objects : f \in objects'[x].frames) <=> f \in fs \/ \E x \in Objects : f \in objects[x].frames
        BY <1>4, <3>1
      <4> QED BY <2>1, <2>2, <4>1, <4>2
    <3>4. free' \cup UNION {objects'[x].frames : x \in Objects} = Frames
      BY <3>3
    <3> QED BY <3>2, <3>4 DEF FramesAccounted
  <2> QED BY <1>6, <2>1, <2>3, <2>4, <2>5, Zenon
<1>8. CASE ~(Cardinality(free) >= pages)
  <2> DEFINE new == FreeObject(g)
  <2>1. objects' = [objects EXCEPT ![o] = new] /\ UNCHANGED <<free, object_handles>>
    BY <1>1, <1>2, <1>8 DEF CreateObject
  <2>2. new \in ObjectRecords /\ new.generation = g /\ new.frames = {} /\ ObjectOK(new, {})
    BY <1>2 DEF ObjectOK, FreeObject, NoGrant, ObjectRecords, GrantRecords
  <2> HIDE DEF new
  <2>3. FramesAccounted'
    <3>1. \A x \in Objects : objects'[x].frames = objects[x].frames
      BY <1>4, <2>1, <2>2, Zenon DEF SharedInv
    <3> QED BY <2>1, <3>1 DEF SharedInv, FramesAccounted
  <2> QED BY <1>6, <2>1, <2>2, <2>3, Zenon
<1> QED BY <1>7, <1>8

\* The object that a handle names, and what the other slots keep.
LEMMA NamedObject ==
  ASSUME SharedInv, NEW h \in object_handles, DecodesObject(h)
  PROVE  /\ h.index \in Objects /\ h = ObjectHandle(h.index, objects[h.index].generation)
         /\ objects[h.index].active /\ ObjectOK(objects[h.index], Mappers(h.index))
         /\ \A p \in Sharers : Mapped(p, h) <=> p \in Mappers(h.index)
<1>1. h \in [index : Objects, generation : Nat]
  BY DEF SharedInv
<1>2. h = ObjectHandle(h.index, objects[h.index].generation)
  BY <1>1 DEF DecodesObject, ObjectHandle
<1> QED BY <1>1, <1>2, Zenon DEF SharedInv, DecodesObject, Mappers

\* grant() keeps the invariant.
LEMMA GrantObjectKeeps ==
  ASSUME SharedInv, NEW p \in Sharing, NEW h \in object_handles, NEW q \in Sharers, GrantObject(p, h, q)
  PROVE  SharedInv'
<1>1. PICK o \in Objects : /\ o = h.index /\ objects[o].active /\ objects[o].owner = p
                           /\ ObjectOK(objects[o], Mappers(o))
  BY NamedObject DEF GrantObject
<1>2. PICK s \in NextEntry(objects[o], q) :
         objects' = [objects EXCEPT ![o].grants[s] = [@ EXCEPT !.pid = q, !.open = TRUE]]
  <2> DEFINE S == NextEntry(objects[o], q)
  <2>1. S \in SUBSET Nat /\ S # {}
    <3>1. S # {}
      BY <1>1 DEF GrantObject
    <3>2. S \subseteq Slots
      BY DEF NextEntry, Reusable, UnusedObject
    <3>3. Slots \subseteq Nat
      BY ShmCapacities DEF Slots
    <3> QED BY <3>1, <3>2, <3>3, Zenon
  <2>2. Min(S) \in S
    <3> HIDE DEF S
    <3> QED BY <2>1, MinOfNaturals
  <2> QED BY <1>1, <2>2, Zenon DEF GrantObject
<1>3. PICK new : new = [objects[o] EXCEPT !.grants[s] = [@ EXCEPT !.pid = q, !.open = TRUE]]
  BY Zenon
<1>4. ObjectOK(new, Mappers(o)) /\ SameObject(new, objects[o])
  <2>1. q # objects[o].owner /\ ~\E t \in Slots : objects[o].grants[t].pid = q /\ objects[o].grants[t].open
    BY <1>1 DEF GrantObject
  <2> QED BY <1>1, <1>3, <2>1, GrantKeeps, Zenon
<1>5. UNCHANGED <<free, views, ended, object_handles>>
  BY DEF GrantObject
<1>6. objects' = [objects EXCEPT ![o] = new]
  BY <1>2, <1>3 DEF SharedInv
<1>7. /\ objects' \in [Objects -> ObjectRecords] /\ objects'[o] = new
      /\ \A x \in Objects \ {o} : objects'[x] = objects[x]
  <2>1. new \in ObjectRecords
    BY <1>4 DEF ObjectOK, AccessOK
  <2> QED BY <1>6, <2>1 DEF SharedInv
<1>8. \A x \in Objects : SameObject(objects'[x], objects[x])
  BY <1>4, <1>7 DEF SameObject
<1>9. ASSUME NEW x \in Objects PROVE ObjectOK(objects'[x], Mappers(x)')
  <2>1. Mappers(x)' = Mappers(x)
    BY <1>5, <1>8 DEF Mappers, Mapped, ViewsOf, SameObject
  <2> QED BY <1>4, <1>7, <2>1 DEF SharedInv
<1>10. FramesAccounted'
  BY <1>5, <1>8 DEF SharedInv, FramesAccounted, SameObject
<1>11. \A v \in views' : /\ v.pid \notin ended' /\ DecodesObject(v.handle)'
                         /\ v.frames = objects'[v.handle.index].frames
  BY <1>5, <1>8, ViewersMap DEF SharedInv, DecodesObject, SameObject
<1>12. \A h2 \in object_handles' : h2.generation <= objects'[h2.index].generation
  <2>1. \A h2 \in object_handles : h2.index \in Objects
    BY DEF SharedInv
  <2> QED BY <1>5, <1>8, <2>1 DEF SharedInv, SameObject
<1> QED BY <1>5, <1>7, <1>9, <1>10, <1>11, <1>12 DEF SharedInv

\* map_shared_object() counts the view it makes.
LEMMA MapCallKeeps ==
  ASSUME SharedInv, NEW p \in Sharing, NEW h \in object_handles, MapCall(p, h)
  PROVE  SharedInv'
<1>1. PICK o \in Objects : o = h.index
  BY NamedObject DEF MapCall
<1>2. /\ h = ObjectHandle(o, objects[o].generation) /\ objects[o].active
      /\ ObjectOK(objects[o], Mappers(o)) /\ p \notin Mappers(o) /\ p \in Sharers \ ended
      /\ AccessOK(objects[o], Mappers(o)) /\ HasAccess(objects[o], p)
  BY <1>1, NamedObject DEF MapCall, Sharing, ObjectOK, Acquires
<1>3. PICK new : new = AddMappings(objects[o], p, 1)
  OBVIOUS
<1>4. AccessOK(new, Mappers(o) \cup {p}) /\ SameObject(new, objects[o])
  <2>1. Count(p, Mappers(o) \cup {p}) = Count(p, Mappers(o)) + 1
    BY <1>2 DEF Count
  <2>2. Mappers(o) \cup {p} \in SUBSET Sharers /\ \A q \in Sharers : q # p => (q \in Mappers(o) <=> q \in Mappers(o) \cup {p})
    BY <1>2 DEF Mappers
  <2> QED BY <1>2, <1>3, <2>1, <2>2, AddMappingsKeeps
<1>5. /\ UNCHANGED <<free, ended, object_handles>> /\ views' = views \cup {View(p, h)}
      /\ objects' = [objects EXCEPT ![o] = new]
  BY <1>1, <1>3 DEF MapCall
<1>6. /\ objects' \in [Objects -> ObjectRecords] /\ objects'[o] = new
      /\ \A x \in Objects \ {o} : objects'[x] = objects[x]
  <2>1. new \in ObjectRecords
    BY <1>4 DEF AccessOK
  <2> QED BY <1>5, <2>1 DEF SharedInv
<1>7. \A x \in Objects : SameObject(objects'[x], objects[x])
  BY <1>4, <1>6 DEF SameObject
<1>8. /\ View(p, h).pid = p /\ View(p, h).handle = h /\ View(p, h).frames = objects[o].frames
      /\ View(p, h) \in [pid : Sharers, handle : object_handles, frames : SUBSET Frames]
  BY <1>1, <1>2, Zenon DEF View, SharedInv, ObjectRecords
<1>9. ASSUME NEW x \in Objects PROVE ObjectOK(objects'[x], Mappers(x)')
  <2>1. CASE x = o
    <3>1. Mappers(o)' = Mappers(o) \cup {p}
      BY <1>2, <1>5, <1>7, <1>8, SMTT(30) DEF Mappers, Mapped, ViewsOf, SameObject
    <3>2. new.active /\ HasLiveAccess(new)
      <4>1. new.active
        BY <1>2, <1>4, Zenon DEF SameObject
      <4> QED BY <1>4, <4>1, MapperHasAccess
    <3> QED BY <1>4, <1>6, <2>1, <3>1, <3>2 DEF ObjectOK
  <2>2. CASE x # o
    <3>1. ObjectHandle(x, objects[x].generation) # h
      BY <1>1, <1>2, <2>2 DEF ObjectHandle
    <3>2. objects'[x] = objects[x] /\ Mappers(x)' = Mappers(x)
      BY <1>5, <1>6, <1>8, <2>2, <3>1 DEF Mappers, Mapped, ViewsOf
    <3> QED BY <3>2 DEF SharedInv
  <2> QED BY <2>1, <2>2
<1>10. FramesAccounted'
  BY <1>5, <1>7 DEF SharedInv, FramesAccounted, SameObject
<1>11. ASSUME NEW v \in views'
       PROVE  /\ v.pid \notin ended' /\ DecodesObject(v.handle)'
              /\ v.frames = objects'[v.handle.index].frames
  <2>1. CASE v \in views
    <3>1. v.pid \notin ended /\ DecodesObject(v.handle) /\ v.handle.index \in Objects
          /\ v.frames = objects[v.handle.index].frames
      BY <2>1, ViewersMap DEF SharedInv
    <3>2. SameObject(objects'[v.handle.index], objects[v.handle.index])
      BY <1>7, <3>1, Zenon
    <3> QED BY <1>5, <3>1, <3>2, Zenon DEF DecodesObject, SameObject
  <2>2. CASE v = View(p, h)
    <3>1. v.pid = p /\ v.handle = h /\ v.frames = objects[o].frames /\ DecodesObject(h)
      BY <1>8, <2>2, Zenon DEF MapCall
    <3>2. SameObject(objects'[o], objects[o])
      BY <1>7
    <3>3. DecodesObject(h)' /\ objects'[h.index].frames = objects[o].frames
      BY <1>1, <3>1, <3>2 DEF DecodesObject, SameObject
    <3> QED BY <1>2, <1>5, <1>1, <3>1, <3>3, Zenon
  <2> QED BY <1>5, <2>1, <2>2
<1>12. \A h2 \in object_handles' : h2.generation <= objects'[h2.index].generation
  <2>1. \A h2 \in object_handles : h2.index \in Objects
    BY DEF SharedInv
  <2> QED BY <1>5, <1>7, <2>1 DEF SharedInv, SameObject
<1> QED BY <1>5, <1>6, <1>8, <1>9, <1>10, <1>11, <1>12 DEF SharedInv

\* A call that leaves the table and the views as they were.
LEMMA NothingGivenUp ==
  ASSUME SharedInv, objects' = objects, free' = free \cup Returned(objects, objects'),
         UNCHANGED <<views, ended, object_handles>>
  PROVE  SharedInv'
<1>1. \A o \in Objects : Mappers(o)' = Mappers(o)
  BY DEF Mappers, Mapped, ViewsOf
<1>2. \A o \in Objects : Shrunk(objects'[o], objects[o]) /\ ObjectOK(objects'[o], Mappers(o)')
  BY <1>1 DEF SharedInv, Shrunk
<1> QED BY <1>2, AccessGivenUp, Zenon DEF SharedInv

\* map_shared_object() that fails changes nothing.
LEMMA MapFailsKeeps ==
  ASSUME SharedInv, NEW p \in Sharing, NEW h \in object_handles, MapFails(p, h)
  PROVE  SharedInv'
<1>1. /\ h.index \in Objects /\ objects[h.index].active
      /\ ObjectOK(objects[h.index], Mappers(h.index)) /\ p \in Sharers \ Mappers(h.index)
  BY NamedObject DEF MapFails, Sharing
<1>2. Release(AddMappings(objects[h.index], p, 1), p) = objects[h.index]
  BY <1>1, AcquireReleased DEF MapFails
<1>3. objects' = objects
  BY <1>1, <1>2 DEF MapFails, SharedInv
<1> QED BY <1>3, NothingGivenUp DEF MapFails

\* close() keeps the invariant.
LEMMA CloseObjectKeeps ==
  ASSUME SharedInv, NEW p \in Sharing, NEW h \in object_handles, CloseObject(p, h)
  PROVE  SharedInv'
<1>1. PICK o \in Objects : o = h.index /\ objects[o].active /\ AccessOK(objects[o], Mappers(o))
  BY NamedObject DEF CloseObject, ObjectOK
<1>2. PICK kept : kept = SetOpen(objects[o], p, FALSE)
  BY Zenon
<1>3. AccessOK(kept, Mappers(o)) /\ SameObject(kept, objects[o])
  BY <1>1, <1>2, SetOpenKeeps, Zenon DEF CloseObject, Sharing
<1>4. PICK new : new = ReclaimObject(kept)
  OBVIOUS
<1>5. ObjectOK(new, Mappers(o)) /\ Shrunk(new, objects[o]) /\ new \in ObjectRecords
  BY <1>1, <1>3, <1>4, ReclaimShrinks, Zenon DEF ObjectOK, AccessOK
<1>6. objects' = [objects EXCEPT ![o] = new]
  BY <1>1, <1>2, <1>4 DEF CloseObject
<1>7. ASSUME NEW x \in Objects
      PROVE  Shrunk(objects'[x], objects[x]) /\ ObjectOK(objects'[x], Mappers(x)')
  <2>1. IF x = o THEN objects'[x] = new ELSE objects'[x] = objects[x]
    BY <1>6, Zenon DEF SharedInv
  <2>2. objects'[x].generation = objects[x].generation
    BY <1>5, <2>1 DEF Shrunk
  <2>3. Mappers(x)' = Mappers(x)
    BY <2>2, Zenon DEF Mappers, Mapped, ViewsOf, CloseObject
  <2> QED BY <1>5, <2>1, <2>3, Zenon DEF SharedInv, Shrunk
<1>8. objects' \in [Objects -> ObjectRecords]
  BY <1>5, <1>6 DEF SharedInv
<1>9. ended' \subseteq Sharers /\ \A v \in views' : v.pid \notin ended'
  BY DEF CloseObject, SharedInv
<1> QED BY <1>7, <1>8, <1>9, AccessGivenUp, Zenon DEF CloseObject

\* unmap_shared_object() takes a view and its count.
LEMMA UnmapCallKeeps ==
  ASSUME SharedInv, NEW p \in Sharing, NEW h \in object_handles, UnmapCall(p, h)
  PROVE  SharedInv'
<1>0. objects \in [Objects -> ObjectRecords]
  BY Zenon DEF SharedInv
<1>1. DecodesObject(h) /\ p \in Sharers
  BY DEF UnmapCall, Mapped, ViewsOf, SharedInv, Sharing
<1>2. PICK o \in Objects : /\ o = h.index /\ h = ObjectHandle(o, objects[o].generation)
                           /\ ObjectOK(objects[o], Mappers(o)) /\ p \in Mappers(o)
  BY <1>1, NamedObject DEF UnmapCall
<1>3. PICK new : new = Release(objects[o], p)
  BY Zenon
<1>4. ObjectOK(new, Mappers(o) \ {p}) /\ Shrunk(new, objects[o]) /\ new \in ObjectRecords
  <2>1. ObjectOK(new, Mappers(o) \ {p}) /\ Shrunk(new, objects[o])
    BY <1>2, <1>3, ReleaseKeeps, Zenon
  <2>2. CASE new.active
    BY <2>1, <2>2, Zenon DEF ObjectOK, AccessOK
  <2>3. CASE ~new.active
    BY <2>1, <2>3, Zenon DEF ObjectOK
  <2> QED BY <2>2, <2>3
<1>5. objects' = [objects EXCEPT ![o] = new]
  BY <1>1, <1>2, <1>3, Zenon DEF UnmapCall
<1>6. views' = {v \in views : ~(v.pid = p /\ v.handle = h)}
  BY SMTT(30) DEF UnmapCall
<1>7. ASSUME NEW x \in Objects
      PROVE  Shrunk(objects'[x], objects[x]) /\ ObjectOK(objects'[x], Mappers(x)')
  <2>1. IF x = o THEN objects'[x] = new ELSE objects'[x] = objects[x]
    BY <1>0, <1>5
  <2>2. objects'[x].generation = objects[x].generation
    BY <1>4, <2>1 DEF Shrunk
  <2>3. x = o => Mappers(x)' = Mappers(o) \ {p}
    BY <1>2, <1>6, <2>2, Zenon DEF Mappers, Mapped, ViewsOf
  <2>4. x # o => Mappers(x)' = Mappers(x)
    <3>1. x # o => ObjectHandle(x, objects[x].generation) # h
      BY <1>2 DEF ObjectHandle
    <3> QED BY <1>6, <2>2, <3>1 DEF Mappers, Mapped, ViewsOf
  <2> QED BY <1>4, <2>1, <2>3, <2>4, Zenon DEF SharedInv, Shrunk
<1>8. objects' \in [Objects -> ObjectRecords]
  BY <1>0, <1>4, <1>5
<1>9. ended' \subseteq Sharers /\ views' \subseteq views /\ \A v \in views' : v.pid \notin ended'
  BY <1>6 DEF UnmapCall, SharedInv
<1> QED BY <1>7, <1>8, <1>9, AccessGivenUp DEF UnmapCall

\* KU_SYS_EXIT keeps the invariant in every slot at once.
LEMMA ExitCallKeeps ==
  ASSUME SharedInv, NEW p \in Sharing, Exit(p)
  PROVE  SharedInv'
<1>1. p \in Sharers
  BY DEF Sharing
<1>2. ASSUME NEW x \in Objects
      PROVE  /\ Shrunk(objects'[x], objects[x]) /\ ObjectOK(objects'[x], Mappers(x)')
             /\ objects'[x] \in ObjectRecords
  <2>1. objects'[x] = DropObject(AfterCleanup(x, p), p)
    BY DEF Exit
  <2>2. ObjectOK(objects[x], Mappers(x))
    BY DEF SharedInv
  <2>3. AfterCleanup(x, p) = IF p \in Mappers(x) THEN Release(objects[x], p) ELSE objects[x]
    BY <1>1, <2>2 DEF AfterCleanup, Mappers, ObjectOK
  <2>4. ObjectOK(objects'[x], Mappers(x) \ {p}) /\ Shrunk(objects'[x], objects[x])
    BY <1>1, <2>1, <2>2, <2>3, ExitKeeps
  <2>5. Mappers(x)' = Mappers(x) \ {p}
    BY <2>4 DEF Mappers, Mapped, ViewsOf, Exit, Shrunk
  <2> QED BY <2>4, <2>5, Zenon DEF ObjectOK, AccessOK
<1>3. objects' \in [Objects -> ObjectRecords]
  BY <1>2 DEF Exit
<1>4. ended' \subseteq Sharers /\ views' \subseteq views /\ \A v \in views' : v.pid \notin ended'
  BY <1>1 DEF Exit, ViewsOf, SharedInv
<1> QED BY <1>2, <1>3, <1>4, AccessGivenUp DEF Exit

\* The object table in order is an invariant.
LEMMA SharedInvariance == ShmSpec => []SharedInv
<1>1. SharedInv /\ [ShmNext]_shm_vars => SharedInv'
  <2> SUFFICES ASSUME SharedInv, [ShmNext]_shm_vars PROVE SharedInv'
    BY Zenon
  <2>1. CASE UNCHANGED shm_vars
    <3>1. \A o \in Objects : Mappers(o)' = Mappers(o)
      BY <2>1 DEF shm_vars, Mappers, Mapped, ViewsOf
    <3> QED BY <2>1, <3>1 DEF shm_vars, SharedInv, DecodesObject, FramesAccounted
  <2>2. CASE ShmNext
    <3>1. PICK p \in Sharing :
            \/ \E pages \in 1..MaxPages : CreateObject(p, pages)
            \/ \E h \in object_handles, q \in Sharers : GrantObject(p, h, q)
            \/ \E h \in object_handles : MapCall(p, h)
            \/ \E h \in object_handles : MapFails(p, h)
            \/ \E h \in object_handles : UnmapCall(p, h)
            \/ \E h \in object_handles : CloseObject(p, h)
            \/ Exit(p)
      BY <2>2 DEF ShmNext
    <3> QED BY <3>1, CreateObjectKeeps, GrantObjectKeeps, MapCallKeeps, MapFailsKeeps,
               UnmapCallKeeps, CloseObjectKeeps, ExitCallKeeps
  <2> QED BY <2>1, <2>2
<1> QED BY <1>1, SharedInvInit, PTL DEF ShmSpec

\* The invariant says all that the run checks.
LEMMA SharedInvIsExact == SharedInv => SharedExact
<1> SUFFICES ASSUME SharedInv PROVE SharedExact
  OBVIOUS
<1>1. NoFreedFrameMapped
  <2>1. ASSUME NEW v \in views PROVE v.frames \cap free = {}
    BY ViewersMap DEF SharedInv, FramesAccounted
  <2> QED BY <2>1, SMTT(30) DEF NoFreedFrameMapped, SharedInv
<1>2. ShmTypeOK /\ \A p \in ended : ViewsOf(p) = {}
  BY SMTT(30) DEF SharedInv, ShmTypeOK, ObjectRecords, GrantRecords, ViewsOf
<1>3. ASSUME NEW o \in Objects, NEW p \in Sharers, objects[o].active
      PROVE LET ob == objects[o]
                entries == {s \in Slots : ob.grants[s].pid = p /\ LiveGrant(ob.grants[s])}
                expected == IF Mapped(p, ObjectHandle(o, ob.generation)) THEN 1 ELSE 0
            IN  /\ Cardinality(entries) <= 1
                /\ ob.owner = p => ob.owner_mappings = expected /\ entries = {}
                /\ ob.owner # p =>
                     expected = IF entries = {} THEN 0 ELSE ob.grants[FindGrant(ob, p)].mappings
  <2> DEFINE ob == objects[o]
             entries == {s \in Slots : ob.grants[s].pid = p /\ LiveGrant(ob.grants[s])}
             expected == IF Mapped(p, ObjectHandle(o, ob.generation)) THEN 1 ELSE 0
  <2>1. AccessOK(ob, Mappers(o)) /\ expected = Count(p, Mappers(o))
    BY <1>3, Zenon DEF SharedInv, ObjectOK, Mappers, Count
  <2>2. entries = {} <=> ~HasGrant(ob, p)
    BY DEF HasGrant
  <2>3. Cardinality(entries) <= 1
    <3>1. CASE entries = {}
      <4>1. Cardinality(entries) = 0
        BY <3>1, FS_EmptySet, Zenon
      <4> HIDE DEF entries
      <4> QED BY <4>1
    <3>2. CASE entries # {}
      <4>1. entries = {FindGrant(ob, p)}
        <5>1. HasGrant(ob, p)
          BY <2>2, <3>2
        <5> HIDE DEF ob
        <5> QED BY <2>1, <5>1, FindGrantFinds
      <4>2. Cardinality({FindGrant(ob, p)}) = 1
        BY FS_Singleton
      <4>3. Cardinality(entries) = 1
        BY <4>1, <4>2, ZenonT(30)
      <4> HIDE DEF entries
      <4> QED BY <4>3
    <3> QED BY <3>1, <3>2
  <2>4. ASSUME ob.owner = p PROVE ob.owner_mappings = expected /\ entries = {}
    BY <2>1, <2>4 DEF AccessOK
  <2>5. ASSUME ob.owner # p
        PROVE  expected = IF entries = {} THEN 0 ELSE ob.grants[FindGrant(ob, p)].mappings
    <3>1. CASE entries = {}
      <4>1. p \notin Mappers(o)
        BY <2>1, <2>2, <2>5, <3>1, SMTT(30) DEF AccessOK
      <4> QED BY <2>1, <3>1, <4>1, SMTT(30) DEF Count
    <3>2. CASE entries # {}
      <4>1. ob.grants[FindGrant(ob, p)].mappings = Count(p, Mappers(o))
        <5>1. HasGrant(ob, p)
          BY <2>2, <3>2
        <5> HIDE DEF ob
        <5> QED BY <2>1, <5>1, FindGrantFinds, SMTT(30)
      <4> QED BY <2>1, <3>2, <4>1
    <3> QED BY <3>1, <3>2
  <2> QED BY <2>3, <2>4, <2>5
<1>4. CountsMatchViews
  BY <1>2, <1>3, Zenon DEF CountsMatchViews
<1>5. ReclaimedWithLastAccess
  <2>1. ASSUME NEW g PROVE ~HasLiveAccess(FreeObject(g)) /\ ~FreeObject(g).active
    BY DEF HasLiveAccess, FreeObject, NoGrant, LiveGrant
  <2>2. \A o \in Objects : objects[o].active <=> HasLiveAccess(objects[o])
    BY <2>1 DEF SharedInv, ObjectOK
  <2> QED BY <2>2 DEF ReclaimedWithLastAccess, SharedInv
<1> QED BY <1>1, <1>4, <1>5 DEF SharedExact, SharedInv

\* shared_memory.cpp and the calls of runtime.cpp, for any number of frames, objects,
\* entries and processes: no process sees a freed frame, the counts are the views, no
\* frame is lost or owned twice, and a slot is reclaimed with the last access to it.
THEOREM SharedStaysExact == ShmSpec => []SharedExact
BY SharedInvariance, SharedInvIsExact, PTL
===============================================================================
