----------------------------- MODULE SharedMemory -----------------------------
(***************************************************************************)
(* Shared memory: the object table (src/kernel/ipc/shared_memory.cpp) with *)
(* the system calls that use it (src/kernel/user/runtime.cpp) and the      *)
(* frame bitmap it allocates from (src/kernel/memory/physical_memory.cpp). *)
(*                                                                         *)
(* A system call of a process is never preempted by another process        *)
(* (timer_irq_schedule leaves a kernel-mode frame of a process alone) and  *)
(* the table functions hold g_state_lock, so a call is one step.  A view   *)
(* is a RuntimeSharedMapping record together with the page-table entries   *)
(* it describes: the frames that process can touch at the moment.  The     *)
(* virtual address of a view and the bytes in a frame are left out.        *)
(***************************************************************************)
EXTENDS Integers, FiniteSets, FiniteSetsExt

CONSTANTS
  Sharers,        \* process identifiers
  NoSharer,       \* INVALID_PROCESS_ID
  NFrames,        \* frames of the physical memory
  MaxPages,       \* MAX_PAGES_PER_OBJECT
  NObjects,       \* MAX_OBJECTS
  ObjectGrants,   \* MAX_GRANTS_PER_OBJECT
  MaxViews,       \* kMaximumSharedMappingsPerContext
  ObjectCreates   \* bound: create() takes a slot this often

ASSUME NoSharerIsNone == NoSharer \notin Sharers
ASSUME ShmCapacities ==
  {NFrames, MaxPages, NObjects, ObjectGrants, MaxViews, ObjectCreates} \subseteq Nat \ {0}

VARIABLES
  objects,        \* g_objects
  free,           \* frames whose bitmap bit is clear
  views,          \* active g_shared_mappings records, with what they map
  ended,          \* processes that went through KU_SYS_EXIT
  object_handles  \* every handle returned so far

Sharing == Sharers \ ended

shm_vars == <<objects, free, views, ended, object_handles>>

Frames == 1..NFrames
Objects == 1..NObjects
Slots == 1..ObjectGrants

NoGrant == [pid |-> NoSharer, open |-> FALSE, mappings |-> 0]
FreeObject(g) ==
  [active |-> FALSE, generation |-> g, owner |-> NoSharer, frames |-> {},
   owner_open |-> FALSE, owner_mappings |-> 0, grants |-> [s \in Slots |-> NoGrant]]

ShmInit ==
  /\ objects = [o \in Objects |-> FreeObject(0)]
  /\ free = Frames
  /\ views = {} /\ ended = {} /\ object_handles = {}

-------------------------------------------------------------------------------
\* The object table.
\* encode()
ObjectHandle(o, g) == [index |-> o, generation |-> g]
DecodesObject(h) == objects[h.index].active /\ objects[h.index].generation = h.generation

LiveGrant(gr) == gr.open \/ gr.mappings # 0

\* find_grant(): the first entry of p that is open or mapped.
HasGrant(ob, p) == \E s \in Slots : ob.grants[s].pid = p /\ LiveGrant(ob.grants[s])
FindGrant(ob, p) == Min({s \in Slots : ob.grants[s].pid = p /\ LiveGrant(ob.grants[s])})

HasLiveAccess(ob) ==
  \/ ob.owner_open \/ ob.owner_mappings # 0
  \/ \E s \in Slots : LiveGrant(ob.grants[s])

\* access_slot(): the open flag and the mapping count of process p.
HasAccess(ob, p) ==
  IF p = ob.owner THEN ob.owner_open \/ ob.owner_mappings # 0 ELSE HasGrant(ob, p)
IsOpen(ob, p) ==
  IF p = ob.owner THEN ob.owner_open ELSE ob.grants[FindGrant(ob, p)].open
Mappings(ob, p) ==
  IF p = ob.owner THEN ob.owner_mappings ELSE ob.grants[FindGrant(ob, p)].mappings
SetOpen(ob, p, b) ==
  IF p = ob.owner THEN [ob EXCEPT !.owner_open = b]
  ELSE [ob EXCEPT !.grants[FindGrant(ob, p)].open = b]
AddMappings(ob, p, n) ==
  IF p = ob.owner THEN [ob EXCEPT !.owner_mappings = @ + n]
  ELSE [ob EXCEPT !.grants[FindGrant(ob, p)].mappings = @ + n]

\* maybe_reclaim(): what becomes of the object, and the frames it gives back.
ReclaimObject(ob) ==
  IF ob.active /\ ~HasLiveAccess(ob) THEN FreeObject(ob.generation) ELSE ob
Returned(before, after) ==
  UNION {before[o].frames \ after[o].frames : o \in Objects}

\* alloc_frame() n times takes the lowest n free frames.
Lowest(n) == {f \in free : Cardinality({g \in free : g < f}) < n}

\* create().  When the frames run out, those already taken go back, but the
\* slot has a new generation.  CreateObjectLeaks is a mutant that keeps them.
Creates == MapThenSumSet(LAMBDA o : objects[o].generation, Objects)
FirstInactive == Min({o \in Objects : ~objects[o].active})
OccupyObject(g, p, fs) ==
  [FreeObject(g) EXCEPT !.active = TRUE, !.owner = p, !.owner_open = TRUE, !.frames = fs]
CreateObject(p, pages) ==
  /\ \E o \in Objects : ~objects[o].active
  /\ LET o == FirstInactive
         g == objects[o].generation + 1
     IN  /\ Creates < ObjectCreates
         /\ IF Cardinality(free) >= pages
            THEN /\ free' = free \ Lowest(pages)
                 /\ objects' = [objects EXCEPT ![o] = OccupyObject(g, p, Lowest(pages))]
                 /\ object_handles' = object_handles \cup {ObjectHandle(o, g)}
            ELSE /\ objects' = [objects EXCEPT ![o] = FreeObject(g)]
                 /\ UNCHANGED <<free, object_handles>>
  /\ UNCHANGED <<views, ended>>

\* grant(): a process that closed its handle but still maps the object gets its
\* own entry back; any other takes an entry that was never used.  NextEntryNew
\* is a mutant without the first case.
Reusable(ob, q) == {s \in Slots : ob.grants[s].pid = q /\ ob.grants[s].mappings # 0}
UnusedObject(ob) == {s \in Slots : ob.grants[s].pid = NoSharer}
NextEntryNew(ob, q) == UnusedObject(ob)
NextEntry(ob, q) == IF Reusable(ob, q) # {} THEN Reusable(ob, q) ELSE UnusedObject(ob)

GrantObject(p, h, q) ==
  /\ p # q
  /\ DecodesObject(h)
  /\ LET ob == objects[h.index] IN
       /\ ob.owner = p /\ ob.owner_open
       /\ ~\E s \in Slots : ob.grants[s].pid = q /\ ob.grants[s].open
       /\ NextEntry(ob, q) # {}
       /\ LET s == Min(NextEntry(ob, q)) IN
          objects' = [objects EXCEPT ![h.index].grants[s] = [@ EXCEPT !.pid = q, !.open = TRUE]]
  /\ UNCHANGED <<free, views, ended, object_handles>>

\* acquire() succeeds for p on object ob.
Acquires(ob, p) == HasAccess(ob, p) /\ IsOpen(ob, p)

\* release(); with no mapping of p it changes nothing.
Release(ob, p) ==
  IF HasAccess(ob, p) /\ Mappings(ob, p) # 0
  THEN ReclaimObject(AddMappings(ob, p, -1)) ELSE ob

\* close()
CloseObject(p, h) ==
  /\ DecodesObject(h) /\ HasAccess(objects[h.index], p) /\ IsOpen(objects[h.index], p)
  /\ objects' = [objects EXCEPT ![h.index] = ReclaimObject(SetOpen(@, p, FALSE))]
  /\ free' = free \cup Returned(objects, objects')
  /\ UNCHANGED <<views, ended, object_handles>>

-------------------------------------------------------------------------------
\* The system calls of the runtime.
View(p, h) == [pid |-> p, handle |-> h, frames |-> objects[h.index].frames]
ViewsOf(p) == {v \in views : v.pid = p}
Mapped(p, h) == \E v \in ViewsOf(p) : v.handle = h

\* map_shared_object(): acquire, then the pages and the record.
MapCall(p, h) ==
  /\ ~Mapped(p, h)
  /\ Cardinality(ViewsOf(p)) < MaxViews
  /\ DecodesObject(h) /\ Acquires(objects[h.index], p)
  /\ objects' = [objects EXCEPT ![h.index] = AddMappings(@, p, 1)]
  /\ views' = views \cup {View(p, h)}
  /\ UNCHANGED <<free, ended, object_handles>>

\* map_shared_object() when there is no memory for a page table: the pages that
\* were mapped are unmapped and the acquired reference is released.
MapFails(p, h) ==
  /\ ~Mapped(p, h)
  /\ Cardinality(ViewsOf(p)) < MaxViews
  /\ DecodesObject(h) /\ Acquires(objects[h.index], p)
  /\ objects' = [objects EXCEPT ![h.index] = Release(AddMappings(@, p, 1), p)]
  /\ free' = free \cup Returned(objects, objects')
  /\ UNCHANGED <<views, ended, object_handles>>

\* unmap_shared_object(): the record goes whatever release() says.
UnmapCall(p, h) ==
  /\ Mapped(p, h)
  /\ views' = {v \in views : ~(v.pid = p /\ v.handle = h)}
  /\ objects' = IF DecodesObject(h)
                THEN [objects EXCEPT ![h.index] = Release(@, p)] ELSE objects
  /\ free' = free \cup Returned(objects, objects')
  /\ UNCHANGED <<ended, object_handles>>

\* release_process()
DropObject(ob, p) ==
  IF ~ob.active THEN ob
  ELSE ReclaimObject(
         [ob EXCEPT
            !.owner_open = @ /\ ob.owner # p,
            !.owner_mappings = IF ob.owner = p THEN 0 ELSE @,
            !.grants = [s \in Slots |->
               IF @[s].pid = p THEN [@[s] EXCEPT !.open = FALSE, !.mappings = 0]
               ELSE @[s]]])

\* KU_SYS_EXIT: cleanup_shared_mappings() unmaps and releases every view of the
\* process (it has at most one of each object), then release_process() runs.  A
\* fault and a termination by the parent come through the same system call.
AfterCleanup(o, p) ==
  IF objects[o].active /\ Mapped(p, ObjectHandle(o, objects[o].generation))
  THEN Release(objects[o], p) ELSE objects[o]
Exit(p) ==
  /\ ended' = ended \cup {p}
  /\ views' = views \ ViewsOf(p)
  /\ objects' = [o \in Objects |-> DropObject(AfterCleanup(o, p), p)]
  /\ free' = free \cup Returned(objects, objects')
  /\ UNCHANGED object_handles

ShmNext ==
  \E p \in Sharing :
    \/ \E pages \in 1..MaxPages : CreateObject(p, pages)
    \/ \E h \in object_handles, q \in Sharers : GrantObject(p, h, q)
    \/ \E h \in object_handles : MapCall(p, h)
    \/ \E h \in object_handles : MapFails(p, h)
    \/ \E h \in object_handles : UnmapCall(p, h)
    \/ \E h \in object_handles : CloseObject(p, h)
    \/ Exit(p)

ShmSpec == ShmInit /\ [][ShmNext]_shm_vars

-------------------------------------------------------------------------------
\* Every object slot and every view has the declared shape.
ShmTypeOK ==
  /\ objects \in [Objects ->
       [active : BOOLEAN, generation : Nat, owner : Sharers \cup {NoSharer},
        frames : SUBSET Frames, owner_open : BOOLEAN, owner_mappings : Nat,
        grants : [Slots -> [pid : Sharers \cup {NoSharer}, open : BOOLEAN, mappings : Nat]]]]
  /\ free \subseteq Frames /\ ended \subseteq Sharers
  /\ object_handles \subseteq [index : Objects, generation : Nat]
  /\ views \subseteq [pid : Sharers, handle : object_handles, frames : SUBSET Frames]

\* "another authorized process cannot observe a freed frame through a surviving
\* mapping" (docs/DEVELOPERS/API_REFERENCE.md): what any process can touch
\* through a view are exactly the frames of a present object, none of them free.
NoFreedFrameMapped ==
  \A v \in views :
    /\ v.frames \cap free = {}
    /\ DecodesObject(v.handle) /\ v.frames = objects[v.handle.index].frames

\* The mapping counts an object is kept alive by are the views that exist: a
\* process counts one while it has a view, none otherwise, and only in one entry;
\* a process that exited has no view and counts nothing, whatever it had mapped,
\* closed or been granted before.
CountsMatchViews ==
  /\ ShmTypeOK
  /\ \A p \in ended : ViewsOf(p) = {}
  /\ \A o \in Objects, p \in Sharers : objects[o].active =>
       LET ob == objects[o]
           entries == {s \in Slots : ob.grants[s].pid = p /\ LiveGrant(ob.grants[s])}
           expected == IF Mapped(p, ObjectHandle(o, ob.generation)) THEN 1 ELSE 0
       IN  /\ Cardinality(entries) <= 1
           /\ ob.owner = p => ob.owner_mappings = expected /\ entries = {}
           /\ ob.owner # p =>
                expected = IF entries = {} THEN 0 ELSE ob.grants[FindGrant(ob, p)].mappings

\* Physical frames are neither lost nor owned twice: each one is free or belongs
\* to exactly one object, through failed creates, closes and exits.
FramesAccounted ==
  /\ free \cup UNION {objects[o].frames : o \in Objects} = Frames
  /\ \A o \in Objects :
       /\ objects[o].frames \cap free = {}
       /\ \A q \in Objects \ {o} : objects[o].frames \cap objects[q].frames = {}

\* "An object is reclaimed only after its open references and active mappings
\* are gone", and then it is: a slot is in use exactly while somebody may open
\* or has mapped the object, and no handle given out names its next one.
ReclaimedWithLastAccess ==
  \A o \in Objects :
    /\ objects[o].active <=> HasLiveAccess(objects[o])
    /\ \A h \in object_handles : h.index = o => h.generation <= objects[o].generation

\* What the object table and the views of the processes promise together: no
\* view of a freed frame, counts that match the views, frames that are accounted
\* for, and slots that are reclaimed with the last access.
SharedExact == NoFreedFrameMapped /\ CountsMatchViews /\ FramesAccounted /\ ReclaimedWithLastAccess
===============================================================================
