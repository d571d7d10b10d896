-------------------------------- MODULE KuroFs --------------------------------
(***************************************************************************)
(* The native file system (src/kernel/fs/kurofs.cpp): what is on the disk  *)
(* after any operation is interrupted anywhere, and what mount() makes of  *)
(* it.                                                                     *)
(*                                                                         *)
(* The volume is a set of sectors: two superblocks, the allocation bitmap, *)
(* one sector per inode and one per extent.  Every operation is a sequence *)
(* of sector writes and flushes, run one at a time; any of them may fail.  *)
(* A write whose flush has not succeeded may or may not survive a power    *)
(* loss, whatever became of the others.  An extent stands for a contiguous *)
(* run of blocks of any length.  Four inodes share a sector in the code;   *)
(* here each has its own, as inodes of distant numbers have, so that more  *)
(* combinations survive.                                                   *)
(***************************************************************************)
EXTENDS Integers, FiniteSets, Sequences, FiniteSetsExt, SequencesExt

CONSTANTS
  NInodes, NExtents,    \* sizes of the inode table and of the data area
  Names, Data,          \* names of entries, contents of regular files
  EntriesPerBlock,      \* records a directory's extent takes before it grows
  NoIntent,             \* a superblock without a move intent
  Budgets               \* bounds: how many operations, failing requests, power losses
                        \* and restarts that keep the disk's cache a behaviour has

ASSUME Sizes == NInodes >= 4 /\ NExtents >= 3 /\ EntriesPerBlock >= 1
ASSUME Bounds == Budgets \subseteq [ops : Nat, faults : Nat, losses : Nat, resets : Nat]

VARIABLES
  disk,         \* what a read of each sector returns
  versions,     \* what each sector may hold after a power loss
  geometry,     \* the mounted file system's generation, and whether it can move
  state,        \* "up", "down", "boot", "mounting" or "corrupt"
  todo,         \* the writes and flushes the present operation has left
  op,           \* the present operation
  alive,        \* history: inodes whose creation was reported and removal not asked
  contents,     \* history: what each regular file may hold
  left          \* what is left of the budget

vars == <<disk, versions, geometry, state, todo, op, alive, contents, left>>

Inodes == 1 .. NInodes
ROOT_INODE == 1
Extents == 1 .. NExtents
NoExtent == 0
Zero == <<>>
Super == {<<"super", 1>>, <<"super", 2>>}
Bitmap == <<"bitmap", 0>>
Sectors == Super \cup {Bitmap} \cup ({"inode"} \X Inodes) \cup ({"data"} \X Extents)

-------------------------------------------------------------------------------
(***************************************************************************)
(* The namespace on a disk d                                               *)
(***************************************************************************)
Inode(d, i) == d[<<"inode", i>>]
Allocated(d) == {i \in Inodes : Inode(d, i).type # "free"}
Directories(d) == {i \in Inodes : Inode(d, i).type = "directory"}
Entries(d, i) ==
  IF Inode(d, i).extent = NoExtent THEN <<>>
  ELSE SubSeq(d[<<"data", Inode(d, i).extent>>], 1, Inode(d, i).size)
Lookup(d, i, name) == {n \in DOMAIN Entries(d, i) : Entries(d, i)[n].name = name}
Parents(d) ==
  {e \in Directories(d) \X Inodes : \E n \in DOMAIN Entries(d, e[1]) : Entries(d, e[1])[n].child = e[2]}
References(d, c) ==
  {r \in Directories(d) \X (1 .. NInodes) :
     r[2] \in DOMAIN Entries(d, r[1]) /\ Entries(d, r[1])[r[2]].child = c}
Attached(d, c) == References(d, c) # {}
Above(d, i) ==
  LET parents == Parents(d)
      A[k \in 0 .. NInodes] ==
        IF k = 0 THEN {i}
        ELSE LET S == A[k - 1] IN S \cup {e[1] : e \in {e \in parents : e[2] \in S}}
  IN A[NInodes]

\* validate_consistency()
Consistent(d) ==
  /\ \A i \in Allocated(d) :
       /\ Inode(d, i).extent \in d[Bitmap] \cup {NoExtent}
       /\ \A j \in Allocated(d) \ {i} : Inode(d, i).extent \in {NoExtent} \/ Inode(d, i).extent # Inode(d, j).extent
       /\ i # ROOT_INODE =>
            /\ Cardinality(References(d, i)) <= 1
            /\ Inode(d, i).flags = IF Attached(d, i) THEN "live" ELSE "orphan"
  /\ \A i \in Directories(d) : \A n \in DOMAIN Entries(d, i) :
       LET r == Entries(d, i)[n] IN
       /\ r.child \notin {ROOT_INODE, i}
       /\ r.child \in Allocated(d) /\ r.gen = Inode(d, r.child).gen
       /\ Lookup(d, i, r.name) = {n}
  /\ \A e \in Parents(d) : e[2] \notin Above(d, e[1])

-------------------------------------------------------------------------------
(***************************************************************************)
(* Writes and flushes.  A step that fails ends the operation with          *)
(* fail.result, after the steps of fail.cleanup.                           *)
(***************************************************************************)
Flush == <<"flush", 0>>
Fail(result, cleanup) == [result |-> result, cleanup |-> cleanup]
Error == Fail("error", <<>>)
Unmount == Fail("unmount", <<>>)
Committed == Fail("ok", <<>>)

Step(at, put, fail) == [at |-> at, put |-> put, fail |-> fail]
Put(at, put, fail) == <<Step(at, put, fail), Step(Flush, Zero, fail)>>
Give_up(fail) == <<Step(<<"give up", 0>>, Zero, fail)>>

\* The bitmap is read, changed and written back.
Take(e, fail) == Put(Bitmap, [take |-> {e}, free |-> {}], fail)
release_extent(e, fail) ==
  IF e = NoExtent THEN <<>> ELSE Put(Bitmap, [take |-> {}, free |-> {e}], fail)
\* allocate_blocks() of the extent e, which is NoExtent when there is no space.
allocate_blocks(e, fail) ==
  IF e = NoExtent THEN Give_up(fail) ELSE Take(e, fail) \o Put(<<"data", e>>, Zero, fail)
find_free_extent(taken) == IF Extents \subseteq taken THEN NoExtent ELSE Min(Extents \ taken)

Free(gen) ==
  [type |-> "free", flags |-> "none", size |-> 0, extent |-> NoExtent, room |-> 0, gen |-> gen, rev |-> 0]
Revised(inode) == [inode EXCEPT !.rev = @ + 1]
\* UpdateUnrevised is a mutant that does not advance the revision.
UpdateUnrevised(i, inode, fail) == Put(<<"inode", i>>, inode, fail)
update_inode(i, inode, fail) == Put(<<"inode", i>>, Revised(inode), fail)
write_superblock_pair(sb, fail) == Put(<<"super", 2>>, sb, fail) \o Put(<<"super", 1>>, sb, fail)
retire_inode(d, c, fail) ==
  Put(<<"inode", c>>, Free(Inode(d, c).gen + 1), fail)
  \o release_extent(Inode(d, c).extent, fail)

\* The effect of one write.
Written(d, s) ==
  CASE s.at = Bitmap -> [d EXCEPT ![Bitmap] = (@ \cup s.put.take) \ s.put.free]
    [] s.at \in Sectors \ {Bitmap} -> [d EXCEPT ![s.at] = s.put]
    [] OTHER -> d
After(d, steps) == FoldLeft(Written, d, steps)

-------------------------------------------------------------------------------
(***************************************************************************)
(* Operations on regular files and directories, as the steps they take on  *)
(* a disk d                                                                *)
(***************************************************************************)
RoundUp(n) == ((n + EntriesPerBlock - 1) \div EntriesPerBlock) * EntriesPerBlock
Without(entries, n) == SubSeq(entries, 1, n - 1) \o SubSeq(entries, n + 1, Len(entries))
Record(name, c, gen) == [name |-> name, child |-> c, gen |-> gen]

\* The directory inode, with n entries in the extent e.
Holding(inode, n, e, room) == [inode EXCEPT !.size = n, !.extent = e, !.room = room]

Pending(d, c, type) ==
  [type |-> type, flags |-> "pending", size |-> 0, extent |-> NoExtent, room |-> 0,
   gen |-> Inode(d, c).gen, rev |-> 1]

directory_append(d, i, name, c, child, unpublished) ==
  LET dir == Inode(d, i)
      fits == dir.size + 1 <= dir.room
      e == IF fits THEN dir.extent ELSE find_free_extent(d[Bitmap])
      room == IF fits THEN dir.room ELSE IF dir.room = 0 THEN EntriesPerBlock ELSE 2 * dir.room
  IN (IF fits THEN <<>> ELSE allocate_blocks(e, Error))
     \o Put(<<"data", e>>, Append(Entries(d, i), Record(name, c, child.gen)), Error)
     \o update_inode(i, Holding(dir, dir.size + 1, e, room), unpublished)
     \o update_inode(c, [child EXCEPT !.flags = "live"], Committed)
     \o (IF fits THEN <<>> ELSE release_extent(dir.extent, Committed))

\* The child stays pending when it is not certain that its entry is published.
directory_create(d, i, name, c, type) ==
  Put(<<"inode", c>>, Pending(d, c, type), Error)
  \o directory_append(d, i, name, c, Pending(d, c, type), Error)

directory_remove(d, i, n) ==
  LET dir == Inode(d, i)
      last == dir.size = 1
      e == IF last THEN NoExtent ELSE find_free_extent(d[Bitmap])
  IN (IF last THEN <<>>
      ELSE allocate_blocks(e, Error) \o Put(<<"data", e>>, Without(Entries(d, i), n), Error))
     \o update_inode(i, Holding(dir, dir.size - 1, e, RoundUp(dir.size - 1)), Error)
     \o retire_inode(d, Entries(d, i)[n].child, Error)
     \o release_extent(dir.extent, Error)

directory_rename(d, i, n, name) ==
  LET dir == Inode(d, i)
      e == find_free_extent(d[Bitmap])
  IN allocate_blocks(e, Error)
     \o Put(<<"data", e>>, [Entries(d, i) EXCEPT ![n].name = name], Error)
     \o update_inode(i, Holding(dir, dir.size, e, RoundUp(dir.size)), Error)
     \o release_extent(dir.extent, Error)

\* Mutants of the write: WriteUnflushed publishes data that may not be durable,
\* WriteReleasesFirst gives the old extent up before the new one is published.
WriteUnflushed(d, f, v) ==
  LET e == find_free_extent(d[Bitmap])
  IN allocate_blocks(e, Error) \o <<Step(<<"data", e>>, v, Error)>>
     \o update_inode(f, [Inode(d, f) EXCEPT !.size = 1, !.extent = e, !.room = 1], Error)
\* write_inode_data(): the whole resulting file is written elsewhere, then published.
write_inode_data(d, f, v) ==
  LET e == find_free_extent(d[Bitmap])
  IN allocate_blocks(e, Error)
     \o Put(<<"data", e>>, v, Fail("error", release_extent(e, Error)))
     \o update_inode(f, [Inode(d, f) EXCEPT !.size = 1, !.extent = e, !.room = 1], Error)
     \o release_extent(Inode(d, f).extent, Error)

\* resize_inode(), to zero
Truncate(d, f) ==
  update_inode(f, [Inode(d, f) EXCEPT !.size = 0, !.extent = NoExtent, !.room = 0], Error)
  \o release_extent(Inode(d, f).extent, Error)

\* reclaim_orphans()
Orphans(d) ==
  {i \in Allocated(d) : /\ Inode(d, i).flags = "orphan" /\ ~Attached(d, i)
                        /\ ~(Inode(d, i).type = "directory" /\ Inode(d, i).size # 0)}
\* inode_ownership() and the flags disagree: the scan ends with an error.
Misflagged(d) ==
  {i \in Allocated(d) \ {ROOT_INODE} : Inode(d, i).flags = IF Attached(d, i) THEN "orphan" ELSE "live"}
reclaim_orphans(d) ==
  FlattenSeq([k \in Inodes |-> IF k \in Orphans(d) THEN retire_inode(d, k, Error)
                               ELSE IF k \in Misflagged(d) THEN Give_up(Error) ELSE <<>>])

-------------------------------------------------------------------------------
(***************************************************************************)
(* Moving an entry between directories, and the intent that makes it whole *)
(***************************************************************************)
Superblock(g, intent) == [gen |-> g.gen, moves |-> g.moves, intent |-> intent]
Upgraded(g) == [gen |-> g.gen + 1, moves |-> TRUE]
ensure_feature(g) ==
  IF g.moves THEN <<>>
  ELSE write_superblock_pair(Superblock(Upgraded(g), NoIntent), Unmount)
       \o <<Step(<<"geometry", 0>>, Upgraded(g), Error)>>

MoveIntent(d, c, from, from_after, to, to_after) ==
  [child |-> c, gen |-> Inode(d, c).gen,
   source |-> [id |-> from, before |-> Inode(d, from), after |-> Revised(from_after)],
   destination |-> [id |-> to, before |-> Inode(d, to), after |-> Revised(to_after)]]

directory_move(d, g0, from, n, to, name) ==
  LET g == IF g0.moves THEN g0 ELSE Upgraded(g0)
      source == Inode(d, from)
      destination == Inode(d, to)
      record == Entries(d, from)[n]
      last == source.size = 1
      e1 == IF last THEN NoExtent ELSE find_free_extent(d[Bitmap])
      e2 == find_free_extent(d[Bitmap] \cup {e1})
      source_after == Holding(source, source.size - 1, e1, RoundUp(source.size - 1))
      destination_after == Holding(destination, destination.size + 1, e2, RoundUp(destination.size + 1))
      undo1 == release_extent(e1, Error)
      undo2 == release_extent(e2, Fail("error", undo1)) \o undo1
  IN ensure_feature(g0)
     \o (IF last THEN <<>>
         ELSE allocate_blocks(e1, Error)
              \o Put(<<"data", e1>>, Without(Entries(d, from), n), Fail("error", undo1)))
     \o allocate_blocks(e2, Fail("error", undo1))
     \o Put(<<"data", e2>>, Append(Entries(d, to), [record EXCEPT !.name = name]), Fail("error", undo2))
     \o write_superblock_pair(Superblock(g, MoveIntent(d, record.child, from, source_after, to, destination_after)), Unmount)
     \o update_inode(to, destination_after, Unmount)
     \o update_inode(from, source_after, Unmount)
     \o write_superblock_pair(Superblock(g, NoIntent), Unmount)
     \o release_extent(source.extent, Error)
     \o release_extent(destination.extent, Error)

-------------------------------------------------------------------------------
(***************************************************************************)
(* Mounting                                                                *)
(***************************************************************************)
Corrupt == Give_up(Fail("corrupt", <<>>))

recover_move_intent(d, g, m) ==
  LET source == Inode(d, m.source.id)
      destination == Inode(d, m.destination.id)
      clear == write_superblock_pair(Superblock(g, NoIntent), Error)
  IN IF Inode(d, m.child).type = "free" \/ Inode(d, m.child).gen # m.gen THEN Corrupt
     ELSE IF source = m.source.before /\ destination = m.destination.before
     THEN clear \o release_extent(m.source.after.extent, Error)
                \o release_extent(m.destination.after.extent, Error)
     ELSE IF source \in {m.source.before, m.source.after} /\ destination = m.destination.after
     THEN (IF source = m.source.before THEN Put(<<"inode", m.source.id>>, m.source.after, Error) ELSE <<>>)
          \o clear \o release_extent(m.source.before.extent, Error)
                   \o release_extent(m.destination.before.extent, Error)
     ELSE Corrupt

\* The superblock with the highest generation counts; an intent is one of its copies'.
Selected(d) ==
  LET s == CHOOSE s \in Super : \A t \in Super : d[s].gen >= d[t].gen
  IN [gen |-> d[s].gen, moves |-> d[s].moves]
Intents(d) ==
  {d[s].intent : s \in {s \in Super : d[s].gen = Selected(d).gen}} \ {NoIntent}
Disagree(d) ==
  \/ \E s, t \in Super : d[s].gen = d[t].gen /\ d[s].moves # d[t].moves
  \/ Cardinality(Intents(d)) > 1

Recovery(d) ==
  IF Disagree(d) THEN Corrupt
  ELSE IF Intents(d) = {} THEN <<>>
  ELSE recover_move_intent(d, Selected(d), CHOOSE m \in Intents(d) : TRUE)

normalize_inode_ownership(d) ==
  LET flags(i) == IF Attached(d, i) THEN "live" ELSE "orphan"
  IN FlattenSeq([k \in Inodes |->
       IF k # ROOT_INODE /\ k \in Allocated(d) /\ Inode(d, k).flags # flags(k)
       THEN update_inode(k, [Inode(d, k) EXCEPT !.flags = flags(k)], Error) ELSE <<>>])

mount(d) ==
  LET d1 == After(d, Recovery(d))
      d2 == After(d1, normalize_inode_ownership(d1))
  IN Recovery(d) \o normalize_inode_ownership(d1) \o (IF Consistent(d2) THEN <<>> ELSE Corrupt)

-------------------------------------------------------------------------------
(***************************************************************************)
(* Behaviour.  The volume starts with a directory and a file in the root.  *)
(***************************************************************************)
Live(type, size, extent, room) ==
  [type |-> type, flags |-> "live", size |-> size, extent |-> extent, room |-> room, gen |-> 1, rev |-> 1]
Idle == [kind |-> "none", result |-> "ok", file |-> ROOT_INODE, data |-> Zero]

Init ==
  /\ \E moves \in BOOLEAN, names \in {f \in [1 .. 2 -> Names] : f[1] # f[2]}, v \in Data :
       /\ geometry = [gen |-> 1, moves |-> moves]
       /\ disk = [s \in Sectors |->
            CASE s[1] = "super" -> Superblock(geometry, NoIntent)
              [] s[1] = "bitmap" -> {1, 2}
              [] s = <<"inode", 1>> -> Live("directory", 2, 1, RoundUp(2))
              [] s = <<"inode", 2>> -> Live("directory", 0, NoExtent, 0)
              [] s = <<"inode", 3>> -> Live("regular", 1, 2, 1)
              [] s[1] = "inode" /\ s[2] > 3 -> Free(1)
              [] s = <<"data", 1>> -> <<Record(names[1], 2, 1), Record(names[2], 3, 1)>>
              [] s = <<"data", 2>> -> v
              [] s[1] = "data" /\ s[2] > 2 -> Zero]
       /\ contents = [i \in Inodes |-> IF i = 3 THEN {v} ELSE {Zero}]
  /\ versions = [s \in Sectors |-> {disk[s]}]
  /\ state = "up" /\ todo = <<>> /\ op = Idle /\ alive = {2, 3}
  /\ left \in Budgets

\* A budget for one operation that a restart and a power loss interrupt.
ResetThenLoss == {[ops |-> 1, faults |-> 0, losses |-> 1, resets |-> 1]}

Spend(what) == left[what] > 0 /\ left' = [left EXCEPT ![what] = @ - 1]

\* An operation begins: its checks have passed, and its steps are known.
Begin(kind, file, data, steps) ==
  /\ Spend("ops")
  /\ op' = [kind |-> kind, result |-> "ok", file |-> file, data |-> data]
  /\ todo' = steps
  /\ UNCHANGED <<disk, versions, geometry, state>>

FreeInodes(d) == Inodes \ Allocated(d)

Create(i, name, type) ==
  /\ i \in Directories(disk) \cap (alive \cup {ROOT_INODE})
  /\ Lookup(disk, i, name) = {} /\ FreeInodes(disk) # {}
  /\ LET c == Min(FreeInodes(disk)) IN
     /\ Begin("create", c, Zero, directory_create(disk, i, name, c, type))
     /\ contents' = [contents EXCEPT ![c] = {Zero}]
  /\ UNCHANGED alive

Unlink(i, n) ==
  /\ i \in Directories(disk) \cap (alive \cup {ROOT_INODE}) /\ n \in DOMAIN Entries(disk, i)
  /\ LET c == Entries(disk, i)[n].child IN
     /\ ~(Inode(disk, c).type = "directory" /\ Inode(disk, c).size # 0)
     /\ Begin("remove", c, Zero, directory_remove(disk, i, n))
     /\ alive' = alive \ {c}
  /\ UNCHANGED contents

Rename(i, n, name) ==
  /\ i \in Directories(disk) \cap (alive \cup {ROOT_INODE}) /\ n \in DOMAIN Entries(disk, i)
  /\ Lookup(disk, i, name) = {}
  /\ Begin("rename", Entries(disk, i)[n].child, Zero, directory_rename(disk, i, n, name))
  /\ UNCHANGED <<alive, contents>>

Move(from, n, to, name) ==
  /\ from # to /\ {from, to} \subseteq Directories(disk) \cap (alive \cup {ROOT_INODE})
  /\ n \in DOMAIN Entries(disk, from) /\ Lookup(disk, to, name) = {}
  /\ LET c == Entries(disk, from)[n].child IN
     /\ Inode(disk, c).type = "directory" => c \notin Above(disk, to)
     /\ Begin("move", c, Zero, directory_move(disk, geometry, from, n, to, name))
  /\ UNCHANGED <<alive, contents>>

WriteFile(f, v) ==
  /\ f \in alive /\ Inode(disk, f).type = "regular"
  /\ Begin("write", f, v, write_inode_data(disk, f, v))
  /\ contents' = [contents EXCEPT ![f] = @ \cup {v}]
  /\ UNCHANGED alive

TruncateFile(f) ==
  /\ f \in alive /\ Inode(disk, f).type = "regular" /\ Inode(disk, f).size # 0
  /\ Begin("write", f, Zero, Truncate(disk, f))
  /\ contents' = [contents EXCEPT ![f] = @ \cup {Zero}]
  /\ UNCHANGED alive

Reclaim ==
  /\ Orphans(disk) # {}
  /\ Begin("reclaim", ROOT_INODE, Zero, reclaim_orphans(disk))
  /\ UNCHANGED <<alive, contents>>

\* mount(), once after every start
Mount ==
  /\ state = "boot" /\ state' = "mounting"
  /\ op' = [Idle EXCEPT !.kind = "mount"] /\ todo' = mount(disk)
  /\ geometry' = Selected(disk)
  /\ UNCHANGED <<disk, versions, alive, contents, left>>

\* release_extent() refuses an extent that is not allocated.
Refused(s) ==
  \/ s.at = <<"give up", 0>>
  \/ s.at = Bitmap /\ ~(s.put.free \subseteq disk[Bitmap])

Unchanged == UNCHANGED <<state, alive, contents>>

\* The next write or flush succeeds.
Do ==
  /\ todo # <<>> /\ todo' = Tail(todo) /\ ~Refused(Head(todo))
  /\ LET s == Head(todo) IN
     /\ disk' = Written(disk, s)
     /\ versions' = [t \in Sectors |-> IF s.at = Flush THEN {disk[t]} ELSE versions[t] \cup {disk'[t]}]
     /\ geometry' = IF s.at = <<"geometry", 0>> THEN s.put ELSE geometry
  /\ UNCHANGED <<op, left>> /\ Unchanged

\* It fails; a write that fails may have reached the disk.
Fails ==
  /\ todo # <<>>
  /\ LET s == Head(todo) IN
     /\ s.at # <<"geometry", 0>>
     /\ disk' \in IF Refused(s) THEN {disk} ELSE {disk, Written(disk, s)}
     /\ versions' = [t \in Sectors |-> versions[t] \cup {disk'[t]}]
     /\ todo' = s.fail.cleanup
     /\ op' = [op EXCEPT !.result = s.fail.result]
     /\ IF Refused(s) THEN UNCHANGED left ELSE Spend("faults")
  /\ UNCHANGED geometry /\ Unchanged

Return ==
  /\ op # Idle /\ todo = <<>> /\ op' = Idle
  /\ state' = CASE op.result = "corrupt" -> "corrupt"
                [] op.result = "unmount" \/ (op.result = "error" /\ state = "mounting") -> "down"
                [] OTHER -> "up"
  /\ alive' = IF op.kind = "create" /\ op.result = "ok" THEN alive \cup {op.file} ELSE alive
  /\ contents' = IF op.kind = "write" /\ op.result = "ok"
                 THEN [contents EXCEPT ![op.file] = {op.data}] ELSE contents
  /\ UNCHANGED <<disk, versions, geometry, todo, left>>

\* The machine restarts: the kernel forgets; the disk keeps its cache or loses it.
Restart ==
  /\ state # "corrupt"
  /\ state' = "boot" /\ op' = Idle /\ todo' = <<>>
  /\ UNCHANGED <<geometry, alive, contents>>
Survivors ==
  FoldSet(LAMBDA s, D : UNION {{[d EXCEPT ![s] = v] : v \in versions[s]} : d \in D},
          {disk}, {s \in Sectors : versions[s] # {disk[s]}})
PowerLoss ==
  /\ Restart /\ Spend("losses")
  /\ disk' \in Survivors
  /\ versions' = [s \in Sectors |-> {disk'[s]}]
Reset ==
  /\ Restart /\ Spend("resets")
  /\ UNCHANGED <<disk, versions>>

\* The operations run one at a time, on a mounted volume.
Operation ==
  /\ state = "up" /\ op = Idle
  /\ \/ \E i \in Inodes, name \in Names :
          \/ \E type \in {"regular", "directory"} : Create(i, name, type)
          \/ \E n \in 1 .. NInodes : Rename(i, n, name) \/ \E to \in Inodes : Move(i, n, to, name)
     \/ \E i \in Inodes, n \in 1 .. NInodes : Unlink(i, n)
     \/ \E i \in Inodes : TruncateFile(i) \/ \E v \in Data : WriteFile(i, v)
     \/ Reclaim

Next == Operation \/ Mount \/ Do \/ Fails \/ Return \/ PowerLoss \/ Reset

Spec == Init /\ [][Next]_vars

-------------------------------------------------------------------------------
(***************************************************************************)
(* Properties                                                              *)
(***************************************************************************)

\* What a read returns is among what may survive; memory follows the superblocks.
TypeOK ==
  /\ \A s \in Sectors : disk[s] \in versions[s]
  /\ state = "up" /\ op = Idle => geometry = Selected(disk)
  /\ op # Idle => state \in {"up", "mounting"}

\* Whatever an interrupted operation, or an interrupted recovery, has left behind,
\* mount() recovers from it and finds the volume consistent.
MountRecovers == state # "corrupt"

\* No power loss leaves two inodes with the same extent, or an inode with an
\* extent the bitmap says is free: allocation, publication and release are ordered.
NoSharedExtents ==
  \A i \in Inodes : \A v \in versions[<<"inode", i>>] :
    v.extent # NoExtent =>
      /\ \A b \in versions[Bitmap] : v.extent \in b
      /\ \A j \in Inodes \ {i} : \A w \in versions[<<"inode", j>>] : w.extent # v.extent

\* In a mounted volume every file whose creation was reported, and whose removal was
\* not asked for, is in exactly one directory that the root leads to, and
\* no entry names an inode that is free or has been given to another file.
OneOwner ==
  /\ TypeOK
  /\ state = "up" /\ op = Idle =>
       /\ \A i \in alive : Cardinality(References(disk, i)) = 1 /\ ROOT_INODE \in Above(disk, i)
       /\ \A i \in Directories(disk) : \A n \in DOMAIN Entries(disk, i) :
            LET r == Entries(disk, i)[n]
            IN  r.child \in Allocated(disk) /\ r.gen = Inode(disk, r.child).gen

\* A file holds, at any moment and after any power loss, what was last written or,
\* while a write is under way or after one that failed, what it replaces; in full.
\* Its extent and its name are its own.
FilesWhole ==
  /\ NoSharedExtents /\ OneOwner
  /\ \A f \in alive : \A v \in versions[<<"inode", f>>] :
       v.type = "regular" =>
         (IF v.extent = NoExtent THEN {Zero} ELSE versions[<<"data", v.extent>>]) \subseteq contents[f]
===============================================================================
