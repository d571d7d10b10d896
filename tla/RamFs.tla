-------------------------------- MODULE RamFs --------------------------------
(***************************************************************************)
(* The file system in memory (src/kernel/fs/ramfs.cpp): a tree of entries, *)
(* two counters and the heap blocks behind them.  Any of the allocations   *)
(* an operation makes may fail; the operation then undoes what it did.  An *)
(* operation is written as steps on a record of that state, because the    *)
(* counters pass through values that the undoing has to bring back.        *)
(***************************************************************************)
EXTENDS Integers, FiniteSetsExt, SequencesExt

CONSTANTS
  RamPaths,          \* paths the callers pass: [comps, slash]
  RAMFS_MAX_NODES, RAMFS_MAX_CHILDREN, RAMFS_MAX_PATH_DEPTH,
  RAMFS_MAX_FILE_SIZE, RAMFS_MAX_TOTAL_FILE_BYTES,
  FirstCapacity      \* children the first array of a directory has room for

RamRoot == 1
EntryIds == 1..(RAMFS_MAX_NODES + 1)
NoEntry == 0

VARIABLE ram         \* [tree, count, bytes, blocks]
ram_vars == <<ram>>

-------------------------------------------------------------------------------
\* parse_path(): ".." may not climb above the root, names may not go too deep.
Dots == {".", ".."}
ParsePath(path) ==
  LET depth[i \in 0..Len(path.comps)] ==
        IF i = 0 THEN 0
        ELSE CASE path.comps[i] = "." -> depth[i - 1]
               [] path.comps[i] = ".." -> depth[i - 1] - 1
               [] OTHER -> depth[i - 1] + 1
  IN  \A i \in 1..Len(path.comps) :
        IF path.comps[i] = ".." THEN depth[i - 1] > 0 ELSE depth[i] <= RAMFS_MAX_PATH_DEPTH

ChildrenOf(tree, d) == {e \in DOMAIN tree : tree[e].parent = d}
FindChild(tree, d, name) ==
  IF \E e \in ChildrenOf(tree, d) : tree[e].name = name
  THEN CHOOSE e \in ChildrenOf(tree, d) : tree[e].name = name ELSE NoEntry

\* resolve_components(): the entry the components lead to, or none.
ResolveComponents(tree, comps) ==
  LET at[i \in 0..Len(comps)] ==
        IF i = 0 THEN RamRoot
        ELSE IF at[i - 1] = NoEntry \/ ~tree[at[i - 1]].dir THEN NoEntry
        ELSE CASE comps[i] = "." -> at[i - 1]
               [] comps[i] = ".." -> tree[at[i - 1]].parent
               [] OTHER -> FindChild(tree, at[i - 1], comps[i])
  IN  at[Len(comps)]
ResolvePath(tree, path) ==
  LET e == ResolveComponents(tree, path.comps) IN
  IF e # NoEntry /\ path.slash /\ ~tree[e].dir THEN NoEntry ELSE e

-------------------------------------------------------------------------------
\* Steps on st = ram with two more fields: ok, and left, the number of the allocation
\* that fails (0 for none).
RamFail(st) == [st EXCEPT !.ok = FALSE]
Kmalloc(st) ==
  IF st.left = 1 THEN [st EXCEPT !.ok = FALSE, !.left = 0]
  ELSE [st EXCEPT !.blocks = @ + 1, !.left = IF @ = 0 THEN 0 ELSE @ - 1]
Kfree(st, n) == [st EXCEPT !.blocks = @ - n]
NewId(tree) == CHOOSE e \in EntryIds \ DOMAIN tree : \A f \in EntryIds \ DOMAIN tree : e <= f
BlocksOf(e) == 1 + (IF e.dir THEN 0 ELSE 1) + (IF e.room > 0 THEN 1 ELSE 0)

\* allocate_entry(): an entry, and for a file its content, or nothing at all.  The
\* entry is detached: its parent is none.
AllocateEntry(st, id, name, dir) ==
  LET entry == Kmalloc(st)
      full == IF dir THEN entry ELSE Kmalloc(entry)
  IN  IF st.count >= RAMFS_MAX_NODES THEN RamFail(st)
      ELSE IF ~entry.ok THEN entry
      ELSE IF ~full.ok THEN Kfree(full, 1)
      ELSE [full EXCEPT !.count = @ + 1,
                        !.tree = @ @@ (id :> [name |-> name, dir |-> dir, parent |-> NoEntry,
                                              size |-> 0, cap |-> 1, room |-> 0])]

\* ensure_child_capacity(): the array of children doubles when it is full.
EnsureChildCapacity(st, d) ==
  LET n == Cardinality(ChildrenOf(st.tree, d))
      room == st.tree[d].room
      grown == Kmalloc(st)
      doubled == IF room = 0 THEN FirstCapacity ELSE 2 * room
  IN  IF n >= RAMFS_MAX_CHILDREN THEN RamFail(st)
      ELSE IF n < room THEN st
      ELSE IF ~grown.ok THEN grown
      ELSE [Kfree(grown, IF room = 0 THEN 0 ELSE 1) EXCEPT
              !.tree[d].room = IF doubled > RAMFS_MAX_CHILDREN THEN RAMFS_MAX_CHILDREN ELSE doubled]
AttachChild(st, d, e) ==
  LET ready == EnsureChildCapacity(st, d) IN
  IF ready.ok THEN [ready EXCEPT !.tree[e].parent = d] ELSE ready

\* destroy_subtree(): the entry and all below it.
Below(tree, e) ==
  LET grow[n \in Nat] == IF n = 0 THEN {e}
                         ELSE grow[n - 1] \cup UNION {ChildrenOf(tree, d) : d \in grow[n - 1]}
  IN  grow[RAMFS_MAX_PATH_DEPTH + 1]
DestroySubtree(st, e) ==
  LET gone == Below(st.tree, e) IN
  [st EXCEPT !.tree = [f \in DOMAIN @ \ gone |-> @[f]],
             !.count = @ - Cardinality(gone),
             !.bytes = @ - MapThenSumSet(LAMBDA f : st.tree[f].size, gone),
             !.blocks = @ - MapThenSumSet(LAMBDA f : BlocksOf(st.tree[f]), gone)]

\* create_entry().
CreateEntry(st, id, path, dir) ==
  LET d == ResolveComponents(st.tree, Front(path.comps))
      entry == AllocateEntry(st, id, Last(path.comps), dir)
      attached == AttachChild(entry, d, id)
  IN  IF \/ path.comps = <<>> \/ Last(path.comps) \in Dots \/ (path.slash /\ ~dir)
         \/ st.count >= RAMFS_MAX_NODES
         \/ d = NoEntry \/ ~st.tree[d].dir \/ FindChild(st.tree, d, Last(path.comps)) # NoEntry
         \/ Cardinality(ChildrenOf(st.tree, d)) >= RAMFS_MAX_CHILDREN
      THEN RamFail(st)
      ELSE IF ~entry.ok THEN entry
      ELSE IF attached.ok THEN attached
      ELSE Kfree([attached EXCEPT !.count = @ - 1, !.tree = [f \in DOMAIN @ \ {id} |-> @[f]]],
                 BlocksOf(entry.tree[id]))

\* write_entry(): the whole content is replaced, in a new block when the old one is
\* too small or less than half full.
WriteEntry(st, e, size) ==
  LET old == st.tree[e]
      resize == size + 1 > old.cap \/ size + 1 <= old.cap \div 2
      grown == IF resize THEN Kmalloc(st) ELSE st
  IN  IF old.dir \/ size > RAMFS_MAX_FILE_SIZE \/ old.size > st.bytes
         \/ size > RAMFS_MAX_TOTAL_FILE_BYTES - (st.bytes - old.size)
      THEN RamFail(st)
      ELSE IF ~grown.ok THEN grown
      ELSE [Kfree(grown, IF resize THEN 1 ELSE 0) EXCEPT
              !.bytes = @ - old.size + size, !.tree[e].size = size,
              !.tree[e].cap = IF resize THEN size + 1 ELSE @]

\* The operation works on the state with an allocation that may fail, and leaves it.
St(left) == ram @@ [ok |-> TRUE, left |-> left]
Commit(st) == ram' = [f \in DOMAIN ram |-> st[f]]

-------------------------------------------------------------------------------
\* create_file_at(), create_directory_at().
CreateAt(path, dir, left) ==
  ParsePath(path) /\ Commit(CreateEntry(St(left), NewId(ram.tree), path, dir))

\* write_file_data(): a file made for the write goes when the write fails.
WriteFileData(path, size, create_if_missing, left) ==
  LET found == ResolvePath(ram.tree, path)
      id == NewId(ram.tree)
      made == CreateEntry(St(left), id, path, FALSE)
      written == WriteEntry(IF found # NoEntry THEN St(left) ELSE made,
                            IF found # NoEntry THEN found ELSE id, size)
  IN  /\ ParsePath(path) /\ size <= RAMFS_MAX_FILE_SIZE
      /\ found # NoEntry \/ create_if_missing
      /\ IF found = NoEntry /\ ~made.ok THEN Commit(made)
         ELSE IF found # NoEntry \/ written.ok THEN Commit(written)
         ELSE Commit(DestroySubtree([written EXCEPT !.tree[id].parent = NoEntry], id))

\* remove_path().
RemovePath(path, recursive) ==
  LET e == ResolvePath(ram.tree, path) IN
  /\ ParsePath(path) /\ e \notin {NoEntry, RamRoot}
  /\ ram.tree[e].dir /\ ChildrenOf(ram.tree, e) # {} => recursive
  /\ Commit(DestroySubtree(St(0), e))

\* resolve_destination(): the directory the last component is to be put in.
DestinationParent(path, from_dir) ==
  IF path.comps = <<>> \/ Last(path.comps) \in Dots \/ (path.slash /\ ~from_dir) THEN NoEntry
  ELSE LET d == ResolveComponents(ram.tree, Front(path.comps)) IN
       IF d # NoEntry /\ ram.tree[d].dir THEN d ELSE NoEntry

\* copy_file(): the copy is made detached and attached when it is whole.
CopyFile(from, to, left) ==
  LET e == ResolvePath(ram.tree, from)
      d == DestinationParent(to, FALSE)
      id == NewId(ram.tree)
      made == AllocateEntry(St(left), id, Last(to.comps), FALSE)
      written == WriteEntry(made, id, ram.tree[e].size)
      attached == AttachChild(written, d, id)
  IN  /\ ParsePath(from) /\ ParsePath(to) /\ e # NoEntry /\ ~ram.tree[e].dir /\ d # NoEntry
      /\ FindChild(ram.tree, d, Last(to.comps)) = NoEntry
      /\ ram.count < RAMFS_MAX_NODES /\ Cardinality(ChildrenOf(ram.tree, d)) < RAMFS_MAX_CHILDREN
      /\ ram.tree[e].size <= RAMFS_MAX_TOTAL_FILE_BYTES - ram.bytes
      /\ IF ~made.ok THEN Commit(made)
         ELSE IF ~written.ok THEN Commit(DestroySubtree(written, id))
         ELSE IF ~attached.ok THEN Commit(DestroySubtree(attached, id))
         ELSE Commit(attached)

\* entry_depth(), is_same_or_descendant() and subtree_fits_destination().
EntryDepth(tree, e) ==
  LET depth[n \in 0..RAMFS_MAX_PATH_DEPTH, f \in {NoEntry} \cup EntryIds] ==
        IF n = 0 \/ f \in {NoEntry, RamRoot} THEN 0 ELSE 1 + depth[n - 1, tree[f].parent]
  IN  depth[RAMFS_MAX_PATH_DEPTH, e]
SubtreeFitsDestination(tree, e, d) ==
  \A f \in Below(tree, e) :
    EntryDepth(tree, d) + 1 + (EntryDepth(tree, f) - EntryDepth(tree, e)) <= RAMFS_MAX_PATH_DEPTH

\* move_path(), also rename_path(): all that can fail comes before the move.
MovePath(from, to, left) ==
  LET e == ResolvePath(ram.tree, from)
      d == DestinationParent(to, ram.tree[e].dir)
      there == FindChild(ram.tree, d, Last(to.comps))
      ready == IF d = ram.tree[e].parent THEN St(left) ELSE EnsureChildCapacity(St(left), d)
  IN  /\ ParsePath(from) /\ ParsePath(to) /\ e \notin {NoEntry, RamRoot} /\ d # NoEntry
      /\ there = NoEntry
      /\ ram.tree[e].dir => d \notin Below(ram.tree, e)
      /\ SubtreeFitsDestination(ram.tree, e, d)
      /\ Commit(IF ready.ok THEN [ready EXCEPT !.tree[e].parent = d, !.tree[e].name = Last(to.comps)]
                ELSE ready)

\* initialize_ramfs().
RamInit ==
  ram = [tree |-> RamRoot :> [name |-> "/", dir |-> TRUE, parent |-> NoEntry, size |-> 0,
                              cap |-> 1, room |-> 0],
         count |-> 1, bytes |-> 0, blocks |-> 1]
\* No operation allocates more often than write_file_data(): an entry, its content, the
\* array of its directory, and the content again.
MostAllocations == 4

RamNext ==
  \E path \in RamPaths, left \in 0..MostAllocations :
    \/ \E dir \in BOOLEAN : CreateAt(path, dir, left)
    \/ \E size \in 0..RAMFS_MAX_FILE_SIZE, create \in BOOLEAN : WriteFileData(path, size, create, left)
    \/ \E recursive \in BOOLEAN : RemovePath(path, recursive)
    \/ \E to \in RamPaths : CopyFile(path, to, left) \/ MovePath(path, to, left)
RamSpec == RamInit /\ [][RamNext]_ram_vars

-------------------------------------------------------------------------------
RamTypeOK ==
  /\ DOMAIN ram.tree \subseteq EntryIds /\ RamRoot \in DOMAIN ram.tree
  /\ ram.count \in Nat /\ ram.bytes \in Nat /\ ram.blocks \in Nat

\* Whatever was created, copied, moved or removed, and whichever allocation failed, the
\* entries form one tree within the limits, with distinct names in a directory; the two
\* counters the limits are checked against are exact, and so is the heap: no block is
\* lost and none is freed twice (the undoing in create_entry(), write_file_data() and
\* copy_file(), the checks of move_path()).
RamTreeExact ==
  LET tree == ram.tree IN
  /\ RamTypeOK
  /\ Below(tree, RamRoot) = DOMAIN tree
  /\ \A e \in DOMAIN tree \ {RamRoot} :
       /\ tree[e].parent \in DOMAIN tree /\ tree[tree[e].parent].dir
       /\ \A f \in ChildrenOf(tree, tree[e].parent) : tree[f].name = tree[e].name => f = e
       /\ EntryDepth(tree, e) <= RAMFS_MAX_PATH_DEPTH
  /\ \A e \in DOMAIN tree : Cardinality(ChildrenOf(tree, e)) <= tree[e].room
                            /\ tree[e].room <= RAMFS_MAX_CHILDREN /\ tree[e].size < tree[e].cap
  /\ ram.count = Cardinality(DOMAIN tree) /\ ram.count <= RAMFS_MAX_NODES
  /\ ram.bytes = MapThenSumSet(LAMBDA e : tree[e].size, DOMAIN tree)
  /\ ram.bytes <= RAMFS_MAX_TOTAL_FILE_BYTES
  /\ ram.blocks = MapThenSumSet(LAMBDA e : BlocksOf(tree[e]), DOMAIN tree)
===============================================================================
