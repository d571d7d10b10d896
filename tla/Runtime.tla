------------------------------- MODULE Runtime --------------------------------
(***************************************************************************)
(* The virtual file system (src/kernel/fs/vfs.cpp) over its two backends:  *)
(* the adapters of FAT32 (fat32_vfs.cpp) and of KuroFS (kurofs_vfs.cpp).   *)
(* A path is the sequence of its names; a backend is a tree of nodes, each *)
(* with an identity, and what it does with the disk is not told apart      *)
(* here.  Every call runs under root_volume's lock, so it is one step; a   *)
(* call that only returns an error changes nothing and is no step.         *)
(***************************************************************************)
EXTENDS Naturals, FiniteSets, SequencesExt

CONSTANTS
  Contexts,       \* path contexts: the kernel's and one per process
  FatFs, KuroFs,  \* file systems by kind of adapter
  ReadOnlyFs,     \* those mounted read-only
  RootFs,         \* the one mounted at "/"
  Inputs,         \* path arguments: [abs, comps, slash]
  Modes,          \* flags given to open()
  MountSlots,     \* MAX_MOUNTS
  OpenSlots,      \* MAX_OPEN_FILES
  MaxDepth,       \* MAX_PATH_DEPTH
  MaxSize,        \* bound: units in a file
  MaxNodes,       \* bound: nodes of a tree
  MaxFileGen, MaxMountGen,    \* the last generation of a slot
  MaxFileRefs,    \* bound: references to an open file
  MaxChanges      \* bound: changes of contexts, mounts and names

FileSystems == FatFs \cup KuroFs

\* valid_open_flags()
ValidOpenFlags(f) == f \cap {"read", "write"} # {} /\ ("append" \in f => "write" \in f)

VARIABLES
  mounts,         \* state->mounts
  open_files,     \* state->open_files
  contexts,       \* root and working directory of each context
  trees,          \* the nodes of each file system, by path
  adapters,       \* open_slots of each adapter
  file_handles, mount_handles,  \* history: the handles issued
  changes         \* how many changes of contexts, mounts and names there were

vfs_vars == <<mounts, open_files, contexts, trees, adapters, file_handles, mount_handles, changes>>

Change == changes < MaxChanges /\ changes' = changes + 1
-------------------------------------------------------------------------------
\* Paths.  "." and ".." never reach a backend; ".." stops at the context's root.
TooDeep == [ok |-> FALSE, value |-> <<>>]
AppendComponent(p, name) ==
  IF Len(p.value) = MaxDepth THEN TooDeep ELSE [p EXCEPT !.value = Append(@, name)]

NormalizePath(c, in) ==
  LET Step(p, name) ==
        IF ~p.ok \/ name = "." THEN p
        ELSE IF name # ".." THEN AppendComponent(p, name)
        ELSE IF Len(p.value) > Len(c.root) THEN [p EXCEPT !.value = Front(@)] ELSE p
  IN  FoldLeft(Step, [ok |-> TRUE, value |-> IF in.abs THEN c.root ELSE c.cwd], in.comps)

TerminalSpecial(in) == in.comps # <<>> /\ Last(in.comps) \in {".", ".."}

Mounted == {i \in 0..MountSlots-1 : mounts[i].active}
ExactNonRootMount(p) == \E i \in Mounted \ {0} : mounts[i].path = p
MountAtOrBelow(p) == \E i \in Mounted \ {0} : IsPrefix(p, mounts[i].path)
ContextAtOrBelow(c, p) == IsPrefix(p, contexts[c].root) \/ IsPrefix(p, contexts[c].cwd)

RoutePath(p) ==
  CHOOSE i \in Mounted :
    /\ IsPrefix(mounts[i].path, p)
    /\ \A j \in Mounted : IsPrefix(mounts[j].path, p) => Len(mounts[j].path) <= Len(mounts[i].path)
BackendPath(i, p) == SubSeq(p, Len(mounts[i].path) + 1, Len(p))

\* The node a path names, which LookupCanonical requires to be there.
NodeAt(p) == LET i == RoutePath(p) IN trees[mounts[i].fs][BackendPath(i, p)]
LookupCanonical(p, slash) ==
  LET i == RoutePath(p) IN
  /\ BackendPath(i, p) \in DOMAIN trees[mounts[i].fs]
  /\ slash => NodeAt(p).dir

-------------------------------------------------------------------------------
\* The backends.  An identity is an inode of KuroFS with its generation: one that
\* an open slot still holds is not given out again.
HeldIds(f) == {adapters[f][s].node.id : s \in {t \in 1..OpenSlots : adapters[f][t].active}}
FreshId(f) ==
  CHOOSE i \in 1..(MaxNodes + OpenSlots + 1) :
    /\ i \notin HeldIds(f) /\ \A p \in DOMAIN trees[f] : trees[f][p].id # i
    /\ \A j \in 1..(i - 1) : j \in HeldIds(f) \/ \E p \in DOMAIN trees[f] : trees[f][p].id = j

PathOfId(f, id) == {p \in DOMAIN trees[f] : trees[f][p].id = id}

\* Where an open slot reads and writes.  FAT32 keeps the node of the open and writes
\* by path; KuroFS reads the inode again and refuses one that is gone.
RefreshSlot(f, slot) == PathOfId(f, slot.node.id)
WriteTarget(f, slot) ==
  IF f \in FatFs THEN {slot.path} \cap {p \in DOMAIN trees[f] : ~trees[f][p].dir}
  ELSE RefreshSlot(f, slot)
StatOpen(f, slot) ==
  IF f \in FatFs THEN {slot.node.size} ELSE {trees[f][p].size : p \in RefreshSlot(f, slot)}

Children(f, p) == {q \in DOMAIN trees[f] : Len(q) = Len(p) + 1 /\ IsPrefix(p, q)}
Parent(p) == Front(p)

CreateNode(f, p, dir) ==
  /\ p # <<>> /\ p \notin DOMAIN trees[f] /\ Parent(p) \in DOMAIN trees[f]
  /\ trees[f][Parent(p)].dir /\ Cardinality(DOMAIN trees[f]) < MaxNodes
  /\ trees' = [trees EXCEPT ![f] =
       [q \in DOMAIN @ \cup {p} |-> IF q = p THEN [id |-> FreshId(f), dir |-> dir, size |-> 0] ELSE @[q]]]

RemoveNode(f, p, dir) ==
  /\ p \in DOMAIN trees[f] /\ trees[f][p].dir = dir /\ Children(f, p) = {}
  /\ trees' = [trees EXCEPT ![f] = [q \in DOMAIN @ \ {p} |-> @[q]]]

\* FAT32 renames within one directory, KuroFS moves a subtree; neither overwrites.
RenameNode(f, from, to) ==
  LET moved == {q \in DOMAIN trees[f] : IsPrefix(from, q)}
      Onto(q) == to \o SubSeq(q, Len(from) + 1, Len(q)) IN
  /\ from \in DOMAIN trees[f] /\ from # <<>> /\ to # <<>>
  /\ to \notin DOMAIN trees[f] /\ Parent(to) \in DOMAIN trees[f] /\ trees[f][Parent(to)].dir
  /\ ~IsPrefix(from, to)
  /\ f \in FatFs => Parent(from) = Parent(to)
  /\ trees' = [trees EXCEPT ![f] =
       [q \in (DOMAIN @ \ moved) \cup {Onto(m) : m \in moved} |->
          IF IsPrefix(to, q) THEN @[from \o SubSeq(q, Len(to) + 1, Len(q))] ELSE @[q]]]
-------------------------------------------------------------------------------
\* Contexts.
Chdir(c) ==
  \E in \in Inputs : \E n \in {NormalizePath(contexts[c], in)} :
    /\ n.ok /\ LookupCanonical(n.value, in.slash) /\ NodeAt(n.value).dir
    /\ contexts' = [contexts EXCEPT ![c].cwd = n.value]
    /\ Change /\ UNCHANGED <<mounts, open_files, trees, adapters, file_handles, mount_handles>>

Chroot(c) ==
  \E in \in Inputs : \E n \in {NormalizePath(contexts[c], in)} :
    /\ n.ok /\ LookupCanonical(n.value, in.slash) /\ NodeAt(n.value).dir
    /\ contexts' = [contexts EXCEPT ![c] = [root |-> n.value, cwd |-> n.value]]
    /\ Change /\ UNCHANGED <<mounts, open_files, trees, adapters, file_handles, mount_handles>>

\* Mounts.  The first free slot whose generation can still advance is taken.
FreeMountSlots == {i \in 1..MountSlots-1 : ~mounts[i].active /\ mounts[i].gen < MaxMountGen}
MountAt(slot, f, p) ==
  /\ mounts' = [mounts EXCEPT ![slot] = [active |-> TRUE, gen |-> @.gen + 1, path |-> p, fs |-> f]]
  /\ mount_handles' = mount_handles \cup {<<slot, mounts[slot].gen + 1>>}

MountFs(c, f) ==
  \E in \in Inputs : \E n \in {NormalizePath(contexts[c], in)} :
    /\ FreeMountSlots # {} /\ n.ok /\ n.value # <<>> /\ ~ExactNonRootMount(n.value)
    /\ LookupCanonical(n.value, in.slash) /\ NodeAt(n.value).dir
    /\ \A i \in Mounted : mounts[i].fs # f      \* a backend context serves one mount
    /\ MountAt(Min(FreeMountSlots), f, n.value)
    /\ Change /\ UNCHANGED <<open_files, contexts, trees, adapters, file_handles>>

\* root_volume::mount_backend: the mount point is made when it is missing, and stays
\* when the mount fails.
MountBackend(c, f) ==
  \E in \in Inputs : \E n \in {NormalizePath(contexts[c], in)} :
    /\ n.ok /\ n.value # <<>> /\ ~TerminalSpecial(in) /\ \A i \in Mounted : mounts[i].fs # f
    /\ LET i == RoutePath(n.value) IN
       /\ ~LookupCanonical(n.value, FALSE) /\ mounts[i].fs \notin ReadOnlyFs
       /\ CreateNode(mounts[i].fs, BackendPath(i, n.value), TRUE)
    /\ \/ FreeMountSlots # {} /\ MountAt(Min(FreeMountSlots), f, n.value)
       \/ UNCHANGED <<mounts, mount_handles>>
    /\ Change /\ UNCHANGED <<open_files, contexts, adapters, file_handles>>

Unmount(h) ==
  LET i == h[1] IN
  /\ i # 0 /\ mounts[i].active /\ mounts[i].gen = h[2]
  /\ \A j \in Mounted \ {0, i} : ~IsPrefix(mounts[i].path, mounts[j].path)
  /\ \A s \in 1..OpenSlots :
       ~(open_files[s].active /\ open_files[s].mount = <<i, mounts[i].gen>>)
  /\ mounts' = [mounts EXCEPT ![i].active = FALSE, ![i].path = <<>>, ![i].fs = RootFs]
  /\ Change /\ UNCHANGED <<open_files, contexts, trees, adapters, file_handles, mount_handles>>

-------------------------------------------------------------------------------
\* Open files.
ClosedFile(gen) ==
  [active |-> FALSE, gen |-> gen, refs |-> 0, flags |-> {}, offset |-> 0,
   mount |-> <<0, 0>>, dir |-> FALSE, token |-> <<0, 0>>]
FreeSlot(gen) == [active |-> FALSE, gen |-> gen, node |-> [id |-> 0, dir |-> FALSE, size |-> 0], path |-> <<>>]

FreeOpenSlots == {s \in 1..OpenSlots : ~open_files[s].active /\ open_files[s].gen < MaxFileGen}
FreeAdapterSlots(f) == {s \in 1..OpenSlots : ~adapters[f][s].active}

OpenFile(c) ==
  \E in \in Inputs, flags \in Modes : \E n \in {NormalizePath(contexts[c], in)} :
    /\ ValidOpenFlags(flags) /\ FreeOpenSlots # {} /\ n.ok
    /\ LET i == RoutePath(n.value)
           f == mounts[i].fs
           s == Min(FreeOpenSlots)
           a == Min(FreeAdapterSlots(f)) IN
       /\ "write" \in flags => f \notin ReadOnlyFs
       /\ LookupCanonical(n.value, in.slash) /\ ("directory" \in flags) = NodeAt(n.value).dir
       /\ FreeAdapterSlots(f) # {}
       /\ adapters' = [adapters EXCEPT ![f][a] =
            [active |-> TRUE, gen |-> @.gen + 1, node |-> NodeAt(n.value), path |-> BackendPath(i, n.value)]]
       /\ open_files' = [open_files EXCEPT ![s] =
            [active |-> TRUE, gen |-> @.gen + 1, refs |-> 1, flags |-> flags,
             offset |-> IF "append" \in flags THEN NodeAt(n.value).size ELSE 0,
             mount |-> <<i, mounts[i].gen>>, dir |-> NodeAt(n.value).dir,
             token |-> <<a, adapters[f][a].gen + 1>>]]
       /\ file_handles' = file_handles \cup {<<s, open_files[s].gen + 1>>}
    /\ UNCHANGED <<mounts, contexts, trees, mount_handles, changes>>

\* validate_open_handle, and resolve_slot of the adapter.
ValidOpenHandle(h) ==
  LET o == open_files[h[1]] IN
  /\ o.active /\ o.gen = h[2]
  /\ mounts[o.mount[1]].active /\ mounts[o.mount[1]].gen = o.mount[2]
Fs(h) == mounts[open_files[h[1]].mount[1]].fs
Slot(h) == adapters[Fs(h)][open_files[h[1]].token[1]]
ResolveSlot(h) == Slot(h).active /\ Slot(h).gen = open_files[h[1]].token[2]

RetainFile(h) ==
  /\ ValidOpenHandle(h) /\ open_files[h[1]].refs < MaxFileRefs
  /\ open_files' = [open_files EXCEPT ![h[1]].refs = @ + 1]
  /\ UNCHANGED <<mounts, contexts, trees, adapters, file_handles, mount_handles, changes>>

CloseFile(h) ==
  /\ ValidOpenHandle(h)
  /\ IF open_files[h[1]].refs > 1
     THEN open_files' = [open_files EXCEPT ![h[1]].refs = @ - 1] /\ UNCHANGED adapters
     ELSE /\ open_files' = [open_files EXCEPT ![h[1]] = ClosedFile(@.gen)]
          /\ adapters' = IF ResolveSlot(h)
               THEN [adapters EXCEPT ![Fs(h)][open_files[h[1]].token[1]] = FreeSlot(@.gen)]
               ELSE adapters
  /\ UNCHANGED <<mounts, contexts, trees, file_handles, mount_handles, changes>>

MoveOffset(h, offset) ==
  /\ open_files' = [open_files EXCEPT ![h[1]].offset = offset]
  /\ UNCHANGED <<mounts, contexts, trees, adapters, file_handles, mount_handles, changes>>

\* FAT32 reads by the node of the open; a short read is allowed.
ReadFile(h) ==
  LET o == open_files[h[1]] IN
  /\ ValidOpenHandle(h) /\ "read" \in o.flags /\ ~o.dir /\ ResolveSlot(h)
  /\ \E size \in StatOpen(Fs(h), Slot(h)) : o.offset < size /\ MoveOffset(h, o.offset + 1)

WriteFile(h) ==
  LET o == open_files[h[1]]
      f == Fs(h) IN
  /\ ValidOpenHandle(h) /\ "write" \in o.flags /\ ~o.dir /\ f \notin ReadOnlyFs /\ ResolveSlot(h)
  /\ \E p \in WriteTarget(f, Slot(h)) :
     \E at \in IF "append" \in o.flags THEN StatOpen(f, Slot(h)) ELSE {o.offset} :
       LET node == [trees[f][p] EXCEPT !.size = Max({@, at + 1})] IN
       /\ at < MaxSize
       /\ trees' = [trees EXCEPT ![f][p] = node]
       /\ adapters' = [adapters EXCEPT ![f][o.token[1]].node = node]
       /\ open_files' = [open_files EXCEPT ![h[1]].offset = at + 1]
  /\ UNCHANGED <<mounts, contexts, file_handles, mount_handles, changes>>

\* To the beginning, the end, or one back from where it is.
SeekFile(h) ==
  LET o == open_files[h[1]] IN
  /\ ValidOpenHandle(h) /\ ~o.dir
  /\ \/ MoveOffset(h, 0)
     \/ ResolveSlot(h) /\ \E size \in StatOpen(Fs(h), Slot(h)) : MoveOffset(h, size)
     \/ o.offset > 0 /\ MoveOffset(h, o.offset - 1)

\* The offset of a directory is the number of entries read.
ReadDir(h) ==
  LET o == open_files[h[1]]
      where == IF Fs(h) \in FatFs THEN {Slot(h).path} \cap DOMAIN trees[Fs(h)]
               ELSE RefreshSlot(Fs(h), Slot(h)) IN
  /\ ValidOpenHandle(h) /\ o.dir /\ "read" \in o.flags /\ ResolveSlot(h)
  /\ \E p \in where : o.offset < Cardinality(Children(Fs(h), p)) /\ MoveOffset(h, o.offset + 1)

-------------------------------------------------------------------------------
\* Mutations of the name space.
PrepareMutation(in, n, slash_allowed) ==
  /\ n.ok /\ ~TerminalSpecial(in) /\ (in.slash => slash_allowed)
  /\ mounts[RoutePath(n.value)].fs \notin ReadOnlyFs

CreateLike(c, dir) ==
  \E in \in Inputs : \E n \in {NormalizePath(contexts[c], in)} :
    /\ PrepareMutation(in, n, dir) /\ ~ExactNonRootMount(n.value)
    /\ LET i == RoutePath(n.value) IN CreateNode(mounts[i].fs, BackendPath(i, n.value), dir)
    /\ Change /\ UNCHANGED <<mounts, open_files, contexts, adapters, file_handles, mount_handles>>

RemoveLike(c, dir) ==
  \E in \in Inputs : \E n \in {NormalizePath(contexts[c], in)} :
    /\ PrepareMutation(in, n, dir)
    /\ n.value # contexts[c].root /\ n.value # <<>>
    /\ ~MountAtOrBelow(n.value) /\ ~ContextAtOrBelow(c, n.value)
    /\ LET i == RoutePath(n.value) IN RemoveNode(mounts[i].fs, BackendPath(i, n.value), dir)
    /\ Change /\ UNCHANGED <<mounts, open_files, contexts, adapters, file_handles, mount_handles>>

RenamePath(c) ==
  \E in, out \in Inputs :
  \E n \in {NormalizePath(contexts[c], in)}, m \in {NormalizePath(contexts[c], out)} :
    /\ n.ok /\ m.ok /\ ~TerminalSpecial(in) /\ ~TerminalSpecial(out) /\ ~out.slash
    /\ n.value # contexts[c].root /\ n.value # <<>>
    /\ ~MountAtOrBelow(n.value) /\ ~MountAtOrBelow(m.value) /\ ~ContextAtOrBelow(c, n.value)
    /\ n.value # m.value /\ RoutePath(n.value) = RoutePath(m.value)
    /\ LET i == RoutePath(n.value) IN
       /\ mounts[i].fs \notin ReadOnlyFs
       /\ RenameNode(mounts[i].fs, BackendPath(i, n.value), BackendPath(i, m.value))
    /\ Change /\ UNCHANGED <<mounts, open_files, contexts, adapters, file_handles, mount_handles>>

-------------------------------------------------------------------------------
VfsInit ==
  /\ mounts = [i \in 0..MountSlots-1 |->
       [active |-> i = 0, gen |-> IF i = 0 THEN 1 ELSE 0, path |-> <<>>, fs |-> RootFs]]
  /\ open_files = [s \in 1..OpenSlots |-> ClosedFile(0)]
  /\ contexts = [c \in Contexts |-> [root |-> <<>>, cwd |-> <<>>]]
  /\ trees = [f \in FileSystems |-> [p \in {<<>>} |-> [id |-> 1, dir |-> TRUE, size |-> 0]]]
  /\ adapters = [f \in FileSystems |-> [s \in 1..OpenSlots |-> FreeSlot(0)]]
  /\ file_handles = {} /\ mount_handles = {<<0, 1>>} /\ changes = 0

\* The calls that take a path, and those that take a handle.
PathCalls(c) ==
  \/ Chdir(c) \/ Chroot(c) \/ OpenFile(c) \/ RenamePath(c)
  \/ \E f \in FileSystems : MountFs(c, f) \/ MountBackend(c, f)
  \/ \E dir \in BOOLEAN : CreateLike(c, dir) \/ RemoveLike(c, dir)
HandleCalls ==
  \/ \E h \in mount_handles : Unmount(h)
  \/ \E h \in file_handles :
       RetainFile(h) \/ CloseFile(h) \/ ReadFile(h) \/ WriteFile(h) \/ SeekFile(h) \/ ReadDir(h)

VfsNext == HandleCalls \/ \E c \in Contexts : PathCalls(c)
VfsSpec == VfsInit /\ [][VfsNext]_vfs_vars

-------------------------------------------------------------------------------
VfsTypeOK ==
  /\ \A i \in 0..MountSlots-1 : mounts[i].gen <= MaxMountGen /\ mounts[i].fs \in FileSystems
  /\ \A s \in 1..OpenSlots : open_files[s].gen <= MaxFileGen
  /\ \A f \in FileSystems : <<>> \in DOMAIN trees[f]

\* An open file can always be served and closed: its mount is still there, its token
\* names an active slot of that file system's adapter that no other open file names,
\* and no adapter slot is active for nobody.  unmount() refuses while a file is open,
\* and the two tables count generations separately.
OpenFilesServed ==
  /\ VfsTypeOK
  /\ \A h \in file_handles : h[2] <= open_files[h[1]].gen
  /\ \A s \in 1..OpenSlots : open_files[s].active =>
       ValidOpenHandle(<<s, open_files[s].gen>>) /\ ResolveSlot(<<s, open_files[s].gen>>)
  /\ \A f \in FileSystems, a \in 1..OpenSlots : adapters[f][a].active =>
       Cardinality({s \in 1..OpenSlots : open_files[s].active
                      /\ Fs(<<s, 0>>) = f /\ open_files[s].token[1] = a}) = 1

\* The name space keeps its mount points: no two mounts have one path, and under each
\* mount but the root's some other mounted file system still has the directory it
\* was mounted on, whatever was removed, renamed or unmounted since.  No path
\* argument leads a context out of its root.
NamespaceStands ==
  /\ mounts[0].active /\ mounts[0].path = <<>>
  /\ \A i, j \in Mounted : mounts[i].path = mounts[j].path => i = j
  /\ \A i \in Mounted \ {0} : \E j \in Mounted \ {i} :
       /\ IsPrefix(mounts[j].path, mounts[i].path)
       /\ BackendPath(j, mounts[i].path) \in DOMAIN trees[mounts[j].fs]
       /\ trees[mounts[j].fs][BackendPath(j, mounts[i].path)].dir
  /\ \A f \in FileSystems : \A p \in DOMAIN trees[f] \ {<<>>} :
       Parent(p) \in DOMAIN trees[f] /\ trees[f][Parent(p)].dir
  /\ \A c \in Contexts : IsPrefix(contexts[c].root, contexts[c].cwd)
  /\ \A c \in Contexts, in \in Inputs : LET n == NormalizePath(contexts[c], in) IN
       n.ok => IsPrefix(contexts[c].root, n.value)

\* A write through a handle opened to append adds to the file and overwrites nothing,
\* though another handle grew the file since this one looked: write() asks the
\* backend for the size, and the adapter of KuroFS reads the inode again.
AppendGrows ==
  [][\A h \in file_handles :
       (WriteFile(h) /\ "append" \in open_files[h[1]].flags /\ Fs(h) \in KuroFs) =>
         \E p \in RefreshSlot(Fs(h), Slot(h)) :
           trees'[Fs(h)][p].size = trees[Fs(h)][p].size + 1]_vfs_vars

-------------------------------------------------------------------------------
(***************************************************************************)
(* What a process holds while it runs: its context in the runtime          *)
(* (src/kernel/user/runtime_base.inc), its descriptors                     *)
(* (file_handle.hpp) and its working directory, over the root volume       *)
(* (src/kernel/fs/root_volume.cpp), which serves them from the virtual     *)
(* file system above.  A process in the kernel is not preempted, so a      *)
(* system call is one step; the closing of the descriptors at exit takes   *)
(* one step for each, during which nothing else moves.                     *)
(***************************************************************************)

CONSTANTS
  RuntimePids, KernelContext,  \* Contexts is RuntimePids and the kernel's
  MaximumContexts,      \* kMaximumContexts
  MaximumHandles,       \* kMaximumHandles
  Disk,                 \* the tree of the root partition or of the live package
  ConfigurationPath,    \* kConfigurationPath
  MaxHandleGen,         \* bound: generations of a descriptor slot
  MaxSpawns             \* bound: processes created

VARIABLES
  storage,      \* g_context_storage, and whether g_contexts names it
  process,      \* the runtime's view of each process
  volume,       \* g_attempted and g_mounted
  lapsed,       \* history: the descriptors each process closed
  spawns

runtime_vars == <<vfs_vars, storage, process, volume, lapsed, spawns>>

Handles == 1..MaximumHandles
NoHandle == [active |-> FALSE, gen |-> 0, file |-> <<0, 0>>]
NoContext == [used |-> FALSE, pid |-> KernelContext, registered |-> FALSE, active |-> FALSE,
              redirected |-> FALSE, handles |-> [i \in Handles |-> NoHandle]]
NoProcess == [state |-> "none", parent |-> KernelContext, handle_count |-> 0]

ActiveHandles(c) == {i \in Handles : storage[c].handles[i].active}

-------------------------------------------------------------------------------
\* The root volume.  No partition with the root's name leaves the attempt open, so
\* that a live package may follow; any later failure is final.
OpenedAndClosed(f) ==
  LET s == Min(FreeOpenSlots)
      a == Min(FreeAdapterSlots(f)) IN
  /\ FreeOpenSlots # {} /\ FreeAdapterSlots(f) # {}
  /\ open_files' = [open_files EXCEPT ![s] = ClosedFile(@.gen + 1)]
  /\ adapters' = [adapters EXCEPT ![f][a] = FreeSlot(@.gen + 1)]
  /\ file_handles' = file_handles \cup {<<s, open_files[s].gen + 1>>}

InitializeVfsBackend(tree) ==
  /\ ConfigurationPath \in DOMAIN tree /\ ~tree[ConfigurationPath].dir
  /\ trees' = [trees EXCEPT ![RootFs] = tree]
  /\ OpenedAndClosed(RootFs)

\* initialize() and initialize_live_package() differ in the backend they make.
InitializeVolume ==
  /\ ~volume.attempted
  /\ \/ InitializeVfsBackend(Disk) /\ volume' = [attempted |-> TRUE, mounted |-> TRUE]
     \/ /\ volume' = [attempted |-> TRUE, mounted |-> FALSE]
        /\ UNCHANGED <<trees, open_files, adapters, file_handles>>
  /\ UNCHANGED <<mounts, contexts, mount_handles, changes, storage, process, lapsed, spawns>>

\* select_path_context: a process's own directory, or the kernel's.
SelectPathContext_kernel(p) == contexts[KernelContext]
SelectPathContext(p) == contexts[p]

\* read_file: the path is looked up twice, and the file closed again.
ReadWhole(p, in) ==
  LET n == NormalizePath(SelectPathContext(p), in)
      f == mounts[RoutePath(n.value)].fs IN
  /\ n.ok /\ LookupCanonical(n.value, in.slash) /\ ~NodeAt(n.value).dir
  /\ OpenedAndClosed(f)

\* The calls on open files and on paths; each refuses before the volume is mounted.
VolumeOpen(p) == volume.mounted /\ OpenFile(p)
VolumeClose(h) == volume.mounted /\ CloseFile(h)
VolumeWrite(h) == volume.mounted /\ WriteFile(h)
VolumeSeek(h) == volume.mounted /\ SeekFile(h)
VolumeReadDir(h) == volume.mounted /\ ReadDir(h)
VolumeCreate(p) == volume.mounted /\ CreateLike(p, FALSE)
VolumeUnlink(p) == volume.mounted /\ RemoveLike(p, FALSE)
VolumeMkdir(p) == volume.mounted /\ CreateLike(p, TRUE)
VolumeRmdir(p) == volume.mounted /\ RemoveLike(p, TRUE)
VolumeRename(p) == volume.mounted /\ RenamePath(p)
VolumeChdir(p) == volume.mounted /\ Chdir(p)

\* A read goes through a bounce buffer, a unit at a time, until one comes short or
\* fails; the units before a failure are consumed, though the call reports only it.
VolumeRead(h) ==
  LET o == open_files[h[1]] IN
  /\ volume.mounted /\ ValidOpenHandle(h) /\ "read" \in o.flags /\ ~o.dir /\ ResolveSlot(h)
  /\ \E size \in StatOpen(Fs(h), Slot(h)), n \in 1..MaxSize :
       o.offset + n <= size /\ MoveOffset(h, o.offset + n)

-------------------------------------------------------------------------------
\* Contexts.
Quiet == \A c \in 1..MaximumContexts :
           storage[c].used => (storage[c].active /\ storage[c].registered)
FreeStorage == {c \in 1..MaximumContexts : ~storage[c].used}
ContextsOf(p) == {c \in 1..MaximumContexts :
                    storage[c].registered /\ storage[c].active /\ storage[c].pid = p}
CurrentContext(p) == CHOOSE c \in ContextsOf(p) : TRUE
Runs(p) == Quiet /\ ContextsOf(p) # {} /\ ~storage[CurrentContext(p)].redirected

AcquireContextStorage(c, p) ==
  [storage EXCEPT ![c] = [NoContext EXCEPT !.used = TRUE, !.pid = p]]
RegisterContext(s, c) == [s EXCEPT ![c].registered = TRUE, ![c].active = TRUE]
ReleaseContextStorage(c) == [storage EXCEPT ![c] = NoContext]

\* A child starts in its creator's directory, whatever either does later.
StartContext(creator, p) ==
  /\ Quiet /\ volume.mounted /\ process[p] = NoProcess /\ spawns < MaxSpawns
  /\ creator = KernelContext \/ (creator \in RuntimePids \ {p} /\ Runs(creator))
  /\ process' = [process EXCEPT ![p].state = "created", ![p].parent = creator]
  /\ contexts' = [contexts EXCEPT ![p] = SelectPathContext(creator)]
  /\ lapsed' = [lapsed EXCEPT ![p] = {}]
  /\ spawns' = spawns + 1
  /\ UNCHANGED <<mounts, open_files, trees, adapters, file_handles, mount_handles, changes,
                 storage, volume>>

\* run() up to the first instruction of the process.  An image that does not load
\* gives back its context through cleanup(), which finds no descriptors.
RunProcess(p, in) ==
  /\ Quiet /\ process[p].state = "created"
  /\ \/ /\ ReadWhole(p, in) /\ FreeStorage # {}
        /\ storage' = RegisterContext(AcquireContextStorage(Min(FreeStorage), p), Min(FreeStorage))
        /\ process' = [process EXCEPT ![p].state = "running"]
     \/ /\ ReadWhole(p, in)
        /\ process' = [process EXCEPT ![p] = NoProcess] /\ UNCHANGED storage
     \/ /\ process' = [process EXCEPT ![p] = NoProcess]
        /\ UNCHANGED <<storage, open_files, adapters, file_handles>>
  /\ UNCHANGED <<mounts, contexts, trees, mount_handles, changes, volume, lapsed, spawns>>

-------------------------------------------------------------------------------
\* Descriptors.
SyncProcessHandleCount(c, s) ==
  [process EXCEPT ![s[c].pid].handle_count = Cardinality({i \in Handles : s[c].handles[i].active})]

SysOpen(p) ==
  /\ Runs(p)
  /\ LET c == CurrentContext(p)
         free == Handles \ ActiveHandles(c)
         i == Min(free)
         s == Min(FreeOpenSlots) IN
     /\ free # {} /\ storage[c].handles[i].gen < MaxHandleGen
     /\ VolumeOpen(p)
     /\ storage' = [storage EXCEPT ![c].handles[i] =
          [active |-> TRUE, gen |-> @.gen + 1, file |-> <<s, open_files[s].gen + 1>>]]
     /\ process' = SyncProcessHandleCount(c, storage')
  /\ UNCHANGED <<volume, lapsed, spawns>>

\* file_handle::resolve, and the file of a descriptor it accepts.
Resolve(p, d) ==
  LET slot == storage[CurrentContext(p)].handles[d[1]] IN slot.active /\ slot.gen = d[2]
FileOf(p, d) == storage[CurrentContext(p)].handles[d[1]].file
Descriptors == Handles \X (1..MaxHandleGen)

Dropped(c, i) == [storage EXCEPT ![c].handles[i].active = FALSE, ![c].handles[i].file = <<0, 0>>]

SysClose(p, d) ==
  /\ Runs(p) /\ Resolve(p, d) /\ VolumeClose(FileOf(p, d))
  /\ storage' = Dropped(CurrentContext(p), d[1])
  /\ process' = SyncProcessHandleCount(CurrentContext(p), storage')
  /\ lapsed' = [lapsed EXCEPT ![p] = @ \cup {d}]
  /\ UNCHANGED <<volume, spawns>>

Held == UNCHANGED <<storage, process, volume, lapsed, spawns>>

SysRead(p, d) == Runs(p) /\ Resolve(p, d) /\ VolumeRead(FileOf(p, d)) /\ Held
SysWrite(p, d) == Runs(p) /\ Resolve(p, d) /\ VolumeWrite(FileOf(p, d)) /\ Held
SysSeek(p, d) == Runs(p) /\ Resolve(p, d) /\ VolumeSeek(FileOf(p, d)) /\ Held
SysReadDir(p, d) == Runs(p) /\ Resolve(p, d) /\ VolumeReadDir(FileOf(p, d)) /\ Held

HandlePathOperation(p) ==
  /\ Runs(p)
  /\ VolumeCreate(p) \/ VolumeUnlink(p) \/ VolumeMkdir(p) \/ VolumeRmdir(p)
  /\ Held
SysRename(p) == Runs(p) /\ VolumeRename(p) /\ Held
SysChdir(p) == Runs(p) /\ VolumeChdir(p) /\ Held

-------------------------------------------------------------------------------
\* The end of a process.  A fault, or a termination asked by another process, sends
\* it to the trampoline, whose only instruction is the exit.
Redirect(p) ==
  /\ Runs(p)
  /\ storage' = [storage EXCEPT ![CurrentContext(p)].redirected = TRUE]
  /\ UNCHANGED <<vfs_vars, process, volume, lapsed, spawns>>

FinishFromInterrupt(p) ==
  /\ Quiet /\ ContextsOf(p) # {}
  /\ storage' = [storage EXCEPT ![CurrentContext(p)].active = FALSE]
  /\ UNCHANGED <<vfs_vars, process, volume, lapsed, spawns>>

CleanupHandle(c) ==
  /\ storage[c].used /\ ~storage[c].active /\ ActiveHandles(c) # {}
  /\ VolumeClose(storage[c].handles[Min(ActiveHandles(c))].file)
  /\ storage' = Dropped(c, Min(ActiveHandles(c)))
  /\ UNCHANGED <<process, volume, lapsed, spawns>>

Cleanup_early(c) ==
  /\ storage[c].used /\ ~storage[c].active
  /\ storage' = ReleaseContextStorage(c)
  /\ process' = [process EXCEPT ![storage[c].pid] = NoProcess]
  /\ UNCHANGED <<vfs_vars, volume, lapsed, spawns>>
Cleanup(c) ==
  /\ storage[c].used /\ ~storage[c].active /\ ActiveHandles(c) = {}
  /\ storage' = ReleaseContextStorage(c)
  /\ process' = [process EXCEPT ![storage[c].pid] = NoProcess]
  /\ UNCHANGED <<vfs_vars, volume, lapsed, spawns>>

-------------------------------------------------------------------------------
RuntimeInit ==
  /\ VfsInit
  /\ storage = [c \in 1..MaximumContexts |-> NoContext]
  /\ process = [p \in RuntimePids |-> NoProcess]
  /\ volume = [attempted |-> FALSE, mounted |-> FALSE]
  /\ lapsed = [p \in RuntimePids |-> {}]
  /\ spawns = 0

RuntimeNext ==
  \/ InitializeVolume
  \/ \E p \in RuntimePids, q \in Contexts : StartContext(q, p)
  \/ \E p \in RuntimePids, in \in Inputs : RunProcess(p, in)
  \/ \E p \in RuntimePids : \/ SysOpen(p) \/ SysRename(p) \/ SysChdir(p) \/ HandlePathOperation(p)
                     \/ Redirect(p) \/ FinishFromInterrupt(p)
  \/ \E p \in RuntimePids, d \in Descriptors :
       SysClose(p, d) \/ SysRead(p, d) \/ SysWrite(p, d) \/ SysSeek(p, d) \/ SysReadDir(p, d)
  \/ \E c \in 1..MaximumContexts : CleanupHandle(c) \/ Cleanup(c)

RuntimeSpec == RuntimeInit /\ [][RuntimeNext]_runtime_vars

-------------------------------------------------------------------------------
\* Every open file of the volume belongs to exactly one descriptor of exactly one
\* context still in use, and every descriptor names an open file: none survives the
\* process that opened it, and none is closed under it.  A descriptor a process closed
\* never resolves for it again, though its slot is used again, and the count kept for
\* the process is that of its descriptors whenever it can be looked at.  The tables of
\* files and mounts under the descriptors keep their own promises.
DescriptorsExact ==
  /\ OpenFilesServed /\ NamespaceStands
  /\ LET used == {c \in 1..MaximumContexts : storage[c].used}
         held == {<<c, i>> \in used \X Handles : storage[c].handles[i].active}
         File(h) == storage[h[1]].handles[h[2]].file IN
     /\ \A h \in held : ValidOpenHandle(File(h)) /\ ResolveSlot(File(h))
     /\ \A s \in 1..OpenSlots : volume.mounted /\ open_files[s].active =>
          Cardinality({h \in held : File(h)[1] = s}) = 1
     /\ \A p \in RuntimePids : Cardinality(ContextsOf(p)) <= 1
     /\ \A p \in RuntimePids : ContextsOf(p) # {} => \A d \in lapsed[p] : ~Resolve(p, d)
     /\ \A c \in used : Quiet => process[storage[c].pid].handle_count = Cardinality(ActiveHandles(c))
     /\ \A p \in RuntimePids : process[p].handle_count > 0 => \E c \in used : storage[c].pid = p

\* The directory of a process is its own: it changes only when that process changes
\* it, or when the process is created, and then it is its creator's at that moment.  A
\* write to append grows the file, whoever else writes it.
\* "Each process owns an independent working directory. A child inherits the cwd"
\* (docs/DEVELOPERS/API_REFERENCE.md:44).
OwnDirectory ==
  /\ AppendGrows
  /\ [][\A p \in RuntimePids :
          IF process[p].state = "none" /\ process'[p].state = "created"
          THEN contexts'[p] = contexts[process'[p].parent]
          ELSE contexts'[p] # contexts[p] => Runs(p) /\ storage' = storage]_runtime_vars
===============================================================================
