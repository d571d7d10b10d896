-------------------------------- MODULE Fat32 --------------------------------
(***************************************************************************)
(* The FAT32 driver (src/kernel/fs/fat32.cpp): how its operations change   *)
(* the disk, one sector write at a time.  A write may fail without effect, *)
(* and the machine may stop between any two; sectors reach the disk in the *)
(* order they are written.  An operation is the list of writes it makes    *)
(* when all goes well and, for each, the writes that clean up when it      *)
(* fails.  Nothing else runs meanwhile (the caller holds the VFS lock), so *)
(* the list is known when the operation starts.  A cluster holds one unit  *)
(* of a file or Slots entries of a directory; a FAT entry fills a sector.  *)
(***************************************************************************)
EXTENDS Naturals, FiniteSets, SequencesExt

CONSTANTS
  MaxCluster,     \* clusters are 2..MaxCluster, 2 being the root directory
  Slots,          \* entries of a directory in one cluster
  FileNames,      \* names
  MaxUnits,       \* bound: units in a file
  MaxTags,        \* bound: entries made
  MaxFaults       \* bound: failed writes

Clusters == 2..MaxCluster
Root == 2
FREE == 0
EOC == 1          \* a value no cluster has
ZeroSlot == [k |-> "zero"]
Deleted == [k |-> "deleted"]
FatData(tag) == [k |-> "data", tag |-> tag]
Entry(name, dir, first, size, tag) ==
  [k |-> "entry", name |-> name, dir |-> dir, first |-> first, size |-> size, tag |-> tag]
ZeroCluster == [s \in 1..Slots |-> ZeroSlot]

VARIABLES
  fat,            \* the two copies of the file allocation table
  content,        \* what each cluster holds, by slot
  hint,           \* filesystem->allocation_hint
  fat_todo, undo,     \* the writes left, and the clean-up of each
  mounted,        \* is_mounted
  tags,           \* entries made so far; an entry's tag tells it from every other
  faults          \* failed writes so far
fat_vars == <<fat, content, hint, fat_todo, undo, mounted, tags, faults>>

-------------------------------------------------------------------------------
\* read_raw_fat_entry(): a sector whose copies differ cannot be read.
MirrorsAgree(c) == fat[1][c] = fat[2][c]

\* The walk along a chain.  It stops with an error at copies that differ, at a value
\* no chain has, and after more hops than there are clusters.
Walk(first) ==
  LET step[n \in 0..MaxCluster, c \in 0..MaxCluster] ==
        IF n = 0 \/ c \notin Clusters \/ ~MirrorsAgree(c) \/ fat[1][c] = FREE
        THEN [ok |-> FALSE, chain |-> <<>>]
        ELSE IF fat[1][c] = EOC THEN [ok |-> TRUE, chain |-> <<c>>]
        ELSE [step[n - 1, fat[1][c]] EXCEPT !.chain = <<c>> \o @]
  IN  IF first = FREE THEN [ok |-> TRUE, chain |-> <<>>] ELSE step[Cardinality(Clusters), first]

\* The entries of a directory, in the order of its slots, up to the end marker.
Positions(dir) == [i \in 1..(Slots * Len(Walk(dir).chain)) |->
                     <<Walk(dir).chain[((i - 1) \div Slots) + 1], ((i - 1) % Slots) + 1>>]
At(pos) == content[pos[1]][pos[2]]
Scanned(dir) ==
  LET p == Positions(dir) IN
  {p[i] : i \in {j \in DOMAIN p : At(p[j]).k = "entry" /\ \A m \in 1..j : At(p[m]) # ZeroSlot}}
LocateDirectoryEntry(dir, name) == {p \in Scanned(dir) : At(p).name = name}

\* Directories reachable from the root.
FatDirectories ==
  LET Below(S) == S \cup {At(p).first : p \in {q \in UNION {Scanned(d) : d \in S} : At(q).dir}}
      grow[n \in 0..MaxCluster] == IF n = 0 THEN {Root} ELSE Below(grow[n - 1])
  IN  grow[Cardinality(Clusters)]
FatEntries == UNION {Scanned(d) : d \in FatDirectories}

-------------------------------------------------------------------------------
\* Writes, as plans: the writes of an operation, and for each the stages of cleaning
\* up that follow its failure.  A failure while cleaning up ends only its stage.
FatW(copy, c, v) == [to |-> "fat", copy |-> copy, c |-> c, v |-> v]
SlotW(pos, e) == [to |-> "slot", c |-> pos[1], s |-> pos[2], v |-> e]
ClusterW(to, c, v) == [to |-> to, c |-> c, v |-> v]
Plan(writes, stages) == [todo |-> writes, undo |-> [i \in DOMAIN writes |-> stages]]
Then(a, b) == [todo |-> a.todo \o b.todo, undo |-> a.undo \o b.undo]
Nothing == Plan(<<>>, <<>>)
CleanUp(stages) ==
  [todo |-> FlattenSeq(stages),
   undo |-> FlattenSeq([j \in DOMAIN stages |->
              [i \in DOMAIN stages[j] |-> SubSeq(stages, j + 1, Len(stages))]])]

\* write_raw_fat_entry(): one copy after the other.
WriteRawFatEntry(c, v) == <<FatW(1, c, v), FatW(2, c, v)>>

\* allocate_cluster(): the free clusters it can find, from the hint on; a FAT sector
\* whose copies differ ends the search.  The new cluster is marked, then zeroed.
FreeFromHint ==
  LET n == Cardinality(Clusters)
      order == [i \in 1..n |-> 2 + ((hint - 2 + i - 1) % n)]
      good == {i \in 1..n : \A j \in 1..i : MirrorsAgree(order[j])}
  IN  SelectSeq(SubSeq(order, 1, Cardinality(good)), LAMBDA c : fat[1][c] = FREE)
AllocateCluster(c, stages) ==
  Then(Plan(WriteRawFatEntry(c, EOC), stages),
       Plan(<<ClusterW("zero", c, ZeroCluster)>>, <<WriteRawFatEntry(c, FREE)>> \o stages))

\* release_chain(): each cluster in turn, head first.
ReleaseChain(chain) == FlattenSeq([i \in DOMAIN chain |-> WriteRawFatEntry(chain[i], FREE)])

\* ensure_file_capacity(): a new chain is built and then linked behind the old one; a
\* failure before that releases what was allocated.  The release stops at the cluster
\* whose second copy could not be written.
EnsureFileCapacity(old, n) ==
  LET new == FreeFromHint
      Release(i) == IF i < 1 THEN <<>> ELSE <<ReleaseChain(SubSeq(new, 1, i))>>
      Link(i) == [todo |-> WriteRawFatEntry(new[i - 1], new[i]),
                  undo |-> <<<<WriteRawFatEntry(new[i], FREE)>> \o Release(i - 1),
                             <<WriteRawFatEntry(new[i], FREE)>> \o Release(i - 2)>>]
      built[i \in 0..Len(new)] ==
        IF i = 0 THEN Nothing
        ELSE Then(built[i - 1], Then(AllocateCluster(new[i], Release(i - 1)),
                                     IF i = 1 THEN Nothing ELSE Link(i)))
  IN  CASE n = 0 -> Nothing
        [] n > Len(new) -> Then(built[Len(new)], CleanUp(Release(Len(new))))
        [] n <= Len(new) /\ old = <<>> -> built[n]
        [] OTHER -> Then(built[n], Plan(WriteRawFatEntry(Last(old), new[1]), Release(n)))

\* find_free_directory_slot(): a deleted slot before the end marker, or the end
\* marker, or the first slot of a cluster added to the directory.
ScanEnds(dir) == Walk(dir).ok \/ \E i \in DOMAIN Positions(dir) : At(Positions(dir)[i]) = ZeroSlot
FreeSlots(dir) ==
  LET p == Positions(dir)
      before == {i \in DOMAIN p : \A j \in 1..(i - 1) : At(p[j]) # ZeroSlot}
      deleted == {i \in before : At(p[i]) = Deleted}
      ends == {i \in before : At(p[i]) = ZeroSlot}
  IN  IF deleted # {} THEN {p[CHOOSE i \in deleted : \A j \in deleted : i <= j]}
      ELSE {p[i] : i \in ends}
FindFreeDirectorySlot(dir) ==
  IF FreeSlots(dir) # {}
  THEN [slot |-> CHOOSE p \in FreeSlots(dir) : TRUE, used |-> 0, plan |-> Nothing]
  ELSE LET c == FreeFromHint[1] IN
       [slot |-> <<c, 1>>, used |-> 1,
        plan |-> Then(AllocateCluster(c, <<>>),
                      Plan(WriteRawFatEntry(Last(Walk(dir).chain), c),
                           <<WriteRawFatEntry(c, FREE)>>))]
CanPublish(dir) == ScanEnds(dir) /\ (FreeSlots(dir) # {} \/ FreeFromHint # <<>>)

-------------------------------------------------------------------------------
FatIdle == mounted /\ fat_todo = <<>>
Start(plan) ==
  /\ FatIdle
  /\ fat_todo' = plan.todo /\ undo' = plan.undo
  /\ UNCHANGED <<fat, content, hint, mounted, faults>>
NewTag == tags < MaxTags /\ tags' = tags + 1

\* create(): an entry without clusters.
CreateFile(dir, name) ==
  /\ CanPublish(dir) /\ LocateDirectoryEntry(dir, name) = {}
  /\ LET found == FindFreeDirectorySlot(dir) IN
     Start(Then(found.plan, Plan(<<SlotW(found.slot, Entry(name, FALSE, FREE, 0, tags + 1))>>, <<>>)))
  /\ NewTag

\* write() of one unit at an offset that may lie behind the end of the file.
WriteAt(pos, offset) ==
  LET e == At(pos)
      old == Walk(e.first)
      needed == IF Len(old.chain) > offset THEN 0 ELSE offset + 1 - Len(old.chain)
      chain == old.chain \o SubSeq(FreeFromHint, 1, needed)
      gap == [i \in 1..(IF offset > e.size THEN offset - e.size ELSE 0) |->
                ClusterW("data", chain[e.size + i], ZeroCluster)]
      data == ClusterW("data", chain[offset + 1], [s \in 1..Slots |-> FatData(e.tag)])
      meta == SlotW(pos, [e EXCEPT !.first = chain[1],
                                   !.size = IF offset + 1 > e.size THEN offset + 1 ELSE e.size])
      capacity == EnsureFileCapacity(old.chain, needed)
  IN  /\ ~e.dir /\ old.ok
      /\ Start(IF needed > Len(FreeFromHint) THEN capacity
               ELSE Then(capacity, Plan(gap \o <<data, meta>>, <<>>)))
      /\ UNCHANGED tags

RetireFile_released_first(pos) ==
  /\ Start(Plan(ReleaseChain(Walk(At(pos).first).chain) \o <<SlotW(pos, Deleted)>>, <<>>))
  /\ UNCHANGED tags
\* unlink() and rmdir(): the entry is retired, then its clusters are released.
RetireFile(pos) ==
  /\ Start(Plan(<<SlotW(pos, Deleted)>> \o ReleaseChain(Walk(At(pos).first).chain), <<>>))
  /\ UNCHANGED tags
FatUnlink(pos) == ~At(pos).dir /\ RetireFile(pos)
RmDir(pos) == At(pos).dir /\ ScanEnds(At(pos).first) /\ Scanned(At(pos).first) = {} /\ RetireFile(pos)

\* rename() within a directory: the name in the entry changes.
RenameEntry(dir, pos, name) ==
  /\ pos \in Scanned(dir) /\ ScanEnds(dir) /\ LocateDirectoryEntry(dir, name) = {}
  /\ Start(Plan(<<SlotW(pos, [At(pos) EXCEPT !.name = name])>>, <<>>))
  /\ UNCHANGED tags

\* mkdir(): a slot in the parent, a cluster, its two dot entries (which take no slot
\* here), then the entry in the parent; a failure after the allocation releases it.
MakeDir(dir, name) ==
  /\ CanPublish(dir) /\ LocateDirectoryEntry(dir, name) = {}
  /\ LET found == FindFreeDirectorySlot(dir)
         free == SubSeq(FreeFromHint, found.used + 1, Len(FreeFromHint))
     IN  Start(IF free = <<>> THEN found.plan
               ELSE Then(found.plan,
                      Then(AllocateCluster(free[1], <<>>),
                           Plan(<<ClusterW("data", free[1], ZeroCluster),
                                  SlotW(found.slot, Entry(name, TRUE, free[1], 0, tags + 1))>>,
                                <<ReleaseChain(<<free[1]>>)>>))))
  /\ NewTag

-------------------------------------------------------------------------------
\* The block device writes a sector, or reports an error and has not.
WriteSector ==
  LET w == Head(fat_todo) IN
  /\ mounted /\ fat_todo # <<>>
  /\ fat' = IF w.to = "fat" THEN [fat EXCEPT ![w.copy][w.c] = w.v] ELSE fat
  /\ content' = CASE w.to = "fat" -> content
                  [] w.to = "slot" -> [content EXCEPT ![w.c][w.s] = w.v]
                  [] OTHER -> [content EXCEPT ![w.c] = w.v]
  /\ hint' = IF w.to = "zero" THEN (IF w.c = MaxCluster THEN 2 ELSE w.c + 1) ELSE hint
  /\ fat_todo' = Tail(fat_todo) /\ undo' = Tail(undo)
  /\ UNCHANGED <<mounted, tags, faults>>
WriteFails ==
  LET plan == CleanUp(Head(undo)) IN
  /\ mounted /\ fat_todo # <<>> /\ faults < MaxFaults
  /\ faults' = faults + 1
  /\ fat_todo' = plan.todo /\ undo' = plan.undo
  /\ UNCHANGED <<fat, content, hint, mounted, tags>>

\* The machine stops in the middle of an operation, and mounts the volume again: the
\* copies of the FAT must agree, and the search for free clusters starts anew.
FatRestart ==
  /\ mounted /\ fat_todo # <<>> /\ faults < MaxFaults
  /\ faults' = faults + 1
  /\ mounted' = \A c \in Clusters : MirrorsAgree(c)
  /\ fat_todo' = <<>> /\ undo' = <<>> /\ hint' = 2
  /\ UNCHANGED <<fat, content, tags>>

\* format(): the root directory is the only cluster in use.
FatInit ==
  /\ fat = [copy \in 1..2 |-> [c \in Clusters |-> IF c = Root THEN EOC ELSE FREE]]
  /\ content = [c \in Clusters |-> ZeroCluster]
  /\ hint = 2 /\ fat_todo = <<>> /\ undo = <<>> /\ mounted = TRUE /\ tags = 0 /\ faults = 0
FatNext ==
  \/ /\ FatIdle
     /\ \/ \E d \in FatDirectories, n \in FileNames :
             \/ CreateFile(d, n)
             \/ MakeDir(d, n)
             \/ \E p \in Scanned(d) : RenameEntry(d, p, n)
        \/ \E p \in FatEntries :
             \/ \E offset \in 0..(MaxUnits - 1) : WriteAt(p, offset)
             \/ FatUnlink(p)
             \/ RmDir(p)
  \/ WriteSector \/ WriteFails \/ FatRestart
FatSpec == FatInit /\ [][FatNext]_fat_vars

-------------------------------------------------------------------------------
FatTypeOK ==
  /\ fat \in [1..2 -> [Clusters -> {FREE, EOC} \cup Clusters]]
  /\ \A c \in Clusters : DOMAIN content[c] = 1..Slots
  /\ hint \in Clusters /\ mounted \in BOOLEAN /\ tags \in 0..MaxTags /\ faults \in 0..MaxFaults
  /\ Len(undo) = Len(fat_todo)

\* read_node() of the whole file: the chain must end with the size.
ReadsBack(e) == Walk(e.first).ok /\ Len(Walk(e.first).chain) = e.size

\* After any failures and restarts, and in the middle of any operation, no cluster is
\* in the chains of two entries (nor twice in the tree), and what a file shows up to its
\* size is zeros or what was written to that same file: release_chain() runs behind
\* retire_directory_entry(), ensure_file_capacity() links only clusters that
\* allocate_cluster() zeroed.
ClustersExclusive ==
  /\ FatTypeOK
  /\ LET entries == FatEntries IN
     \A p \in entries : LET chain == Range(Walk(At(p).first).chain) IN
       Root \notin chain /\ \A q \in entries \ {p} : chain \cap Range(Walk(At(q).first).chain) = {}
  /\ \A p \in FatEntries : LET e == At(p) IN
       ~e.dir => \A i \in 1..e.size : i <= Len(Walk(e.first).chain) =>
                    \A s \in 1..Slots : content[Walk(e.first).chain[i]][s] \in {ZeroSlot, FatData(e.tag)}

\* Without failures an operation, even one that runs out of space, leaves the volume
\* exact: every cluster in use belongs to the tree, and every file reads back whole.
\* With them, no cluster has two owners.
VolumeExact ==
  /\ ClustersExclusive
  /\ FatIdle /\ faults = 0 =>
       /\ {c \in Clusters : fat[1][c] # FREE} =
            Range(Walk(Root).chain) \cup UNION {Range(Walk(At(p).first).chain) : p \in FatEntries}
       /\ \A p \in FatEntries : ~At(p).dir => ReadsBack(At(p))
===============================================================================
