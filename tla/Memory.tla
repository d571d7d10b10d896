-------------------------------- MODULE Memory --------------------------------
(***************************************************************************)
(* Physical frames, page tables and the memory of processes:               *)
(*   kernel/memory/physical_memory.cpp        the frame bitmap             *)
(*   kernel/memory/virtual_memory.cpp         four-level page tables       *)
(*   kernel/memory/kernel_virtual_memory.cpp  the kernel's and the         *)
(*                                            processes' address spaces    *)
(*   kernel/user/elf_loader.cpp               images                       *)
(*   kernel/user/runtime_base.inc             run(), cleanup(), the heap   *)
(*   kernel/storage/dma.cpp                   pages given to devices       *)
(* A page holds Width words.  A word is <<>> (zero), <<v>> (a datum) or a   *)
(* page-table entry <<frame, flags, kind>>: "owned" for a child table that  *)
(* virtual_memory allocated (bit 9), "firmware" for one it did not, "huge"  *)
(* and "leaf".  Virtual addresses count words, page numbers count pages,    *)
(* and table indexes are the digits of a page number to the base Width.     *)
(***************************************************************************)
EXTENDS Integers, Sequences, FiniteSets, FiniteSetsExt, SequencesExt

CONSTANTS Base, FrameCount,      \* the managed range of physical memory
          BitmapFrames,          \* the frames that hold the bitmap itself
          DmaLimit,              \* DMA32_ADDRESS_LIMIT
          Width,                 \* PAGE_TABLE_ENTRY_COUNT, and words in a page
          Spaces,                \* the user contexts
          Executables,           \* the ELF files processes are started from
          UserBase, UserEnd,     \* the user region, in words
          MAX_IMAGE_PAGES,
          StackPages, Trampoline, UserHeapBase, UserHeapEnd,   \* pages of the layout
          UserHeapRequests,          \* sizes of allocations, in pages
          MaxAllocations,
          DriverPages,           \* where drivers map registers
          MaxDma,                \* pages devices hold at a time
          MaxMemoryCalls         \* calls that ask for memory

VARIABLES memory,   \* [used, count, page]: the bitmap, g_used_frames, contents
          root,     \* space -> its root table, 0 without one
          active,   \* the space in CR3
          image,    \* context -> [exe, pages, next_heap, allocations]
          driver_maps,  \* driver page -> mapped
          dma,      \* the frames given to devices
          tested,   \* the result of self_test()
          calls,    \* calls made so far
          work      \* [op, space, todo]: the pages run(), allocate_user(),
                    \* free_user() or cleanup() still has to map or unmap

memory_vars == <<memory, root, active, image, driver_maps, dma, tested, calls, work>>

Kernel == "kernel"
Frames == Base..(Base + FrameCount - 1)
Index == 0..(Width - 1)
Mmio == Base + FrameCount          \* a register page, outside managed memory
FirmwareTable == Mmio + 1          \* a table the firmware left in the root
FirmwareRoot == Mmio + 2
Huge == <<0, {"w"}, "huge">>

Blank == [i \in Index |-> <<>>]
NoImage == [exe |-> <<>>, pages |-> <<>>, next_heap |-> UserHeapBase, allocations |-> {}]

(* A process in the kernel is not preempted: nothing else runs meanwhile. *)
Idle == [op |-> "none", space |-> Kernel, todo |-> <<>>]
Doing(op, s, todo) == [op |-> op, space |-> s, todo |-> todo]

Present(word) == Len(word) = 3

-----------------------------------------------------------------------------
(* physical_memory.cpp *)

ReservedFrames == {f \in Frames : f \in BitmapFrames \/ f = 0}

(* alloc_frame(), alloc_frame_below(): the lowest free frame, 0 for none *)
AllocFrameBelow(m, limit) ==
    LET free == {f \in Frames \ m.used : f < limit}
    IN  IF free = {} THEN 0 ELSE Min(free)

AllocFrame(m) == AllocFrameBelow(m, Base + FrameCount)

Take(m, f) == [m EXCEPT !.used = @ \cup {f}, !.count = @ + 1]

TryFreeFrame(m, f) ==
    IF f \in Frames /\ f \notin ReservedFrames /\ f \in m.used
      THEN [m EXCEPT !.used = @ \ {f}, !.count = @ - 1]
      ELSE m

FreeFrames(m, frames) == FoldLeft(TryFreeFrame, m, frames)

-----------------------------------------------------------------------------
(* virtual_memory.cpp *)

TableIndex(page, level) == (page \div Width^(3 - level)) % Width

(* allocate_child_table() *)
AllocateChildTable(w, i) ==
    LET f == AllocFrame(w.m)
    IN  IF f = 0
          THEN [w EXCEPT !.status = "OutOfMemory"]
          ELSE [status |-> "Ok", table |-> f,
                created |-> Append(w.created, <<w.table, i, f>>),
                m |-> [Take(w.m, f) EXCEPT !.page[f] = Blank,
                                           !.page[w.table][i] = <<f, {"w", "u"}, "owned">>]]

Conflicts(flags, word) ==
    \/ "w" \in flags /\ "w" \notin word[2]
    \/ "u" \in flags /\ "u" \notin word[2]
    \/ "nx" \notin flags /\ "nx" \in word[2]

(* one level of the descent of map_page() *)
Descend(w, level, page, flags) ==
    LET i == TableIndex(page, level)
        word == w.m.page[w.table][i]
    IN  CASE w.status # "Ok" -> w
          [] w.status = "Ok" /\ ~Present(word) -> AllocateChildTable(w, i)
          [] w.status = "Ok" /\ Present(word) /\ word[3] = "huge" ->
               [w EXCEPT !.status = "HugePageConflict"]
          [] w.status = "Ok" /\ Present(word) /\ word[3] # "huge" /\ Conflicts(flags, word) ->
               [w EXCEPT !.status = "PermissionConflict"]
          [] OTHER -> [w EXCEPT !.table = word[1]]

(* rollback_created_tables(): unlink them all, invalidate, then free them *)
Rollback(w) ==
    LET unlinked == FoldLeft(LAMBDA m, c : [m EXCEPT !.page[c[1]][c[2]] = <<>>],
                             w.m, w.created)
    IN  [m |-> FreeFrames(unlinked, [k \in 1..Len(w.created) |-> w.created[k][3]]),
         status |-> w.status]

(* map_page(): the memory after it and its status *)
MapPage(m, top, page, frame, flags) ==
    LET w == FoldLeft(LAMBDA d, level : Descend(d, level, page, flags),
                      [status |-> "Ok", m |-> m, table |-> top, created |-> <<>>],
                      <<0, 1, 2>>)
        i == TableIndex(page, 3)
    IN  IF w.status # "Ok" THEN Rollback(w)
        ELSE IF Present(w.m.page[w.table][i])
               THEN Rollback([w EXCEPT !.status = "AlreadyMapped"])
               ELSE [m |-> [w.m EXCEPT !.page[w.table][i] = <<frame, flags, "leaf">>],
                     status |-> "Ok"]

(* walk_to_leaf(): the tables on the way to a page, root first, and the    *)
(* effective permissions.  "leaf" is the last entry, <<>> if not mapped.   *)
WalkToLeaf(m, top, page) ==
    LET step(p, level) ==
            LET word == m.page[p.tables[level + 1]][TableIndex(page, level)]
            IN  IF ~p.ok \/ ~Present(word) \/ word[3] = "huge"
                  THEN [p EXCEPT !.ok = FALSE]
                  ELSE [p EXCEPT !.tables = Append(@, word[1]),
                                 !.flags = (@ \cap word[2]) \cup ({"nx"} \cap (@ \cup word[2]))]
        path == FoldLeft(step, [ok |-> TRUE, tables |-> <<top>>, flags |-> {"w", "u"}],
                         <<0, 1, 2>>)
        leaf == IF path.ok THEN m.page[path.tables[4]][TableIndex(page, 3)] ELSE <<>>
    IN  [tables |-> path.tables, leaf |-> leaf,
         flags |-> IF Present(leaf)
                     THEN (path.flags \cap leaf[2]) \cup ({"nx"} \cap (path.flags \cup leaf[2]))
                     ELSE {}]

QueryPage(m, top, page) == Present(WalkToLeaf(m, top, page).leaf)

(* unmap_page(): clear the leaf, unlink the empty tables this module owns  *)
(* from the bottom up, then free them                                      *)
UnmapPage(m, top, page) ==
    LET path == WalkToLeaf(m, top, page).tables
        collapse(c, depth) ==
            LET parent == path[depth]
                i == TableIndex(page, depth - 1)
            IN  IF /\ ~c.stop
                   /\ c.m.page[path[depth + 1]] = Blank
                   /\ c.m.page[parent][i][3] = "owned"
                  THEN [c EXCEPT !.m.page[parent][i] = <<>>,
                                 !.detached = Append(@, path[depth + 1])]
                  ELSE [c EXCEPT !.stop = TRUE]
        cleared == [m EXCEPT !.page[path[4]][TableIndex(page, 3)] = <<>>]
        done == FoldLeft(collapse, [m |-> cleared, stop |-> FALSE, detached |-> <<>>],
                         <<3, 2, 1>>)
    IN  FreeFrames(done.m, done.detached)

-----------------------------------------------------------------------------
(* kernel_virtual_memory.cpp: initialize(), over the tables of the firmware *)
MemoryInit ==
    LET empty == [used |-> ReservedFrames, count |-> Cardinality(ReservedFrames),
                  page |-> [f \in Frames \cup {FirmwareTable} |->
                              IF f = FirmwareTable THEN [Blank EXCEPT ![0] = Huge] ELSE Blank]]
        firmware == [Blank EXCEPT ![0] = <<FirmwareTable, {"w"}, "firmware">>]
        top == AllocFrame(empty)
    IN  /\ memory = [Take(empty, top) EXCEPT !.page[top] = firmware]
        /\ root = [s \in Spaces \cup {Kernel} |-> IF s = Kernel THEN top ELSE 0]
        /\ active = Kernel
        /\ image = [s \in Spaces |-> NoImage]
        /\ driver_maps = [p \in DriverPages |-> FALSE]
        /\ dma = {}
        /\ tested = "no"
        /\ work = Idle
        /\ calls = 0

MemoryCalled == calls < MaxMemoryCalls /\ calls' = calls + 1

NoProcess == work = Idle /\ \A s \in Spaces : root[s] = 0

(* self_test(): map a frame, look at it through the mapping, unmap it *)
SelfTest(page) ==
    /\ tested = "no" /\ NoProcess /\ ~QueryPage(memory, root[Kernel], page)
    /\ LET frame == AllocFrame(memory)
           mapped == MapPage(Take(memory, frame), root[Kernel], page, frame, {"w"})
           written == [mapped.m EXCEPT !.page[frame] = [Blank EXCEPT ![0] = <<1>>]]
           seen == WalkToLeaf(written, root[Kernel], page).leaf
           after == TryFreeFrame(UnmapPage(written, root[Kernel], page), frame)
       IN  IF frame = 0
             THEN tested' = "TestFrameAllocationFailed" /\ UNCHANGED memory
             ELSE IF mapped.status # "Ok"
             THEN /\ tested' = "TestMappingFailed"
                  /\ memory' = TryFreeFrame(mapped.m, frame)
             ELSE /\ memory' = after
                  /\ tested' = IF seen[1] # frame THEN "TestTranslationFailed"
                               ELSE IF after.count # memory.count THEN "TestFrameLeak"
                               ELSE "Ok"
    /\ MemoryCalled
    /\ UNCHANGED <<root, active, image, driver_maps, dma, work>>

(* Drivers map and unmap their registers while the machine starts. *)
MapRegisters(page) ==
    /\ NoProcess /\ ~driver_maps[page] /\ ~QueryPage(memory, root[Kernel], page)
    /\ LET mapped == MapPage(memory, root[Kernel], page, Mmio, {"w", "nx"})
       IN  /\ memory' = mapped.m
           /\ driver_maps' = [driver_maps EXCEPT ![page] = mapped.status = "Ok"]
    /\ MemoryCalled
    /\ UNCHANGED <<root, active, image, dma, tested, work>>

UnmapRegisters(page) ==
    /\ NoProcess /\ driver_maps[page]
    /\ memory' = UnmapPage(memory, root[Kernel], page)
    /\ driver_maps' = [driver_maps EXCEPT ![page] = FALSE]
    /\ UNCHANGED <<root, active, image, dma, tested, work, calls>>

(* dma.cpp: a page for a device, below DmaLimit if it cannot address more *)
AllocatePage(wide) ==
    LET f == IF wide THEN AllocFrame(memory) ELSE AllocFrameBelow(memory, DmaLimit)
    IN  /\ work = Idle /\ f # 0 /\ Cardinality(dma) < MaxDma
        /\ memory' = Take(memory, f)
        /\ dma' = dma \cup {f}
        /\ MemoryCalled
        /\ UNCHANGED <<root, active, image, driver_maps, tested, work>>

ReleasePage(f) ==
    /\ work = Idle
    /\ memory' = TryFreeFrame(memory, f)
    /\ dma' = dma \ {f}
    /\ UNCHANGED <<root, active, image, driver_maps, tested, work, calls>>

-----------------------------------------------------------------------------
(* elf_loader.cpp.  A segment is [at, offset, file, size, flags], with at   *)
(* and size in words, and an executable [segments, entry, length].         *)

PageOf(address) == address \div Width
PageEnd(address) == (address + Width - 1) \div Width
SegmentEnd(g) == g.at + g.size
SegmentPages(g) == PageOf(g.at)..(PageEnd(SegmentEnd(g)) - 1)

(* validate_programs() *)
Validate(exe) ==
    /\ \A k \in 1..Len(exe.segments) :
         LET g == exe.segments[k]
         IN  /\ g.file <= g.size /\ (g.at - g.offset) % Width = 0
             /\ ~({"w", "x"} \subseteq g.flags)
             /\ g.offset + g.file <= exe.length
             /\ g.at >= UserBase /\ SegmentEnd(g) <= UserEnd
             /\ \A j \in 1..(k - 1) :
                  /\ SegmentEnd(exe.segments[j]) <= g.at
                       \/ SegmentEnd(g) <= exe.segments[j].at
                  /\ SegmentPages(exe.segments[j]) \cap SegmentPages(g) = {}
    /\ MapThenSumSet(LAMBDA k : Cardinality(SegmentPages(exe.segments[k])),
                     1..Len(exe.segments)) <= MAX_IMAGE_PAGES
    /\ \E k \in 1..Len(exe.segments) :
         LET g == exe.segments[k]
         IN  "x" \in g.flags /\ exe.entry >= g.at /\ exe.entry < SegmentEnd(g)

(* What load() puts in a page of a segment, and with which protection. *)
PageContents(g, page) ==
    LET first == page * Width
        begin == Max({first, g.at})
        end == Min({first + Width, g.at + g.file})
        source == g.offset + (begin - g.at)
    IN  [i \in Index |-> IF first + i >= begin /\ first + i < end
                           THEN << source + (first + i - begin) >> ELSE <<>>]

PageFlags(g) ==
    (IF "w" \in g.flags THEN {"w"} ELSE {}) \cup (IF "x" \notin g.flags THEN {"nx"} ELSE {})

Request(page, contents, flags) == [page |-> page, contents |-> contents, flags |-> flags]

SegmentRequests(g) ==
    LET first == PageOf(g.at)
    IN  [k \in 1..Cardinality(SegmentPages(g)) |->
           Request(first + k - 1, PageContents(g, first + k - 1), PageFlags(g))]

Anonymous(page) == Request(page, Blank, {"w", "nx"})

(* the pages run() maps, in order: the segments, the stack, the trampoline *)
RunRequests(exe) ==
    FlattenSeq([k \in 1..Len(exe.segments) |-> SegmentRequests(exe.segments[k])])
      \o [k \in 1..Len(StackPages) |-> Anonymous(StackPages[k])]
      \o << Request(Trampoline, [Blank EXCEPT ![0] = <<"exit">>], {}) >>

Filled_over_old(m, f, contents) ==
    [m EXCEPT !.page[f] = [i \in Index |-> IF contents[i] = <<>> THEN @[i] ELSE contents[i]]]

(* zero_page(), then copy_bytes() *)
Filled(m, f, contents) == [m EXCEPT !.page[f] = contents]

(* one map_page() of the loader: what failed is undone, last page first *)
MapNext ==
    LET s == work.space
        r == Head(work.todo)
        f == AllocFrame(memory)
        mapped == MapPage(Filled(Take(memory, f), f, r.contents), root[s], r.page, f, r.flags \cup {"u"})
        pages == image[s].pages
        undo == IF work.op = "load"
                  THEN Doing("unload", s, Reverse([k \in 1..Len(pages) |-> pages[k][1]]))
                  ELSE Doing("unwind", s, [k \in 1..(r.page - image[s].next_heap) |-> r.page - k])
    IN  /\ work.op \in {"load", "allocate"} /\ work.todo # <<>>
        /\ \/ /\ Len(pages) >= MAX_IMAGE_PAGES \/ f = 0
              /\ work' = undo
              /\ UNCHANGED <<memory, image>>
           \/ /\ Len(pages) < MAX_IMAGE_PAGES /\ f # 0 /\ mapped.status # "Ok"
              /\ work' = undo
              /\ memory' = TryFreeFrame(mapped.m, f)
              /\ UNCHANGED image
           \/ /\ Len(pages) < MAX_IMAGE_PAGES /\ f # 0 /\ mapped.status = "Ok"
              /\ work' = [work EXCEPT !.todo = Tail(@)]
              /\ memory' = mapped.m
              /\ image' = [image EXCEPT ![s].pages = Append(@, <<r.page, f>>)]
        /\ UNCHANGED <<root, active, driver_maps, dma, tested, calls>>

(* one unmap_owned_page(), or one round of unload(): the last page record  *)
(* takes the place of the one removed                                      *)
UnmapNext ==
    LET s == work.space
        page == Head(work.todo)
        pages == image[s].pages
        k == CHOOSE k \in 1..Len(pages) : pages[k][1] = page
    IN  /\ work.op \in {"unload", "unwind", "free"} /\ work.todo # <<>>
        /\ memory' = TryFreeFrame(UnmapPage(memory, root[s], page), pages[k][2])
        /\ image' = [image EXCEPT ![s].pages =
             SubSeq([pages EXCEPT ![k] = pages[Len(pages)]], 1, Len(pages) - 1)]
        /\ work' = [work EXCEPT !.todo = Tail(@)]
        /\ UNCHANGED <<root, active, driver_maps, dma, tested, calls>>

-----------------------------------------------------------------------------
(* run(): create an address space, validate the file, start loading it *)
Run(s, exe) ==
    LET top == AllocFrame(memory)
        created == [Take(memory, top) EXCEPT !.page[top] = memory.page[root[Kernel]]]
    IN  /\ work = Idle /\ root[s] = 0 /\ top # 0
        /\ IF Validate(exe)
             THEN /\ memory' = created
                  /\ root' = [root EXCEPT ![s] = top]
                  /\ image' = [image EXCEPT ![s].exe = <<exe>>]
                  /\ work' = Doing("load", s, RunRequests(exe))
             ELSE /\ memory' = TryFreeFrame(created, top)
                  /\ UNCHANGED <<root, image, work>>
        /\ active' = Kernel
        /\ MemoryCalled
        /\ UNCHANGED <<driver_maps, dma, tested>>

(* everything is mapped: activate the space and enter the program *)
Enter ==
    /\ work.op = "load" /\ work.todo = <<>>
    /\ active' = work.space
    /\ work' = Idle
    /\ UNCHANGED <<memory, root, image, driver_maps, dma, tested, calls>>

(* another process is dispatched *)
ActivateSpace(s) ==
    /\ work = Idle /\ root[s] # 0 /\ active # s
    /\ active' = s
    /\ UNCHANGED <<memory, root, image, driver_maps, dma, tested, work, calls>>

(* allocate_user(): pages from a heap that only grows *)
AllocateUser(s, count) ==
    LET i == image[s]
    IN  /\ work = Idle /\ active = s
        /\ Cardinality(i.allocations) < MaxAllocations
        /\ count <= MAX_IMAGE_PAGES - Len(i.pages)
        /\ i.next_heap <= UserHeapEnd /\ count <= UserHeapEnd - i.next_heap
        /\ work' = Doing("allocate", s, [k \in 1..count |-> Anonymous(i.next_heap + k - 1)])
        /\ MemoryCalled
        /\ UNCHANGED <<memory, root, active, image, driver_maps, dma, tested>>

Allocated ==
    LET s == work.space
        at == image[s].next_heap
        end == image[s].pages[Len(image[s].pages)][1] + 1
    IN  /\ work.op = "allocate" /\ work.todo = <<>>
        /\ image' = [image EXCEPT ![s].allocations = @ \cup {[at |-> at, count |-> end - at]},
                                  ![s].next_heap = end]
        /\ work' = Idle
        /\ UNCHANGED <<memory, root, active, driver_maps, dma, tested, calls>>

(* free_user() *)
FreeUser(s, a) ==
    /\ work = Idle /\ active = s
    /\ image' = [image EXCEPT ![s].allocations = @ \ {a}]
    /\ work' = Doing("free", s, [k \in 1..a.count |-> a.at + k - 1])
    /\ UNCHANGED <<memory, root, active, driver_maps, dma, tested, calls>>

(* the end of free_user() and of an allocation taken back *)
Unmapped ==
    /\ work.op \in {"unwind", "free"} /\ work.todo = <<>>
    /\ work' = Idle
    /\ UNCHANGED <<memory, root, active, image, driver_maps, dma, tested, calls>>

(* cleanup() after the program: leave its address space, then unload ... *)
Exit(s) ==
    LET pages == image[s].pages
    IN  /\ work = Idle /\ active = s
        /\ active' = Kernel
        /\ work' = Doing("unload", s, Reverse([k \in 1..Len(pages) |-> pages[k][1]]))
        /\ UNCHANGED <<memory, root, image, driver_maps, dma, tested, calls>>

(* destroy_address_space() refuses the active space *)
DestroyAddressSpace(s) ==
    IF active = s THEN memory ELSE TryFreeFrame(memory, root[s])

(* ... and destroy it; also the end of a load that failed *)
Unloaded ==
    LET s == work.space
    IN  /\ work.op = "unload" /\ work.todo = <<>>
        /\ memory' = DestroyAddressSpace(s)
        /\ root' = [root EXCEPT ![s] = 0]
        /\ image' = [image EXCEPT ![s] = NoImage]
        /\ work' = Idle
        /\ UNCHANGED <<active, driver_maps, dma, tested, calls>>

-----------------------------------------------------------------------------
MemoryNext ==
    \/ \E page \in DriverPages :
         SelfTest(page) \/ MapRegisters(page) \/ UnmapRegisters(page)
    \/ \E wide \in BOOLEAN : AllocatePage(wide)
    \/ \E f \in dma : ReleasePage(f)
    \/ \E s \in Spaces :
         \/ \E exe \in Executables : Run(s, exe)
         \/ ActivateSpace(s)
         \/ \E count \in UserHeapRequests : AllocateUser(s, count)
         \/ \E a \in image[s].allocations : FreeUser(s, a)
         \/ Exit(s)
    \/ MapNext \/ UnmapNext \/ Enter \/ Allocated \/ Unmapped \/ Unloaded

MemorySpec == MemoryInit /\ [][MemoryNext]_memory_vars

-----------------------------------------------------------------------------
Live == {s \in Spaces : root[s] # 0}

(* The tables virtual_memory allocated under a root. *)
Children(tables) ==
    {memory.page[t][i][1] : <<t, i>> \in
       {x \in tables \X Index : Present(memory.page[x[1]][x[2]])
                                  /\ memory.page[x[1]][x[2]][3] = "owned"}}
TablesUnder(top) ==
    LET one == Children({top})  two == Children(one)
    IN  one \cup two \cup Children(two)

PrivateTables(s) == TablesUnder(root[s]) \ TablesUnder(root[Kernel])

ImageFrames(s) == {image[s].pages[k][2] : k \in 1..Len(image[s].pages)}

UserPages == PageOf(UserBase)..(PageEnd(UserEnd) - 1)

MemoryTypeOK ==
    /\ memory.used \subseteq Frames /\ memory.count \in Nat
    /\ active \in Spaces \cup {Kernel} /\ dma \subseteq Frames
    /\ tested \in {"no", "Ok", "TestFrameAllocationFailed", "TestMappingFailed"}

(* physical_memory.cpp, virtual_memory.cpp, kernel_virtual_memory.cpp,     *)
(* dma.cpp: every allocated frame has exactly one use: reserved, a root, a *)
(* page table of one tree, a page of one image or of one device.  No tree  *)
(* reaches a free frame, no empty table is kept, and nothing is left of a  *)
(* mapping, a load or a start that failed, nor of a process that ended.    *)
MemoryExact ==
    LET uses == << ReservedFrames, {root[s] : s \in Live \cup {Kernel}},
                   TablesUnder(root[Kernel]), UNION {PrivateTables(s) : s \in Live},
                   UNION {ImageFrames(s) : s \in Live}, dma >>
    IN  /\ MemoryTypeOK
        /\ memory.used = UNION {uses[k] : k \in 1..Len(uses)}
        /\ memory.count = MapThenSumSet(LAMBDA k : Cardinality(uses[k]), 1..Len(uses))
        /\ \A s, o \in Live : s # o =>
             /\ root[s] # root[o]
             /\ PrivateTables(s) \cap PrivateTables(o) = {}
             /\ ImageFrames(s) \cap ImageFrames(o) = {}
        /\ \A t \in TablesUnder(root[Kernel]) \cup UNION {PrivateTables(s) : s \in Live} :
             memory.page[t] # Blank

(* What a page of the user region must hold for a process. *)
Wanted(s, page) ==
    LET exe == image[s].exe[1]
        words == [i \in Index |->
           LET a == page * Width + i
               from == {g \in Range(exe.segments) : a >= g.at /\ a < g.at + g.file}
           IN  IF from = {} THEN <<>> ELSE LET g == CHOOSE g \in from : TRUE
                                           IN  << g.offset + (a - g.at) >>]
        holder == {g \in Range(exe.segments) : page \in SegmentPages(g)}
    IN  CASE holder # {} -> {<<words, PageFlags(CHOOSE g \in holder : TRUE)>>}
          [] holder = {} /\ page = Trampoline -> {<< [Blank EXCEPT ![0] = <<"exit">>], {} >>}
          [] holder = {} /\ page # Trampoline
               /\ \/ page \in Range(StackPages)
                  \/ \E a \in image[s].allocations : page \in a.at..(a.at + a.count - 1) ->
                        {<<Blank, {"w", "nx"}>>}
          [] OTHER -> {}

(* elf_loader.cpp, runtime_base.inc: in the user region of a running       *)
(* process exactly its segments, stack, trampoline and live allocations    *)
(* are mapped, each page holds the bytes of the file or zeros, whatever    *)
(* its frame held before, with exactly the protection of its segment:      *)
(* never writable and executable.  Outside the region the process sees     *)
(* what the kernel sees, and none of it as user.                           *)
ImagesRight ==
    \A s \in Live \ {work.space} :
        /\ \A page \in UserPages :
             LET w == WalkToLeaf(memory, root[s], page)
             IN  IF Present(w.leaf)
                   THEN /\ <<memory.page[w.leaf[1]], w.flags \ {"u"}>> \in Wanted(s, page)
                        /\ "u" \in w.flags
                        /\ w.leaf[1] \in ImageFrames(s)
                   ELSE Wanted(s, page) = {}
        /\ \A page \in DriverPages :
             LET w == WalkToLeaf(memory, root[s], page)
             IN  Present(w.leaf) = driver_maps[page] /\ "u" \notin w.flags

-------------------------------------------------------------------------------
(***************************************************************************)
(* The kernel heap of kernel/memory/allocator.cpp: a first-fit allocator   *)
(* over one region.  The region is a list of blocks in address order, each *)
(* a header and a payload; an allocation puts a prefix in front of the     *)
(* address it returns, from which kfree() finds the block again.           *)
(* Addresses and sizes are bytes; the sizes of the two structures and      *)
(* their alignment are parameters.                                         *)
(***************************************************************************)

CONSTANTS HeapBase, HeapBytes,     \* the region given to init_kernel_heap()
          HeaderSize, PrefixSize,  \* sizeof BlockHeader, AllocationPrefix
          HeaderAlign,             \* the alignment of both
          HeapRequests,            \* the <<size, alignment>> pairs asked for
          MaxLive                  \* allocations alive at a time

ASSUME HeapAssumption ==
    /\ HeaderAlign \in Nat \ {0} /\ HeaderSize > 0 /\ PrefixSize > 0
    /\ HeaderSize % HeaderAlign = 0 /\ PrefixSize % HeaderAlign = 0

VARIABLES blocks,       \* the block list: <<[at, size, used], ...>>
          prefixes,     \* user address -> [block, size, alignment]
          used_bytes, allocation_count

heap_vars == <<blocks, prefixes, used_bytes, allocation_count>>

AlignUp(value, alignment) == ((value + alignment - 1) \div alignment) * alignment

MinimumFreePayload == PrefixSize + 1

PayloadStart(b) == b.at + HeaderSize
PayloadEnd(b) == PayloadStart(b) + b.size

HeapInit ==
    LET start == AlignUp(HeapBase, HeaderAlign)
        size == HeapBase + HeapBytes - start
    IN  /\ blocks = IF size < HeaderSize + MinimumFreePayload
                      THEN <<>>
                      ELSE << [at |-> start, size |-> size - HeaderSize, used |-> FALSE] >>
        /\ prefixes = << >>
        /\ used_bytes = 0
        /\ allocation_count = 0

-----------------------------------------------------------------------------
UserAddress(b, alignment) ==
    AlignUp(PayloadStart(b) + PrefixSize, Max({alignment, HeaderAlign}))

(* calculate_layout(): does the request fit in the block ... *)
HeapFits(b, size, alignment) ==
    UserAddress(b, alignment) + size <= PayloadEnd(b)

(* ... and how much of the payload it takes, up to where a header may start *)
ConsumedPayload(b, size, alignment) ==
    LET split == AlignUp(UserAddress(b, alignment) + size, HeaderAlign)
    IN  IF split <= PayloadEnd(b) THEN split - PayloadStart(b) ELSE b.size

FindFreeBlock(size, alignment) ==
    {i \in 1..Len(blocks) : ~blocks[i].used /\ HeapFits(blocks[i], size, alignment)}

(* The blocks that replace a free block of which `consumed` bytes are taken. *)
Split(b, consumed) ==
    LET remainder == b.size - consumed
    IN  IF remainder >= HeaderSize + MinimumFreePayload
          THEN << [b EXCEPT !.size = consumed, !.used = TRUE],
                  [at |-> PayloadStart(b) + consumed,
                   size |-> remainder - HeaderSize, used |-> FALSE] >>
          ELSE << [b EXCEPT !.used = TRUE] >>

Kmalloc(size, alignment) ==
    /\ Cardinality(DOMAIN prefixes) < MaxLive
    /\ FindFreeBlock(size, alignment) # {}
    /\ LET i == Min(FindFreeBlock(size, alignment))
           b == blocks[i]
       IN  /\ blocks' = SubSeq(blocks, 1, i - 1)
                          \o Split(b, ConsumedPayload(b, size, alignment))
                          \o SubSeq(blocks, i + 1, Len(blocks))
           /\ prefixes' = [a \in DOMAIN prefixes \cup {UserAddress(b, alignment)} |->
                             IF a = UserAddress(b, alignment)
                               THEN [block |-> b.at, size |-> size, alignment |-> alignment]
                               ELSE prefixes[a]]
    /\ used_bytes' = used_bytes + size
    /\ allocation_count' = allocation_count + 1

-----------------------------------------------------------------------------
(* merge_with_next() on block i of a list *)
MergeWithNext(list, i) ==
    IF i < Len(list) /\ ~list[i + 1].used /\ PayloadEnd(list[i]) = list[i + 1].at
      THEN SubSeq(list, 1, i - 1)
             \o << [list[i] EXCEPT !.size = @ + HeaderSize + list[i + 1].size] >>
             \o SubSeq(list, i + 2, Len(list))
      ELSE list

MergeBoth(list, i) ==
    LET forward == MergeWithNext(list, i)
    IN  IF i > 1 /\ ~forward[i - 1].used THEN MergeWithNext(forward, i - 1) ELSE forward

Kfree(address) ==
    \E i \in 1..Len(blocks) :
        LET p == prefixes[address]
            b == blocks[i]
        IN  /\ b.at = p.block /\ b.used
            /\ address - PrefixSize >= PayloadStart(b)
            /\ address + p.size <= PayloadEnd(b)
            /\ blocks' = MergeBoth([blocks EXCEPT ![i].used = FALSE], i)
            /\ prefixes' = [a \in DOMAIN prefixes \ {address} |-> prefixes[a]]
            /\ used_bytes' = IF p.size <= used_bytes THEN used_bytes - p.size ELSE 0
            /\ allocation_count' = IF allocation_count > 0 THEN allocation_count - 1 ELSE 0

HeapNext ==
    \/ \E r \in HeapRequests : Kmalloc(r[1], r[2])
    \/ \E a \in DOMAIN prefixes : Kfree(a)

HeapSpec == HeapInit /\ [][HeapNext]_heap_vars

-----------------------------------------------------------------------------
HeapTypeOK ==
    /\ \A i \in DOMAIN blocks : blocks[i] \in [at : Nat, size : Nat, used : BOOLEAN]
    /\ used_bytes \in Nat /\ allocation_count \in Nat

(* The bytes an allocation owns: its prefix and what was asked for. *)
Bytes(a) == (a - PrefixSize)..(a + prefixes[a].size - 1)

(* allocator.cpp: the block list always covers the region with no gap and  *)
(* no overlap, its headers are aligned, no two free blocks are neighbours  *)
(* (kfree() merges both ways), every allocation lies with its prefix in    *)
(* the payload of a used block of its own, is aligned as asked for and can *)
(* be freed, and the two counters are exact.                               *)
HeapExact ==
    /\ HeapTypeOK
    /\ blocks # <<>> =>
         /\ blocks[1].at = AlignUp(HeapBase, HeaderAlign)
         /\ PayloadEnd(blocks[Len(blocks)]) = HeapBase + HeapBytes
         /\ \A i \in 1..Len(blocks) - 1 :
              /\ PayloadEnd(blocks[i]) = blocks[i + 1].at
              /\ blocks[i].used \/ blocks[i + 1].used
         /\ \A i \in 1..Len(blocks) : blocks[i].at % HeaderAlign = 0
    /\ \A a \in DOMAIN prefixes :
         /\ a % prefixes[a].alignment = 0
         /\ \E i \in 1..Len(blocks) :
              /\ blocks[i].at = prefixes[a].block /\ blocks[i].used
              /\ Bytes(a) \subseteq PayloadStart(blocks[i])..(PayloadEnd(blocks[i]) - 1)
              /\ \A o \in DOMAIN prefixes \ {a} : prefixes[o].block # blocks[i].at
    /\ Cardinality({i \in 1..Len(blocks) : blocks[i].used}) = Cardinality(DOMAIN prefixes)
    /\ allocation_count = Cardinality(DOMAIN prefixes)
    /\ used_bytes = MapThenSumSet(LAMBDA a : prefixes[a].size, DOMAIN prefixes)

\* Frames, address spaces and the kernel heap: nothing is lost, nothing is given twice, and
\* a process sees its image and nothing else.
MemoryKept == MemoryExact /\ ImagesRight /\ HeapExact
===============================================================================
