-------------------------------- MODULE MCFiles --------------------------------
(***************************************************************************)
(* An instance for TLC of the file systems, of the disk drivers and of the *)
(* desktop.  Each is explored while the others rest in one of their        *)
(* initial states.                                                         *)
(*                                                                         *)
(* The names and the contents of files are interchangeable, so KuroFS      *)
(* starts with given ones.                                                 *)
(***************************************************************************)
EXTENDS ReliableFile, KuroFs, Fat32, RamFs, Disks, Windows

\* KuroFS: one operation with a failing request and two power losses, or with a failing
\* request and two restarts; two operations and a power loss.
Budget(o, f, l, r) == [ops |-> o, faults |-> f, losses |-> l, resets |-> r]
EachInterrupted == {Budget(1, 1, 2, 0), Budget(1, 1, 0, 2), Budget(2, 0, 1, 0)}
GivenVolume ==
  /\ disk[<<"data", 1>>][1].name = "a" /\ disk[<<"data", 1>>][2].name = "b"
  /\ disk[<<"data", 2>>] = CHOOSE v \in Data : TRUE

RamPath(comps, slash) == [comps |-> comps, slash |-> slash]
RamArguments ==
  {RamPath(<<"a">>, FALSE), RamPath(<<"b">>, TRUE), RamPath(<<"a", "b">>, FALSE), RamPath(<<"a", "..", "c">>, FALSE)}

RegisteredDisks == <<"ahci">>

\* A login, its session, and an application in it.
ParentsOf == [L1 |-> "init", H1 |-> "L1", A1 |-> "H1"]
Titles == [L1 |-> {"login"}, H1 |-> {"home"}, A1 |-> {"terminal", "performance"}]
AskedBounds == {R(100, 100, 300, 200)}
Command(type) == [type |-> type, flags |-> {}, value |-> 0, maximum |-> 0]
Frames ==
  {[kind |-> "native", version |-> 2, commands |-> <<Command("button")>>],
   [kind |-> "native", version |-> 1, commands |-> <<Command("tile")>>],
   [kind |-> "text", lines |-> 1]}
\* On a title bar, in a window, on its close button, and on the dock.
Points == {<<105, 105>>, <<250, 200>>, <<323, 112>>, <<225, 550>>}
Session == <<"H1", "A1">>
FirstScreen == <<800, 600>>
ScreenSizes == {<<800, 600>>, <<640, 480>>}

-------------------------------------------------------------------------------
Parts == {"reliable", "kurofs", "fat", "ram", "ahci", "nvme", "virtio", "windows", "queue"}

\* A part is in one chosen initial state.
Resting(part) ==
  CASE part = "reliable" -> calls = 0 /\ pc = "idle" /\ fs.target = None
    [] part = "kurofs" -> left = Budget(2, 0, 1, 0) /\ state = "up" /\ op = Idle /\ ~geometry.moves
    [] part = "fat" -> tags = 0 /\ faults = 0 /\ FatIdle
    [] part = "ram" -> ram.count = 1 /\ ram.blocks = 1
    [] part = "ahci" -> PortAt("pci") /\ port.status = "NotInitialized"
    [] part = "nvme" -> NvmeAt("off") /\ io = NoIo
    [] part = "virtio" -> virtio.calls = 0 /\ registry = <<>>
    [] part = "windows" -> spent.calls = 0 /\ spent.inputs = MaxUiInputs - 1 /\ \A p \in UiPids : procs_ui[p] = "unborn"
    [] part = "queue" -> accepted_events = <<>>
Only(part) == \A other \in Parts \ {part} : Resting(other)

FileVars == <<reliable_vars, vars, fat_vars, ram_vars>>
DiskVars == <<ahci_vars, nvme_vars, virtio_vars>>
DeskVars == <<windows_vars, queue_vars>>

BenchInit ==
  /\ ReliableInit /\ Init /\ GivenVolume /\ FatInit /\ RamInit
  /\ AhciInit /\ NvmeInit /\ VirtioInit
  /\ WindowsInit /\ QueueInit
  /\ \E part \in Parts : Only(part)

FilesNext ==
  \/ Only("reliable") /\ ReliableNext /\ UNCHANGED <<vars, fat_vars, ram_vars>>
  \/ Only("kurofs") /\ Next /\ UNCHANGED <<reliable_vars, fat_vars, ram_vars>>
  \/ Only("fat") /\ FatNext /\ UNCHANGED <<reliable_vars, vars, ram_vars>>
  \/ Only("ram") /\ RamNext /\ UNCHANGED <<reliable_vars, vars, fat_vars>>
DisksNext ==
  \/ Only("ahci") /\ AhciNext /\ UNCHANGED <<nvme_vars, virtio_vars>>
  \/ Only("nvme") /\ NvmeNext /\ UNCHANGED <<ahci_vars, virtio_vars>>
  \/ Only("virtio") /\ VirtioNext /\ UNCHANGED <<ahci_vars, nvme_vars>>
DeskNext ==
  \/ Only("windows") /\ WindowsNext /\ UNCHANGED queue_vars
  \/ Only("queue") /\ QueueNext /\ UNCHANGED windows_vars

BenchNext ==
  \/ FilesNext /\ UNCHANGED <<DiskVars, DeskVars>>
  \/ DisksNext /\ UNCHANGED <<FileVars, DeskVars>>
  \/ DeskNext /\ UNCHANGED <<FileVars, DiskVars>>

BenchSpec == BenchInit /\ [][BenchNext]_<<FileVars, DiskVars, DeskVars>>

-------------------------------------------------------------------------------
\* The two file systems that are not journalled keep their trees exact: FAT32 its
\* chains of clusters, and the one in memory its entries, its counters and the heap.
VolumesExact == VolumeExact /\ RamTreeExact
===============================================================================
