-------------------------------- MODULE Disks ---------------------------------
(***************************************************************************)
(* The drivers of the disks, one after the other: AHCI, NVMe and VirtIO.   *)
(*                                                                         *)
(* One SATA port of the AHCI driver (src/kernel/storage/ahci.cpp): its     *)
(* configuration, which may fail at every wait on the hardware, the        *)
(* release of its two DMA pages, and requests that go sector by sector     *)
(* through one command slot and one bounce page.  The device carries out   *)
(* the command in the slot when it likes, also after the driver has given  *)
(* up waiting.  The caller holds the VFS lock: one request at a time.      *)
(***************************************************************************)
EXTENDS Naturals, Sequences, FiniteSets, TLC, SequencesExt

CONSTANTS
  AhciSectors,         \* sectors of the disk, 1..n; each holds its own number at first
  NewValues,       \* values written
  MaxAhciRequests  \* bound: requests made

AhciPages == {"command", "bounce"}
NoCommand == [op |-> "none"]
Identify == [op |-> "identify"]
AhciFlush == [op |-> "flush"]
NoRequest == [op |-> "none", first |-> 0, n |-> 0, data |-> <<>>, done |-> 0, out |-> <<>>, made |-> 0]

VARIABLES
  port,            \* g_ports[0]
  hba,             \* the registers of the port, the disk and the bounce page
  req              \* the caller's request
ahci_vars == <<port, hba, req>>

PortAt(pc) == port.pc = pc
PortGo(pc) == [port EXCEPT !.pc = pc]
PortFails(status) == [port EXCEPT !.pc = "release", !.status = status]

-------------------------------------------------------------------------------
\* initialize_controller(): the BAR is probed and mapped, bus mastering enabled, the
\* controller taken from the firmware and reset; a failure undoes what was done.
MapMmio(ok) == IF ok THEN [port EXCEPT !.mapped = TRUE] ELSE port
ClaimController(mapped, ok) ==
  IF ok THEN [mapped EXCEPT !.pc = "off", !.bus_master = TRUE]
  ELSE [mapped EXCEPT !.pc = "failed", !.mapped = FALSE]
InitializeController ==
  /\ PortAt("pci")
  /\ \E found, map_ok, claim_ok \in BOOLEAN :
       port' = IF found /\ map_ok THEN ClaimController(MapMmio(map_ok), claim_ok)
               ELSE PortGo("failed")
  /\ UNCHANGED <<hba, req>>

\* sata_device_present() and configure_port(): stop_engine(), then two DMA pages.
StopFirst ==
  /\ PortAt("off")
  /\ \/ port' = PortGo("allocate")
     \/ \E s \in {"NoSataDevice", "PortStopTimeout"} :
          port' = [port EXCEPT !.pc = "failed", !.status = s]
  /\ UNCHANGED <<hba, req>>
AllocatePages ==
  /\ PortAt("allocate")
  /\ \/ port' = [port EXCEPT !.pc = "start", !.held = AhciPages]
     \/ port' = [port EXCEPT !.pc = "failed", !.status = "DmaAllocationFailed"]
  /\ UNCHANGED <<hba, req>>

\* start_engine(): reception of FISes first, then the command list.
StartEngine ==
  /\ PortAt("start")
  /\ \E fr, cr \in BOOLEAN :
       /\ cr => fr
       /\ hba' = [hba EXCEPT !.fr = TRUE, !.st = fr]
       /\ port' = IF cr THEN [PortGo("signature") EXCEPT !.engine_running = TRUE]
                  ELSE PortFails("PortStartTimeout")
  /\ UNCHANGED req
\* wait_for_sata_signature() and wait_device_ready().
WaitForDevice ==
  /\ PortAt("signature")
  /\ \/ port' = PortGo("identify")
     \/ \E s \in {"NoSataDevice", "DeviceBusyTimeout"} : port' = PortFails(s)
  /\ UNCHANGED <<hba, req>>

-------------------------------------------------------------------------------
\* issue_command(): refused on an offline port or a busy slot, or when the device stays
\* busy; then the command goes into the slot.
IssueCommand(cmd, from, to, fail) ==
  /\ PortAt(from)
  /\ \/ /\ port.offline \/ ~port.engine_running
        /\ port' = [port EXCEPT !.pc = fail, !.status = "PortOffline"] /\ UNCHANGED hba
     \/ /\ ~port.offline /\ port.engine_running
        /\ \/ /\ port.command_active \/ hba.ci # NoCommand
              /\ port' = [port EXCEPT !.pc = fail, !.status = "CommandSlotBusy"] /\ UNCHANGED hba
           \/ /\ ~port.command_active /\ hba.ci = NoCommand
              /\ \/ port' = [port EXCEPT !.pc = fail, !.status = "DeviceBusyTimeout"] /\ UNCHANGED hba
                 \/ /\ hba' = [hba EXCEPT !.ci = cmd, !.error = FALSE, !.short = FALSE]
                    /\ port' = [port EXCEPT !.pc = to, !.command_active = TRUE]
  /\ UNCHANGED req

\* The wait of issue_command(): the slot clears, or an error shows and the slot clears
\* or not, or the budget runs out.  A port whose command may still run is taken offline.
Completed(pc, ok, fail) ==
  /\ PortAt(pc)
  /\ \/ /\ hba.ci = NoCommand          \* the slot has cleared
        /\ \E interface_error \in BOOLEAN :
             LET status == CASE interface_error -> "InterfaceError"
                             [] ~interface_error /\ hba.error -> "TaskFileError"
                             [] ~interface_error /\ ~hba.error /\ hba.short -> "ShortTransfer"
                             [] OTHER -> "Ok"
             IN  port' = [port EXCEPT !.pc = IF status = "Ok" THEN ok ELSE fail,
                                      !.status = status, !.command_active = FALSE,
                                      !.offline = @ \/ interface_error]
     \/ /\ hba.ci # NoCommand          \* the budget runs out
        /\ port' = [port EXCEPT !.pc = fail, !.status = "CommandTimeout", !.command_active = FALSE,
                                !.offline = TRUE, !.dma_may_be_active = TRUE]
  /\ UNCHANGED <<hba, req>>

IssueIdentify == IssueCommand(Identify, "identify", "identifying", "release")
IdentifyDone == Completed("identifying", "register", "release")

\* parse_identify() and register_device().
RegisterPort ==
  /\ PortAt("register")
  /\ \/ port' = [port EXCEPT !.pc = "idle", !.registered = TRUE]
     \/ \E s \in {"InvalidIdentifyData", "DeviceLimitReached"} : port' = PortFails(s)
  /\ UNCHANGED <<hba, req>>

\* release_port_memory() after a failure: the pages stay when a command may still run
\* or the engine does not stop.
ReleasePortMemory ==
  /\ PortAt("release")
  /\ \/ /\ port.dma_may_be_active
        /\ port' = PortGo("failed") /\ UNCHANGED hba
     \/ /\ ~port.dma_may_be_active /\ port.engine_running
        /\ port' = [PortGo("failed") EXCEPT !.dma_may_be_active = TRUE]   \* stop_engine() fails
        /\ UNCHANGED hba
     \/ /\ ~port.dma_may_be_active
        /\ hba' = IF port.engine_running THEN [hba EXCEPT !.st = FALSE, !.fr = FALSE, !.ci = NoCommand]
                  ELSE hba
        /\ port' = [PortGo("failed") EXCEPT !.engine_running = FALSE, !.held = {}]
  /\ UNCHANGED req

-------------------------------------------------------------------------------
\* read_blocks_callback(), write_blocks_callback(), flush_callback().
Request(op, first, n, data) ==
  /\ PortAt("idle") /\ req.made < MaxAhciRequests
  /\ ~port.offline /\ port.registered
  /\ op # "flush" => first + n - 1 \in AhciSectors
  /\ req' = [op |-> op, first |-> first, n |-> n, data |-> data, done |-> 0, out |-> <<>>,
             made |-> req.made + 1]
  /\ port' = PortGo("next")
  /\ UNCHANGED hba
Chunk == req.first + req.done
NextChunk ==
  /\ PortAt("next")
  /\ IF req.done = req.n THEN port' = [port EXCEPT !.pc = "returned", !.status = "Ok"] /\ UNCHANGED hba
     ELSE /\ port' = PortGo("issue")
          /\ hba' = IF req.op = "write" THEN [hba EXCEPT !.bounce = req.data[req.done + 1]] ELSE hba
  /\ UNCHANGED req
IssueChunk ==
  IssueCommand(IF req.op = "flush" THEN AhciFlush ELSE [op |-> req.op, sector |-> Chunk],
               "issue", "polling", "returned")
ChunkDone == Completed("polling", "copy", "returned")
CopyChunk ==
  /\ PortAt("copy")
  /\ req' = [req EXCEPT !.done = @ + 1, !.out = IF req.op = "read" THEN Append(@, hba.bounce) ELSE @]
  /\ port' = PortGo("next")
  /\ UNCHANGED hba
AhciReturn ==
  /\ PortAt("returned")
  /\ port' = PortGo("idle")
  /\ req' = [NoRequest EXCEPT !.made = req.made]
  /\ UNCHANGED hba

-------------------------------------------------------------------------------
\* The device carries out the command, or part of it, or reports an error.
Execute(c, error, short) ==
  LET whole == ~error /\ ~short IN
  [hba EXCEPT !.ci = NoCommand, !.error = error, !.short = short,
              !.bounce = IF whole /\ c.op = "read" THEN hba.disk[c.sector] ELSE @,
              !.disk = IF whole /\ c.op = "write" THEN [@ EXCEPT ![c.sector] = hba.bounce] ELSE @]
DeviceStep ==
  /\ hba.ci # NoCommand /\ hba.st
  /\ \E error, short \in BOOLEAN :
       /\ short => hba.ci.op \in {"read", "write"}
       /\ hba' = Execute(hba.ci, error, short)
  /\ UNCHANGED <<port, req>>

AhciInit ==
  /\ port = [pc |-> "pci", mapped |-> FALSE, bus_master |-> FALSE, 
             status |-> "NotInitialized", held |-> {}, engine_running |-> FALSE,
             command_active |-> FALSE, offline |-> FALSE, dma_may_be_active |-> FALSE,
             registered |-> FALSE]
  /\ hba = [fr |-> FALSE, st |-> FALSE, ci |-> NoCommand, error |-> FALSE, short |-> FALSE,
            disk |-> [s \in AhciSectors |-> s], bounce |-> 0]
  /\ req = NoRequest
AhciNext ==
  \/ InitializeController \/ StopFirst \/ AllocatePages \/ StartEngine \/ WaitForDevice
  \/ IssueIdentify \/ IdentifyDone \/ RegisterPort \/ ReleasePortMemory
  \/ \E first \in AhciSectors, n \in 1..2 :
       Request("read", first, n, <<>>) \/ \E v \in NewValues : Request("write", first, n, <<v, v>>)
  \/ Request("flush", 0, 1, <<>>)
  \/ NextChunk \/ IssueChunk \/ ChunkDone \/ CopyChunk \/ AhciReturn
  \/ DeviceStep
AhciSpec == AhciInit /\ [][AhciNext]_ahci_vars

-------------------------------------------------------------------------------
AhciTypeOK ==
  /\ port.held \subseteq AhciPages
  /\ hba.disk \in [AhciSectors -> AhciSectors \cup NewValues]
  /\ req.made \in 0..MaxAhciRequests /\ req.done \in 0..2

\* A page that a command in the slot reads or writes is never given back, however late
\* the device carries it out (issue_command() after a timeout, release_port_memory()).
\* The registers the driver polls stay mapped, with bus mastering, as long as a page is held.
AhciPagesHeld ==
  /\ AhciTypeOK
  /\ hba.ci # NoCommand => port.held = AhciPages
  /\ port.held # {} => port.mapped /\ port.bus_master

\* A request that returns Ok has moved every sector: a read returns what the disk
\* holds, a written value is on the disk, although commands time out, fail or transfer
\* too little, and the bounce page is shared by all of them.
AhciOkMeansMoved ==
  PortAt("returned") /\ port.status = "Ok" =>
    \A i \in 1..req.n :
      /\ req.op = "read" => req.out[i] = hba.disk[req.first + i - 1]
      /\ req.op = "write" => hba.disk[req.first + i - 1] = req.data[i]

-------------------------------------------------------------------------------
(***************************************************************************)
(* The NVMe driver (src/kernel/storage/nvme.cpp): the start of a           *)
(* controller with its release after any failure, and requests that go     *)
(* through one I/O queue pair and one DMA page.  A command the driver gave *)
(* up on stays with the controller, which takes commands in the order of   *)
(* the submission queue, so its late completion lies before those of the   *)
(* commands after it.  Command identifiers are taken modulo Ids; the       *)
(* admin queue is used the same way, and only its outcome is modelled.     *)
(***************************************************************************)

CONSTANTS
  Blocks,          \* blocks of the namespace, 1..n; each holds its own number at first
  WriteValues,     \* values written
  QueueEntries,    \* io_queue_entries
  Ids,             \* command identifiers are 1..Ids
  MaxNvmeRequests  \* bound: requests made

NvmePages == {"admin_sq", "admin_cq", "identify", "io_sq", "io_cq", "io"}
AdminPages == {"admin_sq", "admin_cq", "identify"}
NoIo == [op |-> "none", first |-> 0, n |-> 0, data |-> <<>>, done |-> 0, out |-> <<>>,
         ok |-> FALSE, made |-> 0]
NoCompletion == [id |-> 0, success |-> FALSE, phase |-> FALSE]

VARIABLES
  nvme,            \* g_controller
  ctrl,            \* the controller: enabled, the commands it has, its completions, disk, page
  io               \* the caller's request
nvme_vars == <<nvme, ctrl, io>>

\* A controller out of reset: empty queues, a zeroed completion queue.
NewController(disk) ==
  [enabled |-> FALSE, sq |-> [i \in 0..(QueueEntries - 1) |-> NoCompletion], sq_head |-> 0, sq_tail |-> 0,
   cq |-> [i \in 0..(QueueEntries - 1) |-> NoCompletion], cq_head |-> 0, cq_tail |-> 0,
   cq_phase |-> TRUE, disk |-> disk, page |-> 0]
Disabled == NewController(ctrl.disk)

NvmeAt(pc) == nvme.pc = pc
NvmeGo(pc) == [nvme EXCEPT !.pc = pc]

-------------------------------------------------------------------------------
\* initialize(): the PCI command and the BAR, then map_mmio().
InitializeNvme ==
  /\ NvmeAt("off")
  /\ \/ nvme' = [NvmeGo("enable") EXCEPT !.mapped = TRUE, !.pci_enabled = TRUE]
     \/ nvme' = [NvmeGo("release") EXCEPT !.pci_enabled = TRUE]
  /\ UNCHANGED <<ctrl, io>>

\* enable_controller(): a running controller is stopped, the admin pages are taken, the
\* controller is started; each may fail, and pages already taken stay for the release.
EnableController ==
  /\ NvmeAt("enable")
  /\ \/ \E taken \in SUBSET AdminPages :
          nvme' = [NvmeGo("release") EXCEPT !.held = taken] /\ UNCHANGED ctrl
     \/ \E ready \in BOOLEAN :
          /\ nvme' = [NvmeGo(IF ready THEN "identify" ELSE "release") EXCEPT
                        !.held = AdminPages, !.controller_enabled = TRUE]
          /\ ctrl' = [ctrl EXCEPT !.enabled = TRUE]
  /\ UNCHANGED io

\* identify_controller(), identify_namespace().
IdentifyNvme ==
  /\ NvmeAt("identify")
  /\ \E ok \in BOOLEAN : nvme' = NvmeGo(IF ok THEN "queues" ELSE "release")
  /\ UNCHANGED <<ctrl, io>>

\* create_io_queues().
CreateIoQueues ==
  /\ NvmeAt("queues")
  /\ \/ \E taken \in SUBSET (NvmePages \ AdminPages) :
          nvme' = [NvmeGo("release") EXCEPT !.held = @ \cup taken]
     \/ nvme' = [NvmeGo("qualify") EXCEPT !.held = NvmePages, !.io_ready = TRUE,
                   !.tail = 0, !.head = 0, !.phase = TRUE, !.next_id = 0]
  /\ UNCHANGED <<ctrl, io>>

-------------------------------------------------------------------------------
\* submit_io(): the command goes into the queue and its doorbell is rung; whether there
\* is room is not asked.
NextIoCommandId == IF nvme.next_id = Ids THEN 1 ELSE nvme.next_id + 1
SubmitIo(cmd, to) ==
  /\ nvme' = [NvmeGo(to) EXCEPT !.next_id = NextIoCommandId, !.tail = (@ + 1) % QueueEntries]
  /\ ctrl' = [ctrl EXCEPT !.sq[nvme.tail] = cmd @@ [id |-> NextIoCommandId],
                          !.sq_tail = (nvme.tail + 1) % QueueEntries]

\* The wait of submit_io().  The entry at the head is one of this round when its phase is
\* the expected one; parse_completion() refuses it when it is of another command, and
\* the head then stays where it is.
Polled(from, ok, fail) ==
  LET e == ctrl.cq[nvme.head]
      fresh == e.phase = nvme.phase
      wraps == nvme.head + 1 = QueueEntries
  IN  /\ NvmeAt(from)
      /\ IF fresh /\ e.id = nvme.next_id
         THEN /\ nvme' = [NvmeGo(IF e.success THEN ok ELSE fail) EXCEPT
                            !.head = IF wraps THEN 0 ELSE @ + 1,
                            !.phase = IF wraps THEN ~@ ELSE @]
              /\ ctrl' = [ctrl EXCEPT !.cq_head = IF wraps THEN 0 ELSE nvme.head + 1]
         ELSE nvme' = NvmeGo(fail) /\ UNCHANGED ctrl
      /\ UNCHANGED io

\* qualify_namespace_io(): the first block is read before the device is announced;
\* then register_device().
QualifyIo ==
  /\ NvmeAt("qualify")
  /\ ctrl.enabled
  /\ SubmitIo([op |-> "read", block |-> 1], "qualifying")
  /\ UNCHANGED io
Qualified == Polled("qualifying", "register", "release")
RegisterNvme ==
  /\ NvmeAt("register")
  /\ \/ nvme' = [NvmeGo("idle") EXCEPT !.ready = TRUE]
     \/ nvme' = NvmeGo("release")
  /\ UNCHANGED <<ctrl, io>>

\* release_resources(): the controller is disabled, the wait for it is not looked at,
\* the pages and the mapping go, bus mastering returns to what it was.  (A controller
\* that ignores being disabled is outside the model.)
ReleaseResources ==
  /\ nvme' = [nvme EXCEPT !.pc = "off", !.controller_enabled = FALSE, !.held = {}, !.mapped = FALSE,
                          !.pci_enabled = FALSE, !.ready = FALSE, !.io_ready = FALSE,
                          !.tail = 0, !.head = 0, !.phase = TRUE, !.next_id = 0]
  /\ ctrl' = IF nvme.mapped /\ nvme.controller_enabled THEN Disabled ELSE ctrl
ReleaseAfterFailure == NvmeAt("release") /\ ReleaseResources /\ UNCHANGED io
Shutdown == NvmeAt("idle") /\ ReleaseResources /\ UNCHANGED io

-------------------------------------------------------------------------------
\* block_read(), block_write(), block_flush().
IoRequest(op, first, n, data) ==
  /\ NvmeAt("idle") /\ nvme.ready /\ io.made < MaxNvmeRequests
  /\ op # "flush" => first + n - 1 \in Blocks
  /\ io' = [op |-> op, first |-> first, n |-> n, data |-> data, done |-> 0, out |-> <<>>,
            ok |-> FALSE, made |-> io.made + 1]
  /\ nvme' = NvmeGo("next")
  /\ UNCHANGED ctrl
\* read_blocks(), write_blocks() and flush_namespace(): the page is cleared, or filled,
\* and the command submitted, chunk by chunk.
FillPage ==
  /\ NvmeAt("next")
  /\ IF io.done = io.n
     THEN nvme' = NvmeGo("returned") /\ io' = [io EXCEPT !.ok = TRUE] /\ UNCHANGED ctrl
     ELSE /\ nvme' = NvmeGo("submit")
          /\ ctrl' = CASE io.op = "read" -> [ctrl EXCEPT !.page = 0]
                       [] io.op = "write" -> [ctrl EXCEPT !.page = io.data[io.done + 1]]
                       [] OTHER -> ctrl
          /\ UNCHANGED io
SubmitChunk ==
  /\ NvmeAt("submit")
  /\ SubmitIo([op |-> io.op, block |-> io.first + io.done], "polling")
  /\ UNCHANGED io
PollChunk == Polled("polling", "copy", "returned")
CopyPage ==
  /\ NvmeAt("copy")
  /\ io' = [io EXCEPT !.done = @ + 1, !.out = IF io.op = "read" THEN Append(@, ctrl.page) ELSE @]
  /\ nvme' = NvmeGo("next")
  /\ UNCHANGED ctrl
IoReturn ==
  /\ NvmeAt("returned")
  /\ nvme' = NvmeGo("idle")
  /\ io' = [NoIo EXCEPT !.made = io.made]
  /\ UNCHANGED ctrl

-------------------------------------------------------------------------------
\* The controller takes the next command, carries it out or fails it, and posts its
\* completion, as long as there is room for it.
CqRoom == (ctrl.cq_tail + 1) % QueueEntries # ctrl.cq_head
ControllerStep ==
  /\ ctrl.enabled /\ ctrl.sq_head # ctrl.sq_tail /\ CqRoom
  /\ LET c == ctrl.sq[ctrl.sq_head]
         wraps == ctrl.cq_tail + 1 = QueueEntries
     IN  \E success \in BOOLEAN :
           ctrl' = [ctrl EXCEPT
             !.sq_head = (@ + 1) % QueueEntries,
             !.cq[ctrl.cq_tail] = [id |-> c.id, success |-> success, phase |-> ctrl.cq_phase],
             !.cq_tail = (@ + 1) % QueueEntries, !.cq_phase = IF wraps THEN ~@ ELSE @,
             !.page = IF success /\ c.op = "read" THEN ctrl.disk[c.block] ELSE @,
             !.disk = IF success /\ c.op = "write" THEN [@ EXCEPT ![c.block] = ctrl.page] ELSE @]
  /\ UNCHANGED <<nvme, io>>

NvmeInit ==
  /\ nvme = [pc |-> "off", controller_enabled |-> FALSE, held |-> {}, mapped |-> FALSE,
             pci_enabled |-> FALSE, ready |-> FALSE, io_ready |-> FALSE,
             tail |-> 0, head |-> 0, phase |-> TRUE, next_id |-> 0]
  /\ ctrl = NewController([b \in Blocks |-> b])
  /\ io = NoIo
NvmeNext ==
  \/ InitializeNvme \/ EnableController \/ IdentifyNvme \/ CreateIoQueues
  \/ QualifyIo \/ Qualified \/ RegisterNvme \/ ReleaseAfterFailure \/ Shutdown
  \/ \E first \in Blocks, n \in 1..2 :
       IoRequest("read", first, n, <<>>) \/ \E v \in WriteValues : IoRequest("write", first, n, <<v, v>>)
  \/ IoRequest("flush", 0, 1, <<>>)
  \/ FillPage \/ SubmitChunk \/ PollChunk \/ CopyPage \/ IoReturn
  \/ ControllerStep
NvmeSpec == NvmeInit /\ [][NvmeNext]_nvme_vars

-------------------------------------------------------------------------------
NvmeTypeOK ==
  /\ nvme.held \subseteq NvmePages /\ nvme.next_id \in 0..Ids
  /\ {nvme.tail, nvme.head, ctrl.sq_head, ctrl.cq_tail} \subseteq 0..(QueueEntries - 1)
  /\ io.made \in 0..MaxNvmeRequests

\* An enabled controller has its queue pages and its registers: whatever step of the
\* start fails, the release comes after the controller is disabled.
NvmePagesHeld ==
  /\ NvmeTypeOK
  /\ ctrl.enabled => AdminPages \subseteq nvme.held /\ nvme.mapped
  /\ ctrl.sq_head # ctrl.sq_tail => nvme.held = NvmePages
  /\ NvmeAt("off") => nvme.held = {} /\ ~nvme.mapped

\* Ok means that the request is complete (block_device.hpp asks it of a backend): a read
\* returns what the disk holds, a written value is on the disk, although commands that
\* were given up on are carried out later, through the same page.
NvmeOkMeansMoved ==
  NvmeAt("returned") /\ io.ok =>
    \A i \in 1..io.n :
      /\ io.op = "read" => io.out[i] = ctrl.disk[io.first + i - 1]
      /\ io.op = "write" => ctrl.disk[io.first + i - 1] = io.data[i]

-------------------------------------------------------------------------------
(***************************************************************************)
(* The VirtIO block driver (src/kernel/storage/virtio_block.cpp) and the   *)
(* block device registry (device_registry.cpp).  Any thread may call it;   *)
(* a test-and-set flag makes the calls exclude each other without waiting. *)
(* A request that times out, or whose completion makes no sense, resets    *)
(* the device and gives everything back; when the reset fails the pages    *)
(* stay with the device and the driver refuses to start again.             *)
(***************************************************************************)

CONSTANTS
  VirtioCallers,         \* threads that call the driver
  VirtioBlocks,          \* 1..n; each holds its own number at first
  VirtioValues,          \* values written
  MaximumBlockDevices,   \* MAXIMUM_BLOCK_DEVICES
  OtherDevices,          \* devices registered before this one, a sequence
  MaxVirtioCalls         \* bound: calls made

VARIABLES
  virtio,                \* g_controller, and the caller that holds g_controller_owned
  vdev,                  \* the device: what it may do, the request it has, the disk, the page
  vcall,                 \* each caller's call
  registry               \* g_entries
virtio_vars == <<virtio, vdev, vcall, registry>>

NoOwner == "none"
NoCall == [pc |-> "idle", op |-> "none", first |-> 0, n |-> 0, value |-> 0, done |-> 0,
           out |-> <<>>, ok |-> FALSE]
NoVirtioRequest == [op |-> "none", block |-> 0]
\* g_controller = {}.
FreshController == [owner |-> NoOwner, ready |-> FALSE, cleanup_blocked |-> FALSE,
                    command_owned |-> FALSE, held |-> FALSE, mapped |-> FALSE,
                    context |-> FALSE]

\* device_registry.cpp.
RegisterDevice(entries, d) ==
  CASE d \in ToSet(entries) -> entries
    [] Len(entries) >= MaximumBlockDevices -> entries
    [] OTHER -> Append(entries, d)
UnregisterDevice(entries, d) == SelectSeq(entries, LAMBDA e : e # d)

\* The guard: a caller that finds it taken gets DeviceBusy, which changes nothing.
Acquire(c) == virtio.owner = NoOwner /\ vcall[c].pc = "idle" /\ virtio.calls < MaxVirtioCalls
VirtioStep(c, from) == virtio.owner = c /\ vcall[c].pc = from

\* reset_device(): always succeeds when the registers are not mapped; a reset device
\* has no request and no longer reaches memory.
ResetOutcomes == IF virtio.mapped THEN BOOLEAN ELSE {TRUE}
AfterReset(ok) ==
  IF ok THEN [vdev EXCEPT !.request = NoVirtioRequest, !.status = "none", !.live = FALSE] ELSE vdev
CleanedUp_keeping_nothing(v, reset_complete, released) ==
  [v EXCEPT !.ready = FALSE, !.held = FALSE, !.mapped = FALSE, !.command_owned = FALSE,
            !.cleanup_blocked = ~reset_complete]
\* cleanup_after_reset() of controller v: without a reset everything is kept; after one,
\* any of the releases may fail, which blocks the driver as well.
CleanedUp(v, reset_complete, released) ==
  IF ~reset_complete
  THEN [v EXCEPT !.ready = FALSE, !.cleanup_blocked = TRUE]
  ELSE [v EXCEPT !.ready = FALSE, !.held = @ /\ ~released.queue, !.mapped = @ /\ ~released.regions,
                 !.command_owned = @ /\ ~released.command,
                 !.cleanup_blocked = \/ v.held /\ ~released.queue
                                     \/ v.mapped /\ ~released.regions
                                     \/ v.command_owned /\ ~released.command]
Releases == [queue : BOOLEAN, regions : BOOLEAN, command : BOOLEAN]
\* fail().
FailVirtio(v) ==
  \E ok \in ResetOutcomes, released \in Releases :
    virtio' = CleanedUp(v, ok, released) /\ vdev' = AfterReset(ok)

-------------------------------------------------------------------------------
\* initialize(): refused while ready or blocked.  It finds no device, or fails at some
\* step with what it had by then, or starts the device and registers it.
InitializeVirtio(c) ==
  /\ Acquire(c)
  /\ ~virtio.ready /\ ~virtio.cleanup_blocked
  /\ LET fresh == [FreshController EXCEPT !.owner = c] @@ [calls |-> virtio.calls + 1]
         started == [fresh EXCEPT !.command_owned = TRUE, !.mapped = TRUE]
         running == [started EXCEPT !.held = TRUE, !.context = TRUE]
     IN  \/ virtio' = fresh /\ UNCHANGED <<vdev, registry>>
         \/ \E mapped, held \in BOOLEAN :
              \* a step fails; the device is not running yet, and a reset of it may fail
              /\ held => mapped
              /\ \E ok \in (IF mapped THEN BOOLEAN ELSE {TRUE}), released \in Releases :
                   virtio' = CleanedUp([started EXCEPT !.mapped = mapped, !.held = held], ok, released)
              /\ UNCHANGED <<vdev, registry>>
         \/ /\ registry' = RegisterDevice(registry, "virtio")
            /\ IF "virtio" \in ToSet(registry')
               THEN /\ virtio' = [running EXCEPT !.ready = TRUE]
                    /\ vdev' = [vdev EXCEPT !.live = TRUE]
               ELSE \E ok \in BOOLEAN, released \in Releases :
                      /\ virtio' = CleanedUp(running, ok, released)
                      /\ vdev' = AfterReset(ok)
  /\ vcall' = [vcall EXCEPT ![c].pc = "leave"]

\* shutdown(): also the way out of the blocked state.
ShutdownVirtio(c) ==
  /\ Acquire(c)
  /\ registry' = IF virtio.context THEN UnregisterDevice(registry, "virtio") ELSE registry
  /\ LET v == [virtio EXCEPT !.owner = c, !.calls = @ + 1]
         fresh == [FreshController EXCEPT !.owner = c] @@ [calls |-> v.calls]
     IN  IF ~virtio.mapped /\ ~virtio.command_owned /\ ~virtio.cleanup_blocked
         THEN virtio' = fresh /\ UNCHANGED vdev
         ELSE \E ok \in ResetOutcomes, released \in Releases :
                LET after == CleanedUp(v, ok, released)
                IN  /\ virtio' = IF after.cleanup_blocked THEN after ELSE fresh
                    /\ vdev' = AfterReset(ok)
  /\ vcall' = [vcall EXCEPT ![c].pc = "leave"]

-------------------------------------------------------------------------------
\* read_blocks_callback(), write_blocks_callback(), flush_callback().
CallVirtio(c, op, first, n, value) ==
  /\ Acquire(c) /\ virtio.ready
  /\ op # "flush" => first + n - 1 \in VirtioBlocks
  /\ virtio' = [virtio EXCEPT !.owner = c, !.calls = @ + 1]
  /\ vcall' = [vcall EXCEPT ![c] = [NoCall EXCEPT !.pc = "next", !.op = op, !.first = first,
                                                 !.n = n, !.value = value]]
  /\ UNCHANGED <<vdev, registry>>
\* submit(): a write fills the page; the request is published and the device notified.
SubmitVirtio(c) ==
  /\ VirtioStep(c, "next")
  /\ IF vcall[c].done = vcall[c].n
     THEN vcall' = [vcall EXCEPT ![c].pc = "leave", ![c].ok = TRUE] /\ UNCHANGED vdev
     ELSE /\ vcall' = [vcall EXCEPT ![c].pc = "poll"]
          /\ vdev' = [vdev EXCEPT !.page = IF vcall[c].op = "write" THEN vcall[c].value ELSE @,
                                  !.status = "pending",
                                  !.request = [op |-> vcall[c].op,
                                               block |-> vcall[c].first + vcall[c].done]]
  /\ UNCHANGED <<virtio, registry>>
\* The polls end with a completion, good or failed, with one that is not valid, or
\* without one; in the last two cases fail().
PollVirtio(c) ==
  /\ VirtioStep(c, "poll")
  /\ CASE vdev.status = "ok" ->
            /\ vcall' = [vcall EXCEPT ![c].pc = "copy"]
            /\ UNCHANGED <<virtio, vdev>>
       [] vdev.status = "error" ->
            /\ vcall' = [vcall EXCEPT ![c].pc = "leave"]
            /\ UNCHANGED <<virtio, vdev>>
       [] OTHER ->
            /\ vcall' = [vcall EXCEPT ![c].pc = "leave"]
            /\ FailVirtio(virtio)
  /\ UNCHANGED registry
CopyVirtio(c) ==
  /\ VirtioStep(c, "copy")
  /\ vcall' = [vcall EXCEPT ![c].pc = "next", ![c].done = @ + 1,
                            ![c].out = IF vcall[c].op = "read" THEN Append(@, vdev.page) ELSE @]
  /\ UNCHANGED <<virtio, vdev, registry>>
\* ~ControllerGuard().
LeaveVirtio(c) ==
  /\ vcall[c].pc = "leave"
  /\ virtio' = [virtio EXCEPT !.owner = IF @ = c THEN NoOwner ELSE @]
  /\ vcall' = [vcall EXCEPT ![c] = NoCall]
  /\ UNCHANGED <<vdev, registry>>

\* The device, whenever it gets to it, unless it was reset.
VirtioDevice ==
  /\ vdev.live /\ vdev.request # NoVirtioRequest
  /\ LET r == vdev.request
     IN  \E status \in {"ok", "error", "invalid"} :
           vdev' = [vdev EXCEPT !.request = NoVirtioRequest, !.status = status,
             !.page = IF r.op = "read" /\ status # "error" THEN vdev.disk[r.block] ELSE @,
             !.disk = IF r.op = "write" /\ status # "error"
                      THEN [@ EXCEPT ![r.block] = vdev.page] ELSE @]
  /\ UNCHANGED <<virtio, vcall, registry>>

VirtioInit ==
  /\ virtio = FreshController @@ [calls |-> 0]
  /\ vdev = [live |-> FALSE, request |-> NoVirtioRequest, status |-> "none", page |-> 0,
             disk |-> [b \in VirtioBlocks |-> b]]
  /\ vcall = [c \in VirtioCallers |-> NoCall]
  /\ registry \in {<<>>, OtherDevices}
VirtioNext ==
  \/ \E c \in VirtioCallers :
       \/ InitializeVirtio(c) \/ ShutdownVirtio(c)
       \/ \E first \in VirtioBlocks, n \in 1..2 :
            CallVirtio(c, "read", first, n, 0) \/ \E v \in VirtioValues : CallVirtio(c, "write", first, n, v)
       \/ CallVirtio(c, "flush", 0, 1, 0)
       \/ SubmitVirtio(c) \/ PollVirtio(c) \/ CopyVirtio(c) \/ LeaveVirtio(c)
  \/ VirtioDevice
VirtioSpec == VirtioInit /\ [][VirtioNext]_virtio_vars

-------------------------------------------------------------------------------
VirtioTypeOK ==
  /\ virtio.owner \in VirtioCallers \cup {NoOwner} /\ virtio.calls \in 0..MaxVirtioCalls
  /\ Len(registry) <= MaximumBlockDevices /\ IsInjective(registry)

\* A device that was not reset has its queue and data pages, also after a timeout, a bad
\* completion and a failed reset (cleanup_blocked); and a driver that is neither running
\* nor blocked has given everything back, so a new start leaks nothing.
VirtioPagesHeld ==
  /\ VirtioTypeOK
  /\ vdev.live => virtio.held /\ virtio.mapped
  /\ ~virtio.ready /\ ~virtio.cleanup_blocked =>
       ~virtio.held /\ ~virtio.mapped /\ ~virtio.command_owned
  /\ virtio.ready => vdev.live /\ "virtio" \in ToSet(registry)

\* Ok means that the request is complete (block_device.hpp): a read returned what the
\* disk holds and a written value is there, with other threads calling at the same time.
VirtioOkMeansMoved ==
  \A c \in VirtioCallers : vcall[c].pc = "leave" /\ vcall[c].ok =>
    \A i \in 1..vcall[c].n :
      LET on_disk == vdev.disk[vcall[c].first + i - 1]
      IN  /\ vcall[c].op = "read" => vcall[c].out[i] = on_disk
          /\ vcall[c].op = "write" => on_disk = vcall[c].value

\* What the three drivers promise to the block layer: no page is given back under a
\* device, and Ok means that the request is complete.
DisksExact ==
  /\ AhciPagesHeld /\ NvmePagesHeld /\ VirtioPagesHeld
  /\ AhciOkMeansMoved /\ NvmeOkMeansMoved /\ VirtioOkMeansMoved
===============================================================================
