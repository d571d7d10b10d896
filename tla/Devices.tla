------------------------------- MODULE Devices --------------------------------
(***************************************************************************)
(* The device tree and the binding of drivers to devices                   *)
(* (src/kernel/drivers/core/device_manager.cpp, driver_manager.cpp).       *)
(*                                                                         *)
(* Slots of the device table are used again.  A handle is a slot and its   *)
(* generation, which changes when the slot gets another device and when a  *)
(* driver claims or releases it.  probe(), attach() and detach() of a      *)
(* driver are callbacks: while one runs it may register, claim, release    *)
(* and remove devices, the one it was called for among them, as the xHCI   *)
(* driver does with the devices on its ports.  Each callback is therefore  *)
(* two steps, the call and the return, with such changes in between.       *)
(* match() only reads.  A callback does not bind another device.           *)
(*                                                                         *)
(* Names, resources and identification are abstracted to the kind of a     *)
(* device, which says which drivers match it and whether it can be pulled  *)
(* out.  The field done is a history variable: which callbacks succeeded   *)
(* for this very device.                                                   *)
(***************************************************************************)
EXTENDS Naturals, Sequences, FiniteSets, FiniteSetsExt, SequencesExt

CONSTANTS
  MAXIMUM_DEVICES,   \* slots of the device table
  MAXIMUM_CHILDREN,  \* children of a device
  DeviceKinds,       \* kinds of devices: "pci" ones have one address each
  HotRemovable,      \* kinds on a bus a device can be pulled out of
  DriverTable,       \* the drivers in the order they register: priority, kinds
  MaxDeviceChanges   \* bound: calls of the device manager and of bind

VARIABLES
  devices,       \* g_devices
  device_count,  \* g_count, and g_active_count
  drivers,       \* g_drivers: what is registered so far
  binding,       \* the bind, unbind or report call that runs, and its callback
  device_changes

device_vars == <<devices, device_count, drivers, binding, device_changes>>

DeviceIds == 1..MAXIMUM_DEVICES
NoDevice == 0
NoDriver == 0
Unused(generation) ==
  [active |-> FALSE, generation |-> generation, kind |-> "none", status |-> "Discovered",
   driver |-> NoDriver, named |-> FALSE, parent |-> NoDevice, children |-> <<>>, done |-> {}]
NoBinding == [at |-> "idle", cursor |-> 0]

DevicesInit ==
  /\ devices = [i \in DeviceIds |-> Unused(0)]
  /\ device_count = [used |-> 0, active |-> 0]
  /\ drivers = <<>>
  /\ binding = NoBinding
  /\ device_changes = 0

Changed == device_changes < MaxDeviceChanges /\ device_changes' = device_changes + 1

\* get(), handle_for() and resolve_checked().  Resolves_slot is a mutant that
\* takes any device in the slot.
Exists(i) == i <= device_count.used /\ devices[i].active
HandleFor(i) == <<i, devices[i].generation>>
Resolves(handle) == Exists(handle[1]) /\ devices[handle[1]].generation = handle[2]

-------------------------------------------------------------------------------
\* register_device().
RegisterDevice(kind, parent) ==
  /\ parent # NoDevice => Exists(parent) /\ Len(devices[parent].children) < MAXIMUM_CHILDREN
  /\ kind = "pci" => \A i \in DeviceIds : Exists(i) => devices[i].kind # "pci"
  /\ LET free == {i \in 1..device_count.used : ~devices[i].active}
         slot == IF free # {} THEN Min(free) ELSE device_count.used + 1
         value == [Unused(devices[slot].generation + 1) EXCEPT
                     !.active = TRUE, !.kind = kind, !.parent = parent]
     IN  /\ slot <= MAXIMUM_DEVICES
         /\ devices' = [i \in DeviceIds |->
              CASE i = slot -> value
                [] i = parent -> [devices[i] EXCEPT !.children = Append(@, slot)]
                [] OTHER -> devices[i]]
         /\ device_count' = [used |-> IF free # {} THEN device_count.used ELSE slot, active |-> device_count.active + 1]
  /\ Changed
  /\ UNCHANGED <<drivers, binding>>

\* remove_device() and unlink_child().
RemoveDevice(i) ==
  /\ Exists(i) /\ devices[i].driver = NoDriver /\ devices[i].children = <<>> /\ devices[i].kind \in HotRemovable
  /\ devices' = [j \in DeviceIds |->
       CASE j = i -> Unused(devices[i].generation)
         [] j = devices[i].parent -> [devices[j] EXCEPT !.children = SelectSeq(@, LAMBDA c : c # i)]
         [] OTHER -> devices[j]]
  /\ device_count' = [device_count EXCEPT !.active = @ - 1]
  /\ Changed
  /\ UNCHANGED <<drivers, binding>>

\* claim() and release().  A driver that binds claims under its own name, one
\* that claims the devices behind its controller under another.
Claimed(dev, d, named) == [dev EXCEPT !.driver = d, !.named = named, !.generation = @ + 1]
Freed(dev) ==
  [dev EXCEPT !.driver = NoDriver, !.named = FALSE, !.status = "Discovered",
              !.generation = @ + 1, !.done = {}]

\* A driver claims a child of a device it has and declares it ready, and takes
\* that back.
ClaimChild(i) ==
  /\ Exists(i) /\ devices[i].driver = NoDriver
  /\ devices[i].parent # NoDevice /\ devices[devices[i].parent].driver # NoDriver
  /\ devices' = [devices EXCEPT ![i] = [Claimed(@, devices[@.parent].driver, FALSE) EXCEPT !.status = "Ready"]]
  /\ Changed
  /\ UNCHANGED <<device_count, drivers, binding>>

\* release() by the driver that has the device: of a child, at any time, or of
\* the device it was called for, in the callback.
ReleaseDevice(i) ==
  /\ Exists(i) /\ devices[i].driver # NoDriver
  /\ ~devices[i].named \/ (binding.at # "idle" /\ binding.handle = HandleFor(i) /\ binding.driver = devices[i].driver)
  /\ devices' = [devices EXCEPT ![i] = Freed(@)]
  /\ Changed
  /\ UNCHANGED <<device_count, drivers, binding>>

-------------------------------------------------------------------------------
\* register_driver().
RegisterDriver ==
  /\ binding.at = "idle" /\ binding.cursor = 0 /\ Len(drivers) < Len(DriverTable)
  /\ drivers' = Append(drivers, [status |-> "Registered", attached |-> 0])
  /\ UNCHANGED <<devices, device_count, binding, device_changes>>

\* The driver to try next: of the ones not tried that match, the first of the
\* highest priority.
Candidates(kind, tried) == {d \in 1..Len(drivers) \ tried : kind \in DriverTable[d].kinds}
BestDriver(candidates) ==
  CHOOSE d \in candidates : \A c \in candidates \ {d} :
    DriverTable[d].priority > DriverTable[c].priority \/ (DriverTable[d].priority = DriverTable[c].priority /\ d < c)

Finished == [NoBinding EXCEPT !.cursor = binding.cursor]

\* record_failure(), and the counters of a driver.
FailedOnce(drv) == [drv EXCEPT !.status = "Degraded"]
Attached(drv) == [status |-> "Ready", attached |-> drv.attached + 1]
Less(n) == IF n = 0 THEN 0 ELSE n - 1
Detached(drv) ==
  [status |-> IF Less(drv.attached) = 0 THEN "Registered" ELSE "Ready", attached |-> Less(drv.attached)]

\* bind_device() from one attempt to the call of the next driver's probe(): the
\* table of devices is devs before it.
Attempt(devs, i, handle, tried) ==
  LET candidates == Candidates(devs[i].kind, tried)
      d == BestDriver(candidates)
  IN  IF candidates = {}
      THEN /\ devices' = IF tried = {} THEN devs ELSE [devs EXCEPT ![i].status = "Failed"]
           /\ binding' = Finished
      ELSE /\ devices' = [devs EXCEPT ![i].status = "Probing"]
           /\ binding' = [at |-> "probe", cursor |-> binding.cursor, handle |-> handle, driver |-> d, tried |-> tried \cup {d}]

BindDevice(i) ==
  /\ binding = NoBinding
  /\ Exists(i) /\ devices[i].driver = NoDriver
  /\ Changed
  /\ Attempt(devices, i, HandleFor(i), {})
  /\ UNCHANGED <<device_count, drivers>>

\* bind_all(): every device of the table in turn.
BindAll ==
  /\ binding = NoBinding
  /\ binding' = [binding EXCEPT !.cursor = 1]
  /\ Changed
  /\ UNCHANGED <<devices, device_count, drivers>>

BindNext ==
  /\ binding.at = "idle" /\ binding.cursor # 0
  /\ LET i == binding.cursor IN
     IF i > device_count.used THEN binding' = NoBinding /\ UNCHANGED devices
     ELSE IF ~Exists(i) \/ devices[i].driver # NoDriver
          THEN binding' = [binding EXCEPT !.cursor = i + 1] /\ UNCHANGED devices
          ELSE LET candidates == Candidates(devices[i].kind, {}) IN
               IF candidates = {} THEN binding' = [binding EXCEPT !.cursor = i + 1] /\ UNCHANGED devices
               ELSE /\ devices' = [devices EXCEPT ![i].status = "Probing"]
                    /\ binding' = [at |-> "probe", cursor |-> i + 1, handle |-> HandleFor(i),
                                   driver |-> BestDriver(candidates), tried |-> {BestDriver(candidates)}]
  /\ UNCHANGED <<device_count, drivers, device_changes>>

Abandon == binding' = Finished /\ UNCHANGED devices
Target == binding.handle[1]
StillTheirs == Resolves(binding.handle) /\ devices[Target].driver = binding.driver

ProbeReturns(ok) ==
  /\ binding.at = "probe"
  /\ IF ~Resolves(binding.handle) THEN Abandon /\ UNCHANGED drivers
     ELSE IF ~ok
     THEN /\ drivers' = [drivers EXCEPT ![binding.driver] = FailedOnce(@)]
          /\ Attempt([devices EXCEPT ![Target].status = "Discovered"], Target, binding.handle, binding.tried)
     ELSE IF devices[Target].driver # NoDriver THEN Abandon /\ UNCHANGED drivers
     ELSE LET dev == [Claimed(devices[Target], binding.driver, TRUE) EXCEPT !.status = "Initializing", !.done = @ \cup {<<"probe", binding.driver>>}] IN
          /\ devices' = [devices EXCEPT ![Target] = dev]
          /\ binding' = [binding EXCEPT !.at = "attach", !.handle = <<Target, dev.generation>>]
          /\ UNCHANGED drivers
  /\ UNCHANGED <<device_count, device_changes>>

AttachReturns(ok) ==
  /\ binding.at = "attach"
  /\ IF ~StillTheirs THEN Abandon /\ UNCHANGED drivers
     ELSE IF ok
     THEN /\ drivers' = [drivers EXCEPT ![binding.driver] = Attached(@)]
          /\ devices' = [devices EXCEPT ![Target].status = "Ready", ![Target].done = @ \cup {<<"attach", binding.driver>>}]
          /\ binding' = Finished
     ELSE /\ drivers' = [drivers EXCEPT ![binding.driver] = FailedOnce(@)]
          /\ binding' = [binding EXCEPT !.at = "detach"]
          /\ UNCHANGED devices
  /\ UNCHANGED <<device_count, device_changes>>

\* The failed attachment was undone: release the device, on to the next driver.
DetachReturns ==
  /\ binding.at = "detach"
  /\ IF ~StillTheirs THEN Abandon
     ELSE LET dev == Freed(devices[Target]) IN
          Attempt([devices EXCEPT ![Target] = dev], Target, <<Target, dev.generation>>, binding.tried)
  /\ UNCHANGED <<device_count, drivers, device_changes>>

\* unbind_device(), rebind_device() and report_device_failure() call detach().
\* They are for devices that were bound, not for the children a driver claimed.
Unbind(i, why) ==
  /\ binding = NoBinding
  /\ Exists(i) /\ devices[i].driver # NoDriver /\ devices[i].named
  /\ Changed
  /\ drivers' = IF why = "report" THEN [drivers EXCEPT ![devices[i].driver] = FailedOnce(@)] ELSE drivers
  /\ binding' = [at |-> why, cursor |-> 0, handle |-> HandleFor(i), driver |-> devices[i].driver, tried |-> {}]
  /\ UNCHANGED <<devices, device_count>>

ReportUnbound(i) ==
  /\ binding = NoBinding
  /\ Exists(i) /\ devices[i].driver = NoDriver
  /\ devices' = [devices EXCEPT ![i].status = "Failed"]
  /\ Changed
  /\ UNCHANGED <<device_count, drivers, binding>>

UnbindReturns ==
  /\ binding.at \in {"unbind", "rebind", "report"}
  /\ drivers' = [drivers EXCEPT ![binding.driver] =
       IF binding.at = "report" THEN [@ EXCEPT !.attached = Less(@)] ELSE Detached(@)]
  /\ IF ~StillTheirs THEN Abandon
     ELSE LET dev == Freed(devices[Target]) IN
          CASE binding.at = "unbind" -> devices' = [devices EXCEPT ![Target] = dev] /\ binding' = Finished
            [] binding.at = "report" ->
                 devices' = [devices EXCEPT ![Target] = [dev EXCEPT !.status = "Failed"]] /\ binding' = Finished
            [] OTHER -> Attempt([devices EXCEPT ![Target] = dev], Target, <<Target, dev.generation>>, {})
  /\ UNCHANGED <<device_count, device_changes>>

DevicesNext ==
  \/ \E kind \in DeviceKinds, parent \in DeviceIds \cup {NoDevice} : RegisterDevice(kind, parent)
  \/ RegisterDriver
  \/ BindAll
  \/ BindNext
  \/ \E ok \in BOOLEAN : ProbeReturns(ok) \/ AttachReturns(ok)
  \/ DetachReturns
  \/ UnbindReturns
  \/ \E i \in DeviceIds :
       \/ RemoveDevice(i)
       \/ ClaimChild(i)
       \/ ReleaseDevice(i)
       \/ BindDevice(i)
       \/ \E why \in {"unbind", "rebind", "report"} : Unbind(i, why)
       \/ ReportUnbound(i)

DevicesSpec == DevicesInit /\ [][DevicesNext]_device_vars

-------------------------------------------------------------------------------
\* The declared shapes.
DevicesTypeOK ==
  /\ device_count.used \in 0..MAXIMUM_DEVICES
  /\ \A i \in DeviceIds :
       /\ devices[i].status \in {"Discovered", "Probing", "Initializing", "Ready", "Failed"}
       /\ devices[i].driver \in 0..Len(drivers)
       /\ devices[i].generation \in Nat

Bound(d) == {i \in DeviceIds : devices[i].active /\ devices[i].driver = d /\ devices[i].named}

\* A device has a driver by binding only if that driver's probe() and, once
\* the call is over, attach() succeeded for this very device: a device that
\* takes the slot while a callback runs never inherits the bind that is under
\* way, and a driver whose attach() failed is never left with the device.  The
\* counters of a driver tell how many devices it is attached to.  The tree is
\* a tree: a device is among the children of its parent, once, exactly while
\* it exists, and no device outlives its parent; the number of devices is
\* right.
DevicesExact ==
  /\ DevicesTypeOK
  /\ \A i \in DeviceIds : devices[i].active /\ devices[i].named =>
       /\ <<"probe", devices[i].driver>> \in devices[i].done
       /\ binding.at = "idle" => <<"attach", devices[i].driver>> \in devices[i].done /\ devices[i].status = "Ready"
  /\ binding.at = "idle" => \A d \in 1..Len(drivers) : drivers[d].attached = Cardinality(Bound(d))
  /\ device_count.active = Cardinality({i \in DeviceIds : devices[i].active})
  /\ \A i \in DeviceIds : devices[i].active => i <= device_count.used
  /\ \A p, i \in DeviceIds :
       /\ i \in Range(devices[p].children) <=> (devices[i].active /\ devices[i].parent = p)
       /\ i \in Range(devices[p].children) => devices[p].active
  /\ \A p \in DeviceIds : Cardinality(Range(devices[p].children)) = Len(devices[p].children)

-------------------------------------------------------------------------------
(***************************************************************************)
(* Message-signalled interrupts (src/kernel/drivers/pci_msi.cpp,           *)
(* pci_msix.cpp, pci_msix_group.cpp) and the leases of interrupt vectors   *)
(* they need (hardware_vectors.cpp, arch/x86_64/interrupts.cpp).           *)
(*                                                                         *)
(* A driver leases a vector per entry, programs the function one register  *)
(* write at a time, and takes all of it back when it stops.  The function  *)
(* may raise an interrupt between any two writes, and an interrupt that    *)
(* arrives runs whatever handler stands for its vector then, so the        *)
(* invariant looks at every state in between.  Drivers run one at a time   *)
(* on the processor the messages go to.  A message is its address, which   *)
(* names that processor, and its data, the vector; the upper address word, *)
(* offsets and sizes are left out (they are checked before anything is     *)
(* written).                                                               *)
(***************************************************************************)

CONSTANTS
  PciFunctions,      \* the functions, with the mechanism a driver uses for each
  RouteKind,         \* "msi", "msi masked", "msix" or "group"
  TableEntries,      \* entries of the MSI-X table of a function; MSI has one
  HardwareVectors,   \* the vectors that are leased
  MaxRoutes          \* bound: enable() calls

VARIABLES
  registers,   \* of each function: command, control and its entries
  found,       \* the registers as the firmware left them
  leases,      \* g_states and g_handlers, by vector
  routes,      \* what the driver of each function keeps
  copies,      \* a copy of the route that was not cleared with it
  driver_op,   \* the call that runs
  enabled_routes

routes_vars == <<registers, found, leases, routes, copies, driver_op, enabled_routes>>

Entry(f) == 1..TableEntries[f]
NoRoute == [entries |-> <<>>, leases |-> <<>>, saved |-> <<>>]
NoOp == [op |-> "none"]
Here == "local"

\* What firmware may leave: interrupts off or on, all entries masked or only the
\* first, old messages in them.
Firmware(f, on, masked) ==
  [enable |-> on, fmask |-> FALSE, intx |-> TRUE,
   entry |-> [e \in Entry(f) |-> [address |-> "old", data |-> 0, mask |-> masked \/ e = 1]]]

RoutesInit ==
  /\ \E on \in SUBSET PciFunctions, masked \in BOOLEAN :
       registers = [f \in PciFunctions |-> Firmware(f, f \in on, masked)]
  /\ found = registers
  /\ leases = [v \in HardwareVectors |-> [claimed |-> FALSE, generation |-> 1, handler |-> "none"]]
  /\ routes = [f \in PciFunctions |-> NoRoute]
  /\ copies = [f \in PciFunctions |-> NoRoute]
  /\ driver_op = NoOp
  /\ enabled_routes = 0

-------------------------------------------------------------------------------
\* owns(): the lease is the one that holds the vector now.
\* Owns_vector is a mutant without the generation.
Owns_vector(lease) == leases[lease.vector].claimed
Owns(lease) == leases[lease.vector].claimed /\ leases[lease.vector].generation = lease.generation

\* The register writes of the three mechanisms, in order.
Control(enable, fmask) == <<"control", enable, fmask>>
Intx(on) == <<"intx", on, on>>
Mask(e, on) == <<"mask", e, on>>
Message(e, m) == <<<<"address", e, m.address>>, <<"data", e, m.data>>>>

Each(es, W(_)) == FlattenSeq([k \in DOMAIN es |-> W(k)])

\* program_single() of MSI.
ProgramMsi(lease, maskable) ==
  (IF maskable THEN <<Mask(1, TRUE)>> ELSE <<>>) \o <<Control(FALSE, FALSE)>>
    \o Message(1, [address |-> Here, data |-> lease.vector])
    \o <<Intx(FALSE), Control(TRUE, FALSE)>>
    \o (IF maskable THEN <<Mask(1, FALSE)>> ELSE <<>>)

QuiesceMsi(saved, maskable) ==
  (IF maskable THEN <<Mask(1, TRUE)>> ELSE <<>>) \o <<Control(FALSE, FALSE)>>
    \o Message(1, saved.entry[1])
    \o (IF maskable THEN <<Mask(1, saved.entry[1].mask)>> ELSE <<>>)
    \o <<Control(saved.enable, saved.fmask)>>

\* program_single() of MSI-X is program_group() for one entry, with the enable
\* bit cleared in the first write.
ProgramMsix(es, ls) ==
  <<Control(FALSE, TRUE)>>
    \o Each(es, LAMBDA k : <<Mask(es[k], TRUE)>>)
    \o Each(es, LAMBDA k : Message(es[k], [address |-> Here, data |-> ls[k].vector]))
    \o <<Intx(FALSE), Control(TRUE, TRUE)>>
    \o Each(es, LAMBDA k : <<Mask(es[k], FALSE)>>)
    \o <<Control(TRUE, FALSE)>>

QuiesceMsix(saved, es) ==
  <<Control(TRUE, TRUE)>>
    \o Each(es, LAMBDA k : <<Mask(es[k], TRUE)>>)
    \o <<Control(FALSE, TRUE)>>
    \o Each(es, LAMBDA k : Message(es[k], saved.entry[es[k]]) \o <<Mask(es[k], saved.entry[es[k]].mask)>>)
    \o <<Control(saved.enable, saved.fmask)>>

Maskable(f) == RouteKind[f] = "msi masked"
IsMsi(f) == RouteKind[f] \in {"msi", "msi masked"}
ProgramWrites(f, es, ls) ==
  IF IsMsi(f) THEN ProgramMsi(ls[1], Maskable(f)) ELSE ProgramMsix(es, ls)
QuiesceWrites(f, r) ==
  IF IsMsi(f) THEN QuiesceMsi(r.saved, Maskable(f)) ELSE QuiesceMsix(r.saved, r.entries)

\* One write as the function takes it.  MSI without masking has no mask bit.
Written(r, w) ==
  CASE w[1] = "control" -> [r EXCEPT !.enable = w[2], !.fmask = w[3]]
    [] w[1] = "intx" -> [r EXCEPT !.intx = w[2]]
    [] w[1] = "mask" -> [r EXCEPT !.entry[w[2]].mask = w[3]]
    [] w[1] = "address" -> [r EXCEPT !.entry[w[2]].address = w[3]]
    [] w[1] = "data" -> [r EXCEPT !.entry[w[2]].data = w[3]]

\* The writes are refused when the function is enabled already, and a group
\* refuses a table with an entry that nobody masked and nobody asked for.
MayProgram(f, es) ==
  /\ ~registers[f].enable
  /\ RouteKind[f] = "group" => \A e \in Entry(f) \ Range(es) : registers[f].entry[e].mask

-------------------------------------------------------------------------------
\* enable(), enable_single() and enable_group(): entries es of function f.
EnableRoute(f, es) ==
  /\ driver_op = NoOp /\ routes[f] = NoRoute
  /\ enabled_routes < MaxRoutes /\ enabled_routes' = enabled_routes + 1
  /\ driver_op' = [op |-> "lease", function |-> f, entries |-> es, leases |-> <<>>]
  /\ UNCHANGED <<registers, found, leases, routes, copies>>

\* allocate_hardware_vector() claims the first free vector, and then stores the
\* handler.
ClaimVector ==
  /\ driver_op.op = "lease" /\ Len(driver_op.leases) < Len(driver_op.entries)
  /\ LET free == {v \in HardwareVectors : ~leases[v].claimed}
         v == Min(free)
     IN  IF free = {} THEN driver_op' = [driver_op EXCEPT !.op = "release"] /\ UNCHANGED leases
         ELSE /\ leases' = [leases EXCEPT ![v].claimed = TRUE]
              /\ driver_op' = [driver_op EXCEPT !.op = "handler",
                   !.leases = Append(@, [vector |-> v, generation |-> leases[v].generation])]
  /\ UNCHANGED <<registers, found, routes, copies, enabled_routes>>

StoreHandler ==
  /\ driver_op.op = "handler"
  /\ leases' = [leases EXCEPT ![Last(driver_op.leases).vector].handler = driver_op.function]
  /\ driver_op' = [driver_op EXCEPT !.op = "lease"]
  /\ UNCHANGED <<registers, found, routes, copies, enabled_routes>>

StartProgram ==
  /\ driver_op.op = "lease" /\ Len(driver_op.leases) = Len(driver_op.entries)
  /\ LET f == driver_op.function IN
     driver_op' = IF MayProgram(f, driver_op.entries)
                  THEN [op |-> "program", function |-> f, leases |-> driver_op.leases,
                        route |-> [entries |-> driver_op.entries, leases |-> driver_op.leases, saved |-> registers[f]],
                        writes |-> ProgramWrites(f, driver_op.entries, driver_op.leases)]
                  ELSE [driver_op EXCEPT !.op = "release"]
  /\ UNCHANGED <<registers, found, leases, routes, copies, enabled_routes>>

WriteRegister ==
  /\ driver_op.op \in {"program", "quiesce"} /\ driver_op.writes # <<>>
  /\ registers' = [registers EXCEPT ![driver_op.function] = Written(@, Head(driver_op.writes))]
  /\ driver_op' = [driver_op EXCEPT !.writes = Tail(@)]
  /\ UNCHANGED <<found, leases, routes, copies, enabled_routes>>

EndProgram ==
  /\ driver_op.op = "program" /\ driver_op.writes = <<>>
  /\ routes' = [routes EXCEPT ![driver_op.function] = driver_op.route]
  /\ copies' = [copies EXCEPT ![driver_op.function] = driver_op.route]
  /\ driver_op' = NoOp
  /\ UNCHANGED <<registers, found, leases, enabled_routes>>

\* disable() and disable_group(), with the route or with a copy of it from
\* before: nothing is touched unless every lease is still the owner's.
DisableRoute(f, r) ==
  /\ driver_op = NoOp /\ r # NoRoute
  /\ \A k \in DOMAIN r.leases : Owns(r.leases[k])
  /\ driver_op' = [op |-> "quiesce", function |-> f, route |-> r, leases |-> r.leases, writes |-> QuiesceWrites(f, r)]
  /\ UNCHANGED <<registers, found, leases, routes, copies, enabled_routes>>

EndQuiesce ==
  /\ driver_op.op = "quiesce" /\ driver_op.writes = <<>>
  /\ driver_op' = [driver_op EXCEPT !.op = "release"]
  /\ UNCHANGED <<registers, found, leases, routes, copies, enabled_routes>>

\* release_hardware_vector() clears the handler, and then frees the vector under
\* a new generation.
ClearHandler ==
  /\ driver_op.op = "release" /\ driver_op.leases # <<>>
  /\ leases' = [leases EXCEPT ![Head(driver_op.leases).vector].handler = "none"]
  /\ driver_op' = [driver_op EXCEPT !.op = "free"]
  /\ UNCHANGED <<registers, found, routes, copies, enabled_routes>>

FreeVector ==
  /\ driver_op.op = "free"
  /\ LET l == Head(driver_op.leases) IN
     leases' = [leases EXCEPT ![l.vector].claimed = FALSE, ![l.vector].generation = l.generation + 1]
  /\ driver_op' = [driver_op EXCEPT !.op = "release", !.leases = Tail(@)]
  /\ UNCHANGED <<registers, found, routes, copies, enabled_routes>>

\* finish_restore() gives the old interrupt line back once the vectors are free;
\* a refused enable() has nothing to restore.
FinishRestore ==
  /\ driver_op.op = "release" /\ driver_op.leases = <<>>
  /\ LET f == driver_op.function IN
     /\ registers' = [registers EXCEPT ![f].intx = IF "route" \in DOMAIN driver_op THEN driver_op.route.saved.intx ELSE @]
     /\ routes' = [routes EXCEPT ![f] = NoRoute]
  /\ driver_op' = NoOp
  /\ UNCHANGED <<found, leases, copies, enabled_routes>>

\* The entries a driver asks for: the first ones, in order.
EntryRequests(f) ==
  IF RouteKind[f] = "group" THEN {[k \in 1..n |-> k] : n \in Entry(f)} ELSE {<<1>>}

RoutesNext ==
  \/ \E f \in PciFunctions : \E es \in EntryRequests(f) : EnableRoute(f, es)
  \/ ClaimVector
  \/ StoreHandler
  \/ StartProgram
  \/ WriteRegister
  \/ EndProgram
  \/ \E f \in PciFunctions : \E r \in {routes[f]} \cup (IF routes[f] = NoRoute THEN {copies[f]} ELSE {}) : DisableRoute(f, r)
  \/ EndQuiesce
  \/ ClearHandler
  \/ FreeVector
  \/ FinishRestore

RoutesSpec == RoutesInit /\ [][RoutesNext]_routes_vars

-------------------------------------------------------------------------------
\* The declared shapes.
RoutesTypeOK ==
  /\ \A v \in HardwareVectors : leases[v].handler \in PciFunctions \cup {"none"} /\ leases[v].generation >= 1
  /\ \A f \in PciFunctions : Len(routes[f].entries) = Len(routes[f].leases)

\* The function would send entry e now.
Sends(f, e) ==
  /\ registers[f].enable /\ ~registers[f].fmask
  /\ RouteKind[f] = "msi" \/ ~registers[f].entry[e].mask

Working(f) == driver_op # NoOp /\ driver_op.function = f
Asked(f) == IF Working(f) THEN IF "route" \in DOMAIN driver_op THEN Range(driver_op.route.entries) ELSE {} ELSE Range(routes[f].entries)

\* Between any two register writes of any of the drivers, what a function can
\* send (unless the firmware left it enabled) is a whole message for this
\* processor with a vector its driver holds and whose handler is the driver's:
\* never half a message, a vector that was given back or is another's.  With a
\* group no entry but the ones asked for is exposed.  No vector stands for the
\* handler of a driver that does not hold it.  When a driver has stopped, or
\* its start was refused at any point, the function is as the firmware left
\* it and its vectors are free; a copy of a route from before cannot touch
\* either.
RoutesExact ==
  /\ RoutesTypeOK
  /\ \A f \in PciFunctions : ~found[f].enable =>
       /\ \A e \in Entry(f) :
            Sends(f, e) /\ (e \in Asked(f) \/ RouteKind[f] = "group") =>
              LET m == registers[f].entry[e] IN
              m.address = Here /\ m.data \in HardwareVectors /\ leases[m.data].claimed /\ leases[m.data].handler = f
       /\ ~Working(f) /\ routes[f] = NoRoute => registers[f] = found[f]
  /\ \A v \in HardwareVectors :
       LET holders == {f \in PciFunctions :
             v \in {l.vector : l \in Range(IF Working(f) THEN driver_op.leases ELSE routes[f].leases)}}
       IN  /\ leases[v].claimed <=> Cardinality(holders) = 1
           /\ Cardinality(holders) <= 1
           /\ leases[v].claimed /\ leases[v].handler # "none" => holders = {leases[v].handler}

-------------------------------------------------------------------------------
(***************************************************************************)
(* Sound: the Intel HDA and AC'97 drivers (src/kernel/drivers/audio/hda.cpp*)
(* and ac97.cpp), the choice between them (audio_backend.cpp), and the     *)
(* system calls by which one process at a time owns the device             *)
(* (runtime_base.inc).  A call is one step; the cards play meanwhile.      *)
(* Samples are one value per submitted buffer.                             *)
(***************************************************************************)

CONSTANTS
  SoundCards,     \* the controllers present: a subset of {"hda", "ac97"}
  Codec,          \* what answers HDA verbs: types of its groups and widgets
  Players,        \* processes
  Samples,        \* buffers a process may submit
  MaxPlays        \* bound: buffers submitted

NoPlayer == "nobody"
Silence == "silence"

VARIABLES
  engine,     \* per card, what the hardware does: run, done, error
  driver,     \* per card: ready, busy, pages, pcm, path, muted
  audio_owner,    \* g_audio_owner_pid
  players,    \* the processes alive
  booted,     \* the drivers were started
  accepted,   \* history: who submitted the buffer in the page, and what it was
  plays

audio_vars == <<engine, driver, audio_owner, players, booted, accepted, plays>>

Still == [run |-> FALSE, done |-> FALSE, error |-> FALSE]
NoSoundDriver == [ready |-> FALSE, busy |-> FALSE, pages |-> FALSE, pcm |-> Silence,
             path |-> <<>>, muted |-> FALSE]

-------------------------------------------------------------------------------
\* Starting a card: stages from a state to the states it may leave, "failed" at the
\* first that fails.  A card that misses its polling budget fails the stage.
Unstarted == [hw |-> Still, drv |-> NoSoundDriver, mapped |-> FALSE, command |-> "enabled", ok |-> TRUE]
OrFails(s, t) == {t, [s EXCEPT !.ok = FALSE]}
After(S, Stage(_)) == UNION {IF s.ok THEN Stage(s) ELSE {s} : s \in S}

MapMmio(s) == OrFails(s, [s EXCEPT !.mapped = TRUE])
DecodeGlobalCapabilities(s) == OrFails(s, s)
ResetController(s) == OrFails(s, s)
IdentifyCodec(s) == IF Codec.groups = <<>> THEN {[s EXCEPT !.ok = FALSE]} ELSE OrFails(s, s)

\* The first output converter and the first pin of the first audio function group.
OfType(widgets, type) == {i \in DOMAIN widgets : widgets[i] = type}
ConfigureCodecPath(s) ==
  LET audio == OfType(Codec.groups, "audio")
      converters == OfType(Codec.widgets, "output")
      pins == OfType(Codec.widgets, "pin") IN
  IF audio = {} \/ converters = {} \/ pins = {} THEN {[s EXCEPT !.ok = FALSE]}
  ELSE OrFails(s, [s EXCEPT !.drv.path = <<Min(converters), Min(pins)>>])

\* A second page that cannot be had, or a stream that does not reset, leaves the
\* first stages' pages for release_resources().
AllocatePcmDma(s) ==
  {[s EXCEPT !.ok = FALSE], [s EXCEPT !.drv.pages = TRUE, !.ok = FALSE], [s EXCEPT !.drv.pages = TRUE]}

\* The self-test plays silence until the position moves, then stops and resets.
StopOutputStreamRaw(s) == [s EXCEPT !.hw.run = FALSE, !.hw.done = FALSE, !.hw.error = FALSE, !.drv.busy = FALSE]
ProgramStream(s, pcm) ==
  [s EXCEPT !.drv.pcm = pcm, !.hw = [Still EXCEPT !.run = TRUE], !.drv.busy = TRUE]
QualifyPcmDma(s) == OrFails(StopOutputStreamRaw(ProgramStream(s, Silence)),
                            StopOutputStreamRaw(ProgramStream(s, Silence)))

ReleaseResources(s) ==
  LET stopped == IF s.mapped THEN StopOutputStreamRaw(s) ELSE s
  IN  [stopped EXCEPT !.drv = NoSoundDriver, !.mapped = FALSE, !.command = "original"]

InitializeHda ==
  LET end == After(After(After(After(After(After(After({Unstarted}, MapMmio),
               DecodeGlobalCapabilities), ResetController), IdentifyCodec), ConfigureCodecPath),
               AllocatePcmDma), QualifyPcmDma)
  IN  {IF s.ok THEN [s EXCEPT !.drv.ready = TRUE] ELSE ReleaseResources(s) : s \in end}

\* AC'97: pages, then the codec and the engine are reset; release_dma() otherwise.
InitializeAc97 ==
  LET s == Unstarted IN {[s EXCEPT !.drv.ready = TRUE, !.drv.pages = TRUE], s}

SoundBoot ==
  /\ ~booted /\ booted' = TRUE
  /\ \E h \in InitializeHda, a \in InitializeAc97 :
       /\ driver' = [c \in SoundCards |-> IF c = "hda" THEN h.drv ELSE a.drv]
       /\ engine' = [c \in SoundCards |-> IF c = "hda" THEN h.hw ELSE a.hw]
  /\ UNCHANGED <<audio_owner, players, accepted, plays>>

-------------------------------------------------------------------------------
\* The cards: HDA goes round its buffer until it is stopped, AC'97 halts at the end.
CardEnds(c) ==
  /\ engine[c].run /\ ~engine[c].done
  /\ engine' = [engine EXCEPT ![c].done = TRUE]
  /\ UNCHANGED <<driver, audio_owner, players, booted, accepted, plays>>
CardErrs(c) ==
  /\ engine[c].run /\ ~engine[c].error
  /\ engine' = [engine EXCEPT ![c].error = TRUE]
  /\ UNCHANGED <<driver, audio_owner, players, booted, accepted, plays>>

\* active_backend()
Backends == {c \in SoundCards : driver[c].ready}
Available == Backends # {}
ActiveBackend == IF "hda" \in Backends THEN "hda" ELSE "ac97"

Both(c) == [hw |-> engine[c], drv |-> driver[c]]
Becomes(c, s) ==
  engine' = [engine EXCEPT ![c] = s.hw] /\ driver' = [driver EXCEPT ![c] = s.drv]

\* poll(): an error or the end of the buffer stops the card; only an error is not Ok.
PollStream(s) ==
  IF s.drv.busy /\ (s.hw.error \/ s.hw.done) THEN StopOutputStreamRaw(s) ELSE s
PollAc97(s) ==
  IF s.drv.busy /\ (s.hw.error \/ s.hw.done) THEN [s EXCEPT !.hw = Still, !.drv.busy = FALSE] ELSE s
PollBackend(c, s) == IF c = "hda" THEN PollStream(s) ELSE PollAc97(s)
PollOk(s) == ~(s.drv.busy /\ s.hw.error)

\* stop(): the driver calls the card idle even when the reset fails.
StopHda(s) == StopOutputStreamRaw(s)
StopAc97(s) == [s EXCEPT !.hw = Still, !.drv.busy = FALSE]
StopBackend(c, s) == IF c = "hda" THEN StopHda(s) ELSE StopAc97(s)

\* play_pcm16_stereo() on an idle card.  HDA scales the samples as it copies them
\* (silence when muted), and a stream that fails to start never starts.
CopyPcmSamples(s, samples) == IF s.drv.muted THEN Silence ELSE samples
PlayHda(s, samples) ==
  LET started == ProgramStream(s, CopyPcmSamples(s, samples))
  IN  {[st |-> started, ok |-> TRUE], [st |-> StopOutputStreamRaw(started), ok |-> FALSE]}
PlayAc97(s, samples) == {[st |-> ProgramStream(s, samples), ok |-> TRUE]}
PlayBackend(c, s0, samples) ==
  LET s == PollBackend(c, s0) IN
  IF ~PollOk(s0) \/ s.drv.busy THEN {[st |-> s, ok |-> FALSE]}
  ELSE IF c = "hda" THEN PlayHda(s, samples) ELSE PlayAc97(s, samples)

-------------------------------------------------------------------------------
\* The system calls.
\* Another owner is asked for first: a playback that ended or failed frees the device.
SysAudioPlay(p, samples) ==
  LET c == ActiveBackend
      foreign == audio_owner \notin {NoPlayer, p}
      s == IF foreign THEN PollBackend(c, Both(c)) ELSE Both(c)
      gone == foreign /\ ~PollOk(Both(c)) IN
  /\ p \in players /\ Available /\ plays < MaxPlays /\ plays' = plays + 1
  /\ IF gone \/ (foreign /\ s.drv.busy)
     THEN /\ Becomes(c, s)
          /\ audio_owner' = IF gone THEN NoPlayer ELSE audio_owner
          /\ UNCHANGED accepted
     ELSE \E r \in PlayBackend(c, s, samples) :
          /\ Becomes(c, r.st)
          /\ audio_owner' = IF r.ok THEN p ELSE IF foreign THEN NoPlayer ELSE audio_owner
          /\ accepted' = IF r.ok THEN [by |-> p, pcm |-> r.st.drv.pcm] ELSE accepted
  /\ UNCHANGED <<players, booted>>

SysAudioPoll(p) ==
  LET s == PollBackend(ActiveBackend, Both(ActiveBackend)) IN
  /\ p \in players /\ Available /\ audio_owner \in {NoPlayer, p}
  /\ Becomes(ActiveBackend, s)
  /\ audio_owner' = IF PollOk(Both(ActiveBackend)) /\ s.drv.busy THEN audio_owner ELSE NoPlayer
  /\ UNCHANGED <<players, booted, accepted, plays>>

SysAudioStop(p) ==
  /\ p \in players /\ Available /\ audio_owner = p
  /\ Becomes(ActiveBackend, StopBackend(ActiveBackend, Both(ActiveBackend)))
  /\ audio_owner' = NoPlayer
  /\ UNCHANGED <<players, booted, accepted, plays>>

SysAudioSet(p, muted) ==
  /\ p \in players /\ Available
  /\ driver' = [driver EXCEPT ![ActiveBackend].muted = muted]
  /\ UNCHANGED <<engine, audio_owner, players, booted, accepted, plays>>

PlayerStarts(p) ==
  /\ booted /\ p \notin players /\ players' = players \cup {p}
  /\ UNCHANGED <<engine, driver, audio_owner, booted, accepted, plays>>

\* cleanup() of the runtime.
CleanupAudio(p) ==
  LET c == ActiveBackend IN
  /\ p \in players /\ players' = players \ {p}
  /\ IF audio_owner = p
     THEN /\ audio_owner' = NoPlayer
          /\ IF Available /\ driver[c].busy THEN Becomes(c, StopBackend(c, Both(c)))
             ELSE UNCHANGED <<engine, driver>>
     ELSE UNCHANGED <<engine, driver, audio_owner>>
  /\ UNCHANGED <<booted, accepted, plays>>

-------------------------------------------------------------------------------
AudioInit ==
  /\ engine = [c \in SoundCards |-> Still] /\ driver = [c \in SoundCards |-> NoSoundDriver]
  /\ audio_owner = NoPlayer /\ players = {} /\ booted = FALSE
  /\ accepted = [by |-> NoPlayer, pcm |-> Silence] /\ plays = 0

AudioNext ==
  \/ SoundBoot
  \/ \E c \in SoundCards : CardEnds(c) \/ CardErrs(c)
  \/ \E p \in Players :
       \/ PlayerStarts(p) \/ CleanupAudio(p) \/ SysAudioPoll(p) \/ SysAudioStop(p)
       \/ \E s \in Samples : SysAudioPlay(p, s)
       \/ \E m \in BOOLEAN : SysAudioSet(p, m)

AudioSpec == AudioInit /\ [][AudioNext]_audio_vars

-------------------------------------------------------------------------------
\* A card that plays is one the kernel knows busy, over pages it still holds, and what
\* it plays is the buffer last accepted, from a process that is alive and owns the
\* device: no playback outlives its owner or runs with nobody who may stop it, and
\* what another process submits meanwhile never reaches the page.  docs/AUDIO.md:52
\* says the transport is owned by one process at a time.
PlaybackOwned ==
  /\ audio_owner # NoPlayer => audio_owner \in players
  /\ \A c \in SoundCards :
       /\ engine[c].run => driver[c].busy /\ driver[c].pages
       /\ driver[c].busy => /\ c = ActiveBackend /\ audio_owner = accepted.by
                            /\ audio_owner \in players /\ driver[c].pcm = accepted.pcm
       /\ driver[c].ready => driver[c].pages
  /\ "hda" \in Backends => /\ Codec.widgets[driver["hda"].path[1]] = "output"
                           /\ Codec.widgets[driver["hda"].path[2]] = "pin"
===============================================================================
