--------------------------------- MODULE Usb ----------------------------------
(***************************************************************************)
(* The xHCI driver (src/kernel/drivers/usb/xhci.cpp): the controller's     *)
(* start and clean-up, the event ring and its deferred queue, and the life *)
(* of the two devices it serves.  The primary is a keyboard, a pointer or  *)
(* a disk; the companion is a keyboard or a pointer.  poll() runs from the *)
(* kernel's main loop; a device is plugged, unplugged and used at any      *)
(* moment between its steps.  A command or transfer is waited for with     *)
(* every other event put aside, and may fail or time out.                  *)
(*                                                                         *)
(* A step of the driver is an operator from a state to the set of states   *)
(* it may lead to.  A report is the set of keys or buttons held down.      *)
(***************************************************************************)
EXTENDS Naturals, Sequences, FiniteSets, SequencesExt, TLC

CONSTANTS
  UsbPorts,                  \* 1..maximum_ports
  UsbSlots,                  \* 1..maximum_slots
  UsbKinds,                  \* what may be plugged in
  MAXIMUM_DEFERRED_EVENTS,
  PollEvents,                \* poll()'s budget
  MaxPlugs, MaxReports       \* bounds: devices plugged in, reports sent

VARIABLE usb
usb_vars == <<usb>>

Units == {"primary", "companion"}
UsbKeys == {"key"}
HidKinds == {"Keyboard", "Mouse", "ReportPointer"}
Lives == {"Active", "DrainInput", "ReleaseInput", "WaitingForDevice", "Failed"}

NoUnit == [slot |-> 0, port |-> 0, kind |-> "None", life |-> "WaitingForDevice", child |-> FALSE,
           report |-> 0, next |-> 1, keys |-> {}, pending |-> <<>>]
NoSlot == [on |-> FALSE, context |-> "none", port |-> 0, trbs |-> <<>>]

\* The controller object after g_controller = {}; the hardware and the registry are
\* other parts of the state.  What the input layer was told is counted from here.
UsbCleared(s) ==
  [s EXCEPT !.ready = FALSE, !.cleanup = FALSE, !.published = FALSE, !.master = FALSE,
            !.pages = FALSE, !.mapped = FALSE, !.unit = [u \in Units |-> NoUnit],
            !.ignored = 0, !.deferred = <<>>, !.block = "none", !.held = [u \in Units |-> {}]]

UsbInit ==
  usb = [ready |-> FALSE, cleanup |-> FALSE, published |-> FALSE, master |-> FALSE,
         pages |-> FALSE, mapped |-> FALSE, unit |-> [u \in Units |-> NoUnit],
         ignored |-> 0, deferred |-> <<>>, block |-> "none",
         registered |-> FALSE,                    \* the block device registry has our entry
         held |-> [u \in Units |-> {}],           \* keys down, as the input layer was told
         run |-> FALSE,                           \* the controller is running: it may use DMA
         port |-> [p \in UsbPorts |-> [kind |-> "none", csc |-> FALSE, prc |-> FALSE]],
         slot |-> [i \in UsbSlots |-> NoSlot],
         ring |-> <<>>, page |-> [u \in Units |-> {}],
         pc |-> "idle", left |-> 0, plugs |-> 0, reports |-> 0,
         torn |-> FALSE,                          \* ghost: a live slot's rings were rewritten
         lost |-> FALSE]                          \* ghost: an event did not fit the queue

Outcome(ok, s) == [ok |-> ok, s |-> s]
In(s, u) == s.unit[u]

-------------------------------------------------------------------------------
(* Events *)

\* A port change raises one event until it is acknowledged.
RaisePort(s, p, bit) ==
  LET quiet == ~s.port[p].csc /\ ~s.port[p].prc
      t == IF bit = "csc" THEN [s EXCEPT !.port[p].csc = TRUE] ELSE [s EXCEPT !.port[p].prc = TRUE]
  IN  IF quiet /\ s.run THEN [t EXCEPT !.ring = Append(@, [type |-> "port", port |-> p])] ELSE t
AcknowledgePortChange(s, p) == [s EXCEPT !.port[p].csc = FALSE, !.port[p].prc = FALSE]

\* wait_event(): what came before the answer goes to the deferred queue.  An event too
\* many is dropped and ends the wait.
WaitEvent(s) ==
  LET room == MAXIMUM_DEFERRED_EVENTS - Len(s.deferred)
      fits == Len(s.ring) <= room
  IN  IF fits THEN Outcome(TRUE, [s EXCEPT !.deferred = @ \o s.ring, !.ring = <<>>])
      ELSE Outcome(FALSE, [s EXCEPT !.deferred = @ \o SubSeq(s.ring, 1, room),
                                    !.ring = SubSeq(s.ring, room + 2, Len(s.ring)),
                                    !.lost = TRUE])

\* submit_command(): the controller carries the command out or not, and the driver learns
\* of it or not; a stopped controller does nothing.
SubmitCommand(s) ==
  LET w == WaitEvent(s)
      answers == IF s.run THEN {<<FALSE, FALSE>>, <<TRUE, FALSE>>} \cup
                               (IF w.ok THEN {<<TRUE, TRUE>>} ELSE {})
                 ELSE {<<FALSE, FALSE>>}
  IN  {[ran |-> a[1], ok |-> a[2], s |-> w.s] : a \in answers}

EnabledSlots(s) == {i \in UsbSlots : s.slot[i].on}

-------------------------------------------------------------------------------
(* Reports *)

\* queue_hid_report(): one report at a time, and none while
\* input waits to be delivered.
QueueReport(s, u) ==
  LET d == In(s, u)
      t == [s EXCEPT !.page[u] = {}, !.unit[u].report = d.next, !.unit[u].next = d.next + 1]
  IN  IF d.report # 0 \/ d.pending # <<>> \/ d.kind \notin HidKinds THEN s
      ELSE IF d.slot \in EnabledSlots(s)
           THEN [t EXCEPT !.slot[d.slot].trbs = Append(@, d.next)] ELSE t

\* flush_hid_input(): the input layer may refuse.
FlushInput(s, u) ==
  IF In(s, u).pending = <<>> THEN {Outcome(TRUE, s)}
  ELSE {Outcome(FALSE, s),
        Outcome(TRUE, [s EXCEPT !.held[u] = Head(In(s, u).pending), !.unit[u].pending = <<>>])}

\* decode_boot_keyboard_report(): the presses and releases that lead from the keys of the
\* last report to those of this one.
Decoded(s, u, report) == [s EXCEPT !.unit[u].keys = report, !.unit[u].pending = <<report>>]
\* The report handlers: only the completion of the outstanding report counts.
HandleReport(s, u, e) ==
  LET d == In(s, u)
      t == [s EXCEPT !.unit[u].report = 0]
  IN  IF d.report = 0 \/ e.trb # d.report THEN {s}
      ELSE {IF f.ok THEN QueueReport(f.s, u) ELSE f.s :
              f \in FlushInput(IF e.ok THEN Decoded(t, u, s.page[u]) ELSE t, u)}

\* The companion has copies of the three.
QueueCompanionReport(s) == QueueReport(s, "companion")
FlushCompanionInput(s) == FlushInput(s, "companion")
HandleCompanionReport(s, e) == HandleReport(s, "companion", e)

-------------------------------------------------------------------------------
(* Stopping and cleaning up *)

\* quiesce_dma(): bus mastering is taken away in any case, but only a halted controller
\* counts as stopped.
QuiesceDma(s) ==
  LET halts == IF s.published THEN {[s EXCEPT !.run = FALSE], s} ELSE {s}
      mastered == {[t EXCEPT !.master = FALSE] : t \in halts}
  IN  (IF s.master THEN {Outcome(FALSE, t) : t \in halts} ELSE {}) \cup
      {IF t.published /\ t.run THEN Outcome(FALSE, t)
       ELSE Outcome(TRUE, [t EXCEPT !.published = FALSE]) : t \in mastered}

\* remove_hid_devices(), remove_companion_device().  The registry and the device core
\* refuse neither: the children are this driver's own and have no children.
RemoveChild(s, u) ==
  [s EXCEPT !.unit[u].child = FALSE,
            !.registered = @ /\ ~(u = "primary" /\ s.block # "none")]

\* release_resources(): pages and then mappings; either may refuse to go.
UsbReleaseResources(s) ==
  LET begun == [s EXCEPT !.ready = FALSE, !.cleanup = TRUE]
      removed(t) == RemoveChild(RemoveChild(t, "primary"), "companion")
  IN  UNION {IF ~q.ok THEN {q}
             ELSE (IF q.s.pages THEN {Outcome(FALSE, removed(q.s))} ELSE {}) \cup
                  (IF q.s.mapped THEN {Outcome(FALSE, [removed(q.s) EXCEPT !.pages = FALSE])} ELSE {}) \cup
                  {Outcome(TRUE, UsbCleared(removed(q.s)))}
             : q \in QuiesceDma(begun)}
FailInitialization(s) == {q.s : q \in UsbReleaseResources(s)}

\* fail_hotplug(): everything stays owned until the next initialize().
FailHotplug(s) ==
  {q.s : q \in QuiesceDma([s EXCEPT !.ready = FALSE, !.cleanup = TRUE, !.unit["primary"].life = "Failed"])}

-------------------------------------------------------------------------------
(* Attaching a device *)

PortClaimed(s, p) ==
  \/ \E u \in Units : In(s, u).slot # 0 /\ In(s, u).port = p
  \/ s.ignored = p
FirstUnclaimedConnectedPort(s) ==
  LET free == {p \in UsbPorts : s.port[p].kind # "none" /\ ~PortClaimed(s, p)}
  IN  IF free = {} THEN 0 ELSE CHOOSE p \in free : \A q \in free : p <= q

\* address_device(): a slot is enabled, given the unit's
\* context and addressed.
AddressDevice(s, u) ==
  LET p == In(s, u).port
      enabled(c, i) == IF c.ran THEN [c.s EXCEPT !.slot[i] = [NoSlot EXCEPT !.on = TRUE]] ELSE c.s
      pointed(t, i) == [t EXCEPT !.unit[u].slot = i, !.slot[i].context = u, !.slot[i].port = p]
      free(t) == UsbSlots \ EnabledSlots(t)
  IN  UNION {IF ~c.ok \/ free(c.s) = {}
             THEN {Outcome(FALSE, IF free(c.s) = {} THEN c.s
                                  ELSE enabled(c, CHOOSE i \in free(c.s) : TRUE))}
             ELSE LET i == CHOOSE j \in free(c.s) : \A k \in free(c.s) : j <= k
                  IN  {Outcome(a.ok, a.s) : a \in SubmitCommand(pointed(enabled(c, i), i))}
             : c \in SubmitCommand(s)}

\* read_descriptors(): the companion takes no disk.
\* Any of their transfers may fail.
ReadDescriptors(s, u) ==
  LET k == s.port[In(s, u).port].kind
      wanted == k \in HidKinds \/ (u = "primary" /\ k = "Storage")
  IN  {Outcome(FALSE, s)} \cup
      (IF wanted THEN {Outcome(TRUE, [s EXCEPT !.unit[u].kind = k])} ELSE {})

\* configure_hid_interrupt_endpoint(): the transfers and the command may fail.
ConfigureHidEndpoint(s) == {Outcome(FALSE, s), Outcome(TRUE, s)}
\* configure_mass_storage_endpoints() to initialize_mass_storage_block_device(): the disk
\* is set up, probed and tried (see UsbStorage), and put in the registry.
ConfigureDisk(s) ==
  {Outcome(FALSE, s), Outcome(TRUE, [s EXCEPT !.block = "ready", !.registered = TRUE])}
\* register_keyboard(), register_mouse(), register_report_pointer(),
\* register_mass_storage(): a child that cannot be claimed is remembered all the same.
RegisterChild(s, u) ==
  {Outcome(FALSE, s), Outcome(FALSE, [s EXCEPT !.unit[u].child = TRUE]),
   Outcome(TRUE, [s EXCEPT !.unit[u].child = TRUE])}

\* The last part of both attach functions.
Activate(s, u) ==
  QueueReport(AcknowledgePortChange(
    [s EXCEPT !.unit[u].life = "Active", !.unit[u].keys = {}], In(s, u).port), u)

\* reset_connected_port() / reset_port(): the reset may not finish.
ResetPort(s, u, p) ==
  {Outcome(FALSE, RaisePort(s, p, "prc")),
   Outcome(TRUE, [RaisePort(s, p, "prc") EXCEPT !.unit[u].port = p])}

\* reset_ring() on a unit's rings, and its context cleared.
ResetRings(s, u) ==
  [s EXCEPT !.unit[u].next = 1,
            !.torn = @ \/ \E i \in UsbSlots : s.run /\ s.slot[i].on /\ s.slot[i].context = u]

\* attach_hid_device(): the caller deals with a failure.
AttachHidDevice(s) ==
  LET u == "primary"
      registered(t) == {IF o.ok THEN Outcome(TRUE, Activate(o.s, u)) ELSE o : o \in RegisterChild(t, u)}
      configured(t) == UNION {IF o.ok THEN registered(o.s) ELSE {o}
                              : o \in IF In(t, u).kind = "Storage" THEN ConfigureDisk(t)
                                      ELSE ConfigureHidEndpoint(t)}
      described(t) == UNION {IF o.ok THEN configured(o.s) ELSE {o} : o \in ReadDescriptors(t, u)}
      addressed(t) == UNION {IF o.ok THEN described(o.s) ELSE {o} : o \in AddressDevice(t, u)}
  IN  UNION {IF o.ok THEN addressed(o.s) ELSE {o} : o \in ResetPort(s, u, FirstUnclaimedConnectedPort(s))}

\* The companion's own copies of these functions.
AddressCompanionDevice(s) == AddressDevice(s, "companion")
ReadCompanionDescriptors(s) == ReadDescriptors(s, "companion")
ConfigureCompanionHidEndpoint(s) == ConfigureHidEndpoint(s)
RegisterCompanionHid(s) == RegisterChild(s, "companion")
RetireCompanionSlot_unconfirmed(s) ==
  LET u == "companion"
      i == In(s, u).slot
  IN  {Outcome(TRUE, [RemoveChild(ResetRings(c.s, u), u) EXCEPT !.unit[u] = NoUnit])
       : c \in IF i = 0 THEN {Outcome(TRUE, s)}
               ELSE {IF q.ran THEN [q EXCEPT !.s.slot[i] = NoSlot] ELSE q : q \in SubmitCommand(s)}}
\* retire_companion_slot(): without a confirmed Disable Slot nothing is reused.
RetireCompanionSlot(s) ==
  LET u == "companion"
      i == In(s, u).slot
      disabled(c) == IF c.ran THEN [c.s EXCEPT !.slot[i] = NoSlot] ELSE c.s
      fresh(t) == [RemoveChild(ResetRings(t, u), u) EXCEPT !.unit[u] = NoUnit, !.page[u] = {}]
  IN  IF i = 0 THEN {Outcome(TRUE, fresh(s))}
      ELSE {IF c.ok THEN Outcome(TRUE, fresh(disabled(c)))
            ELSE Outcome(FALSE, [disabled(c) EXCEPT !.unit[u].life = "Failed"])
            : c \in SubmitCommand(s)}

\* attach_companion_hid().
AttachCompanionHid(s) ==
  LET u == "companion"
      retired(t) == {q.s : q \in RetireCompanionSlot(t)}
      unsupported(t) == {IF q.ok THEN [q.s EXCEPT !.ignored = In(t, u).port] ELSE q.s
                         : q \in RetireCompanionSlot(t)}
      failed(t) == {[q EXCEPT !.unit[u].life = "Failed"] : q \in retired(t)}
      registered(t) == UNION {IF o.ok THEN {Activate(o.s, u)} ELSE failed(o.s) : o \in RegisterCompanionHid(t)}
      configured(t) == UNION {IF o.ok THEN registered(o.s) ELSE failed(o.s)
                              : o \in ConfigureCompanionHidEndpoint(t)}
      described(t) == UNION {IF o.ok THEN configured(o.s) ELSE unsupported(o.s)
                             : o \in ReadCompanionDescriptors(t)}
      addressed(t) == UNION {IF o.ok THEN described(o.s) ELSE retired(o.s) : o \in AddressCompanionDevice(t)}
      p == FirstUnclaimedConnectedPort(s)
  IN  IF In(s, u).slot # 0 \/ p = 0 THEN {s}
      ELSE UNION {IF o.ok THEN addressed(o.s) ELSE {o.s} : o \in ResetPort(s, u, p)}

-------------------------------------------------------------------------------
(* The life of a device *)

\* A disconnected port, or one whose connection changed, starts the removal.
NoticeRemoval(s, u) ==
  LET p == In(s, u).port
  IN  IF In(s, u).life = "Active" /\ p # 0 /\ (s.port[p].kind = "none" \/ s.port[p].csc)
      THEN AcknowledgePortChange([s EXCEPT !.unit[u].life = "DrainInput"], p) ELSE s

Drain_without_release(s, u) ==
  IF In(s, u).life # "DrainInput" THEN {s}
  ELSE {IF f.ok THEN [f.s EXCEPT !.unit[u].life = "ReleaseInput"] ELSE f.s : f \in FlushInput(s, u)}
\* What was pending is delivered, then the release of whatever is still held.
Drain(s, u) ==
  IF In(s, u).life # "DrainInput" THEN {s}
  ELSE {IF ~f.ok THEN f.s
        ELSE [f.s EXCEPT !.unit[u].life = "ReleaseInput", !.unit[u].keys = {},
                         !.unit[u].pending = IF In(f.s, u).kind = "Mouse" \/ In(f.s, u).keys # {}
                                             THEN <<{}>> ELSE <<>>]
        : f \in FlushInput(s, u)}

\* The slot is disabled and the unit starts over.
RetirePrimary(s) ==
  LET u == "primary"
      i == In(s, u).slot
      disabled(c) == IF c.ran THEN [c.s EXCEPT !.slot[i] = NoSlot] ELSE c.s
      fresh(t) == [RemoveChild(t, u) EXCEPT !.unit[u] = [NoUnit EXCEPT !.next = In(t, u).next],
                                            !.block = "none"]
  IN  IF i = 0 THEN {fresh(s)}
      ELSE UNION {IF c.ok THEN {fresh(disabled(c))} ELSE FailHotplug(disabled(c))
                  : c \in SubmitCommand(s)}
Release(s, u) ==
  IF In(s, u).life # "ReleaseInput" THEN {s}
  ELSE UNION {IF ~f.ok THEN {f.s}
              ELSE IF u = "primary" THEN RetirePrimary(f.s) ELSE {q.s : q \in RetireCompanionSlot(f.s)}
              : f \in FlushInput(s, u)}

\* A waiting unit takes the first free connected port.
Attach(s, u) ==
  IF In(s, u).life # "WaitingForDevice" THEN {s}
  ELSE IF u = "companion" THEN AttachCompanionHid(s)
  ELSE IF FirstUnclaimedConnectedPort(s) = 0 THEN {s}
  ELSE UNION {IF o.ok THEN {o.s} ELSE FailHotplug(o.s)
              : o \in AttachHidDevice([ResetRings(s, u) EXCEPT !.page[u] = {}])}

\* progress_hid_lifecycle() and progress_companion_lifecycle().  A removal that completes
\* ends the call: the next device is looked for by the next one.
ProgressHid(s) ==
  UNION {IF In(t, "primary").life = "ReleaseInput" THEN Release(t, "primary") ELSE Attach(t, "primary")
         : t \in Drain(NoticeRemoval(s, "primary"), "primary")}
ProgressCompanion(s) ==
  UNION {IF In(t, "companion").life = "ReleaseInput" THEN Release(t, "companion") ELSE Attach(t, "companion")
         : t \in Drain(NoticeRemoval(s, "companion"), "companion")}
UsbProgress(s, u) == IF u = "primary" THEN ProgressHid(s) ELSE ProgressCompanion(s)

-------------------------------------------------------------------------------
(* The driver's operations *)

\* initialize(): a pending clean-up is finished first.
Initialize ==
  /\ usb.pc = "idle" /\ ~usb.ready
  /\ \E c \in (IF usb.cleanup THEN UsbReleaseResources(usb) ELSE {Outcome(TRUE, usb)}) :
       IF ~c.ok THEN usb' = c.s
       ELSE LET s == [UsbCleared(c.s) EXCEPT !.mapped = TRUE]
                halted == [s EXCEPT !.run = FALSE, !.ring = <<>>, !.slot = [i \in UsbSlots |-> NoSlot]]
                owned == [halted EXCEPT !.pages = TRUE]
                running == [owned EXCEPT !.master = TRUE, !.published = TRUE, !.run = TRUE]
            IN  \/ usb' \in FailInitialization(s)        \* no registers, layout, handoff or reset
                \/ usb' \in FailInitialization(owned)    \* not all pages
                \/ usb' \in FailInitialization(running)  \* did not start in time
                \/ IF FirstUnclaimedConnectedPort(running) = 0
                   THEN usb' = [running EXCEPT !.ready = TRUE]
                   ELSE \E a \in AttachHidDevice(running) :
                          IF a.ok THEN usb' \in UsbProgress([a.s EXCEPT !.ready = TRUE], "companion")
                          ELSE usb' \in FailInitialization(a.s)

\* poll(): the primary, then the companion, then what input is waiting, then events.
PollBegin ==
  /\ usb.pc = "idle" /\ usb.ready
  /\ \E s \in UsbProgress(usb, "primary") :
       usb' = IF In(s, "primary").life \in {"Active", "WaitingForDevice", "ReleaseInput"}
              THEN [s EXCEPT !.pc = "companion"] ELSE s
PollCompanion ==
  /\ usb.pc = "companion"
  /\ usb' \in {[s EXCEPT !.pc = "flush"] : s \in UsbProgress(usb, "companion")}
FlushActive(s, u) ==
  IF In(s, u).life # "Active" \/ In(s, u).pending = <<>> THEN {Outcome(TRUE, s)}
  ELSE IF u = "primary"
       THEN {Outcome(f.ok, IF f.ok THEN QueueReport(f.s, u) ELSE f.s) : f \in FlushInput(s, u)}
       ELSE {Outcome(f.ok, IF f.ok THEN QueueCompanionReport(f.s) ELSE f.s) : f \in FlushCompanionInput(s)}
PollFlush ==
  /\ usb.pc = "flush"
  /\ \E f \in FlushActive(usb, "primary") :
       IF ~f.ok THEN usb' = [f.s EXCEPT !.pc = "idle"]
       ELSE \E g \in FlushActive(f.s, "companion") :
              usb' = IF g.ok THEN [g.s EXCEPT !.pc = "events", !.left = PollEvents]
                     ELSE [g.s EXCEPT !.pc = "idle"]

\* One event of the loop: a port change or a report.
PortEvent(s, p) ==
  LET t == IF s.ignored = p THEN [s EXCEPT !.ignored = 0] ELSE s
      a == AcknowledgePortChange(t, p)
      step(x, u) == IF In(x, u).life = "WaitingForDevice" THEN UsbProgress(x, u) ELSE {x}
  IN  IF p = In(t, "primary").port THEN UsbProgress(t, "primary")
      ELSE IF p = In(t, "companion").port THEN UsbProgress(t, "companion")
      ELSE UNION {step(x, "companion") : x \in step(a, "primary")}
ReportEvent(s, e) ==
  LET mine(u) == In(s, u).life = "Active" /\ e.slot = In(s, u).slot
  IN  IF mine("primary") THEN (IF In(s, "primary").kind \in HidKinds
                               THEN HandleReport(s, "primary", e) ELSE {s})
      ELSE IF mine("companion") THEN HandleCompanionReport(s, e) ELSE {s}
PollEvent ==
  /\ usb.pc = "events" /\ usb.left > 0 /\ usb.deferred \o usb.ring # <<>>
  /\ LET e == Head(usb.deferred \o usb.ring)
         s == [(IF usb.deferred # <<>> THEN [usb EXCEPT !.deferred = Tail(@)]
                ELSE [usb EXCEPT !.ring = Tail(@)]) EXCEPT !.left = @ - 1]
     IN  usb' \in IF e.type = "port" THEN PortEvent(s, e.port) ELSE ReportEvent(s, e)
PollEnd ==
  /\ usb.pc = "events" /\ (usb.left = 0 \/ usb.deferred \o usb.ring = <<>>)
  /\ usb' \in {[s EXCEPT !.pc = "idle", !.left = 0] :
                 s \in IF In(usb, "companion").life = "WaitingForDevice"
                       THEN UsbProgress(usb, "companion") ELSE {usb}}

-------------------------------------------------------------------------------
(* The hardware and the people using it *)

Plug(p, k) ==
  /\ usb.plugs < MaxPlugs /\ usb.port[p].kind = "none"
  /\ usb' = RaisePort([usb EXCEPT !.port[p].kind = k, !.plugs = @ + 1], p, "csc")
\* The report a device was asked for may come back as an error when it is pulled out.
Unplug(p) ==
  /\ usb.port[p].kind # "none"
  /\ LET s == RaisePort([usb EXCEPT !.port[p].kind = "none"], p, "csc")
         mine == {i \in UsbSlots : s.slot[i].on /\ s.slot[i].port = p}
         quiet == [s EXCEPT !.slot = [i \in UsbSlots |->
                     IF i \in mine THEN [s.slot[i] EXCEPT !.trbs = <<>>] ELSE s.slot[i]]]
     IN  \/ usb' = quiet
         \/ \E i \in mine :
              /\ s.slot[i].trbs # <<>> /\ s.run
              /\ usb' = [quiet EXCEPT !.ring = Append(@,
                          [type |-> "report", slot |-> i, trb |-> Head(s.slot[i].trbs), ok |-> FALSE])]
Report(i, keys) ==
  /\ usb.reports < MaxReports /\ usb.run
  /\ usb.slot[i].trbs # <<>> /\ usb.port[usb.slot[i].port].kind # "none"
  /\ usb' = [usb EXCEPT !.slot[i].trbs = Tail(@), !.reports = @ + 1,
                        !.page[usb.slot[i].context] = keys,
                        !.ring = Append(@, [type |-> "report", slot |-> i,
                                            trb |-> Head(usb.slot[i].trbs), ok |-> TRUE])]

UsbNext ==
  \/ Initialize \/ PollBegin \/ PollCompanion \/ PollFlush \/ PollEvent \/ PollEnd
  \/ \E p \in UsbPorts : Unplug(p) \/ \E k \in UsbKinds : Plug(p, k)
  \/ \E i \in UsbSlots, keys \in SUBSET UsbKeys : Report(i, keys)
UsbSpec == UsbInit /\ [][UsbNext]_usb_vars

-------------------------------------------------------------------------------
(* Properties *)

Served(u) == usb.ready /\ In(usb, u).life = "Active"

\* Memory the controller reaches stays the controller's: its pages are not given back
\* while it runs (release_resources() after quiesce_dma()), and a unit's rings and context
\* are never rewritten while a slot uses them (retire_companion_slot() and
\* progress_hid_lifecycle() after Disable Slot).  The two units have slots and ports of
\* their own, an active unit's slot is enabled and points at its context, and the block
\* device registry holds the disk only while the driver has it and, if usable, serves it.
UsbDmaOwned ==
  /\ \A u \in Units : In(usb, u).life \in Lives /\ In(usb, u).slot \in UsbSlots \cup {0}
  /\ usb.run => usb.pages
  /\ ~usb.torn
  /\ \A u, v \in Units : u # v /\ Served(u) /\ In(usb, v).slot # 0 /\ In(usb, v).life # "Failed" =>
       In(usb, u).slot # In(usb, v).slot /\ In(usb, u).port # In(usb, v).port
  /\ \A u \in Units : Served(u) =>
       /\ In(usb, u).child
       /\ usb.slot[In(usb, u).slot] = [on |-> TRUE, context |-> u, port |-> In(usb, u).port,
                                       trbs |-> usb.slot[In(usb, u).slot].trbs]
  /\ usb.registered => usb.block = "ready"
  /\ usb.block = "ready" /\ Served("primary") => usb.registered /\ In(usb, "primary").kind = "Storage"

\* A connected keyboard or pointer never goes deaf (queue_hid_report() after every
\* report): either input of it waits to be delivered, or a report is asked for whose
\* request the controller has or whose answer is on its way.  Only an event that did not
\* fit the deferred queue breaks the chain.
NeverDeaf ==
  \A u \in Units :
    LET d == In(usb, u)
        answer(e) == e.type = "report" /\ e.slot = d.slot /\ e.trb = d.report
        events == usb.deferred \o usb.ring
    IN  Served(u) /\ d.kind \in HidKinds /\ usb.port[d.port].kind # "none"
          /\ ~usb.port[d.port].csc /\ ~usb.lost =>
          \/ d.pending # <<>>
          \/ /\ d.report # 0
             /\ \/ \E k \in DOMAIN usb.slot[d.slot].trbs : usb.slot[d.slot].trbs[k] = d.report
                \/ \E k \in DOMAIN events : answer(events[k])

\* A device that is pulled out leaves no key or button down: when a running driver gives a
\* unit's slot back, the input layer has been told that everything is released.
KeysReleased ==
  [][\A u \in Units :
       In(usb, u).life \in {"Active", "DrainInput", "ReleaseInput"}
         /\ In(usb', u).life = "WaitingForDevice" /\ usb.ready /\ usb'.ready => usb'.held[u] = {}]_usb_vars

-------------------------------------------------------------------------------
(***************************************************************************)
(* The disk behind the xHCI driver (src/kernel/drivers/usb/xhci.cpp from   *)
(* configure_mass_storage_endpoints() to                                   *)
(* initialize_mass_storage_block_device(), xhci_bulk.cpp and               *)
(* mass_storage_protocol.cpp): commands in the bulk-only transport.  A     *)
(* command is a wrapper sent out, data in or out, and a status wrapper     *)
(* read in, all through one page; each transfer is waited for and may time *)
(* out, and then the controller still has its request.  Events that come   *)
(* while no call is waiting are dropped by poll().                         *)
(***************************************************************************)

CONSTANTS
  LastBlock,           \* blocks 0..LastBlock
  BlocksPerTransfer,   \* PAGE_SIZE / mass_storage_block_size
  StickValues,         \* values written
  Media,               \* what the disk may be: "scratch", "signed" or "plain"
  MaxStickCalls        \* bound: calls after the probe

VARIABLES
  bot,                 \* the driver: the running call and the command it is at
  stick                \* the controller's rings, the shared page, the disk
stick_vars == <<bot, stick>>

StickBlocks == 0..LastBlock
PageCleared == [kind |-> "clear"]
Pattern == "pattern"                                \* what the qualification writes
NoCommand == [op |-> "none", dir |-> "none", first |-> 0, data |-> <<>>, n |-> 0]
NoResult == [op |-> "none", ok |-> FALSE, right |-> TRUE]

StickInit ==
  /\ bot = [pc |-> "idle", ready |-> FALSE, tag |-> 0, plan |-> <<>>, cmd |-> NoCommand, op |-> "none",
            first |-> 0, n |-> 0, value |-> "", got |-> <<>>, received |-> 0, wait |-> 0, next |-> 1, retried |-> FALSE,
            calls |-> 0, result |-> NoResult]
  /\ \E m \in Media :
       stick = [media |-> m, disk |-> [b \in StickBlocks |-> IF b = 0 THEN m ELSE ToString(b)],
                phase |-> "command", cmd |-> NoCommand, tag |-> 0, verdict |-> "Passed", residue |-> 0,
                page |-> PageCleared, out |-> <<>>, in |-> <<>>, ring |-> <<>>]

Command(op, dir, first, data, n) == [op |-> op, dir |-> dir, first |-> first, data |-> data, n |-> n]
Plain(op) == Command(op, "none", 0, <<>>, 0)
Ask(op) == Command(op, "in", 0, <<>>, 1)
\* read_mass_storage_blocks() and write_mass_storage_blocks(): chunks of one page.
Chunks(first, n) ==
  LET whole == (n + BlocksPerTransfer - 1) \div BlocksPerTransfer
      at(k) == first + (k - 1) * BlocksPerTransfer
      size(k) == IF k < whole THEN BlocksPerTransfer ELSE n - (k - 1) * BlocksPerTransfer
  IN  [k \in 1..whole |-> [first |-> at(k), n |-> size(k)]]
ReadPlan(first, n) ==
  [k \in DOMAIN Chunks(first, n) |-> Command("read", "in", Chunks(first, n)[k].first, <<>>, Chunks(first, n)[k].n)]
WritePlan(first, n, v) ==
  [k \in DOMAIN Chunks(first, n) |->
     LET c == Chunks(first, n)[k] IN Command("write", "out", c.first, [i \in 1..c.n |-> v], c.n)]

-------------------------------------------------------------------------------
(* Transfers *)

\* bulk_out_transfer() and bulk_in_transfer(): the page is filled or cleared and a request
\* put on the ring.
TransferOut(b, s, payload) ==
  /\ bot' = [b EXCEPT !.wait = b.next, !.next = b.next + 1]
  /\ stick' = [s EXCEPT !.page = payload, !.out = Append(@, b.next)]
TransferIn(b, s) ==
  /\ bot' = [b EXCEPT !.wait = b.next, !.next = b.next + 1]
  /\ stick' = [s EXCEPT !.page = PageCleared, !.in = Append(@, b.next)]
Rest == [stick EXCEPT !.ring = Tail(@)]          \* the event at hand is taken

\* The call ends.  A read that reports success must have got the disk's blocks.
Blocks(first, n) == [i \in 1..n |-> stick.disk[first + i - 1]]
Right ==
  CASE bot.op = "read" -> bot.got = Blocks(bot.first, bot.n)
    [] bot.op = "write" -> Blocks(bot.first, bot.n) = [i \in 1..bot.n |-> bot.value]
    [] OTHER -> TRUE
Return(ok) ==
  bot' = [bot EXCEPT !.pc = "idle", !.plan = <<>>, !.cmd = NoCommand, !.wait = 0, !.got = <<>>,
                     !.received = 0, !.first = 0, !.n = 0, !.value = "",
                     !.ready = @ \/ (bot.op = "probe" /\ ok),
                     !.result = [op |-> bot.op, ok |-> ok, right |-> ok => Right]]

\* classify_transfer_completion(): any other event of this device is an error.
MatchesWait(e) == e.trb = bot.wait /\ e.ok

-------------------------------------------------------------------------------
(* execute_mass_storage_bot() *)

StartCommand(b, s) ==
  LET c == Head(b.plan)
      t == [b EXCEPT !.plan = Tail(@), !.cmd = c, !.tag = @ + 1, !.pc = "cbw", !.received = 0]
  IN  TransferOut(t, s, [kind |-> "cbw", tag |-> t.tag, cmd |-> c])

Arrived(pc) == bot.pc = pc /\ stick.ring # <<>> /\ MatchesWait(Head(stick.ring))
\* The wrapper was taken: data, or the status at once.
AfterWrapper ==
  /\ Arrived("cbw")
  /\ CASE bot.cmd.dir = "none" -> TransferIn([bot EXCEPT !.pc = "csw"], Rest)
       [] bot.cmd.dir = "in" -> TransferIn([bot EXCEPT !.pc = "data"], Rest)
       [] bot.cmd.dir = "out" ->
            TransferOut([bot EXCEPT !.pc = "data"], Rest, [kind |-> "data", data |-> bot.cmd.data])
\* The data moved; on the way in as much as came is copied out of the page.
AfterData ==
  /\ Arrived("data")
  /\ LET data == IF bot.cmd.dir = "in" /\ stick.page.kind = "data" THEN stick.page.data ELSE <<>>
     IN  TransferIn([bot EXCEPT !.pc = "csw", !.received = Len(data),
                                !.got = IF bot.cmd.op = "read" THEN @ \o data ELSE @], Rest)

\* decode_command_status_wrapper() and the checks after it: the tag is this command's,
\* the device has not lost its place, and what came and what did not add up.
StatusAccepted(p) ==
  /\ p.kind = "csw" /\ p.tag = bot.tag /\ p.status # "PhaseError" /\ p.residue <= bot.cmd.n
  /\ bot.cmd.dir = "in" => bot.received + p.residue = bot.cmd.n
\* What the callers of a command ask of its status.
Passed(p) == p.status = "Passed" /\ p.residue = 0

\* probe_mass_storage_scsi_geometry() and initialize_mass_storage_block_device(): what
\* follows a command of the probe.  Only the scratch medium is written to.
Qualifies(m) == m = "scratch"
ProbeNext(b) ==
  CASE b.cmd.op = "read" /\ b.cmd.first = 0 /\ Qualifies(b.got[1]) ->
         [b EXCEPT !.plan = WritePlan(1, 1, Pattern) \o <<Plain("sync")>> \o ReadPlan(1, 1), !.got = <<>>]
    [] OTHER -> b
AfterStatus ==
  /\ Arrived("csw")
  /\ LET p == stick.page
         \* a disk that is not ready is asked why, and once more
         again == [bot EXCEPT !.plan = <<Ask("sense"), Plain("ready")>> \o @, !.retried = TRUE]
         next == IF bot.op = "probe" THEN ProbeNext(bot) ELSE bot
         matches == bot.op = "probe" /\ bot.cmd.op = "read" /\ bot.cmd.first = 1 => bot.got = <<Pattern>>
     IN  IF ~StatusAccepted(p) THEN Return(FALSE) /\ stick' = Rest
         ELSE IF bot.cmd.op = "ready" /\ p.status = "Failed" /\ p.residue = 0 /\ ~bot.retried
              THEN StartCommand(again, Rest)
         ELSE IF ~Passed(p) \/ ~matches THEN Return(FALSE) /\ stick' = Rest
         ELSE IF next.plan # <<>> THEN StartCommand(next, Rest)
         \* after the last command of a probe the registry may be full
         ELSE (Return(TRUE) \/ (bot.op = "probe" /\ Return(FALSE))) /\ stick' = Rest

\* A wait that ends without its event (POLL_BUDGET), or with another one: the call fails,
\* and what it asked of the controller stays asked.
GiveUp ==
  /\ bot.pc # "idle"
  /\ \/ stick.ring = <<>> /\ UNCHANGED stick
     \/ stick.ring # <<>> /\ ~MatchesWait(Head(stick.ring)) /\ stick' = Rest
  /\ Return(FALSE)

-------------------------------------------------------------------------------
(* Calls *)

\* attach_hid_device() with a disk.
Probe ==
  /\ bot.pc = "idle" /\ bot.op = "none"
  /\ StartCommand([bot EXCEPT !.op = "probe",
                              !.plan = <<Plain("ready"), Ask("inquiry"), Ask("capacity")>> \o ReadPlan(0, 1)], stick)
Called(op) ==
  bot.pc = "idle" /\ bot.ready /\ bot.calls < MaxStickCalls /\ op \in {"read", "write", "flush"}
\* mass_storage_block_read(), _write() and _flush(); out of range nothing happens.
ReadBlocks(first, n) ==
  /\ Called("read") /\ first \in StickBlocks /\ n <= LastBlock + 1 - first
  /\ StartCommand([bot EXCEPT !.op = "read", !.first = first, !.n = n, !.calls = @ + 1, !.plan = ReadPlan(first, n)], stick)
WriteBlocks(first, n, v) ==
  /\ Called("write") /\ first \in StickBlocks /\ n <= LastBlock + 1 - first
  /\ StartCommand([bot EXCEPT !.op = "write", !.first = first, !.n = n, !.value = v, !.calls = @ + 1,
                              !.plan = WritePlan(first, n, v)], stick)
FlushBlocks ==
  /\ Called("flush")
  /\ StartCommand([bot EXCEPT !.op = "flush", !.calls = @ + 1, !.plan = <<Plain("sync")>>], stick)
\* poll() drops a transfer event of a disk.
PollDrops ==
  /\ bot.pc = "idle" /\ stick.ring # <<>>
  /\ stick' = Rest /\ UNCHANGED bot

-------------------------------------------------------------------------------
(* The device (external) *)

UsbEvent(trb, ok) == [trb |-> trb, ok |-> ok]
\* A request fails: the endpoint is stalled from here on.
Stall ==
  /\ stick.phase # "dead"
  /\ \/ /\ stick.out # <<>>
        /\ stick' = [stick EXCEPT !.phase = "dead", !.out = Tail(@), !.ring = Append(@, UsbEvent(Head(stick.out), FALSE))]
     \/ /\ stick.in # <<>>
        /\ stick' = [stick EXCEPT !.phase = "dead", !.in = Tail(@), !.ring = Append(@, UsbEvent(Head(stick.in), FALSE))]
  /\ UNCHANGED bot
\* It takes a wrapper and decides what will become of the command.
TakeWrapper ==
  /\ stick.phase = "command" /\ stick.out # <<>>
  /\ \E v \in {"Passed", "Failed", "PhaseError"} :
       stick' = IF stick.page.kind # "cbw"
                THEN [stick EXCEPT !.phase = "dead", !.out = Tail(@), !.ring = Append(@, UsbEvent(Head(stick.out), TRUE))]
                ELSE [stick EXCEPT !.phase = IF stick.page.cmd.dir = "none" THEN "status" ELSE stick.page.cmd.dir,
                                   !.cmd = stick.page.cmd, !.tag = stick.page.tag, !.verdict = v, !.residue = 0,
                                   !.out = Tail(@), !.ring = Append(@, UsbEvent(Head(stick.out), TRUE))]
  /\ UNCHANGED bot
\* Written blocks take what the page holds when it is fetched.
TakeData ==
  /\ stick.phase = "out" /\ stick.out # <<>>
  /\ LET c == stick.cmd
         data == IF stick.page.kind = "data" THEN stick.page.data ELSE [i \in 1..c.n |-> "junk"]
         hit(b) == b \in c.first..(c.first + c.n - 1) /\ b - c.first + 1 \in DOMAIN data
     IN  stick' = [stick EXCEPT !.phase = "status", !.out = Tail(@),
                                !.disk = IF stick.verdict # "Passed" THEN @
                                         ELSE [b \in StickBlocks |-> IF hit(b) THEN data[b - c.first + 1] ELSE @[b]],
                                !.ring = Append(@, UsbEvent(Head(stick.out), TRUE))]
  /\ UNCHANGED bot
\* A failed read sends something else, or less.
SendData ==
  /\ stick.phase = "in" /\ stick.in # <<>>
  /\ LET c == stick.cmd
         good == IF c.op = "read" THEN Blocks(c.first, c.n) ELSE [i \in 1..c.n |-> "info"]
     IN  \E k \in (IF stick.verdict = "Passed" THEN {0} ELSE {0, c.n}) :
           stick' = [stick EXCEPT !.phase = "status", !.in = Tail(@), !.residue = k,
                       !.page = [kind |-> "data",
                                 data |-> IF stick.verdict = "Passed" THEN good
                                          ELSE [i \in 1..(c.n - k) |-> "junk"]],
                       !.ring = Append(@, UsbEvent(Head(stick.in), TRUE))]
  /\ UNCHANGED bot
SendStatus ==
  /\ stick.phase = "status" /\ stick.in # <<>>
  /\ stick' = [stick EXCEPT !.phase = "command", !.in = Tail(@),
                            !.page = [kind |-> "csw", tag |-> stick.tag, status |-> stick.verdict,
                                      residue |-> stick.residue],
                            !.ring = Append(@, UsbEvent(Head(stick.in), TRUE))]
  /\ UNCHANGED bot

StickNext ==
  \/ Probe \/ AfterWrapper \/ AfterData \/ AfterStatus \/ GiveUp \/ FlushBlocks \/ PollDrops
  \/ \E first \in StickBlocks, n \in 1..(LastBlock + 1) :
       ReadBlocks(first, n) \/ \E v \in StickValues : WriteBlocks(first, n, v)
  \/ Stall \/ TakeWrapper \/ TakeData \/ SendData \/ SendStatus
StickSpec == StickInit /\ [][StickNext]_stick_vars

-------------------------------------------------------------------------------
\* A call that reports success did its work (read_mass_storage_blocks(),
\* write_mass_storage_blocks()): the blocks read are the disk's and the blocks written are
\* on it, whatever earlier calls that timed out left with the controller and the device.
StickOkMeansMoved == bot.result.ok => bot.result.right

\* "Never perform a destructive qualification write on arbitrary media"
\* (initialize_mass_storage_block_device()): until a write is asked for, a disk that is not
\* the scratch medium holds what it held.
MediaUntouched ==
  [][stick'.disk # stick.disk => stick.media = "scratch" \/ bot.ready]_stick_vars

\* The controller, its devices and the disk behind it are in step.
UsbExact == UsbDmaOwned /\ NeverDeaf /\ StickOkMeansMoved

\* Neither a device that is pulled out nor a disk that is looked at is left in another
\* state than the driver says.
UsbStepsSafe == KeysReleased /\ MediaUntouched
===============================================================================
