------------------------------- MODULE MCDevices -------------------------------
(***************************************************************************)
(* An instance for TLC of the buses and the devices on them, and of the    *)
(* kernel's memory.  Each part is explored while the others rest in one of *)
(* their initial states.                                                   *)
(***************************************************************************)
EXTENDS Usb, Devices, Memory

\* A driver of both kinds of devices, and a better one for those that can be pulled out.
TwoDrivers == <<[priority |-> 100, kinds |-> {"pci", "usb"}], [priority |-> 110, kinds |-> {"usb"}]>>
\* A function with a group of MSI-X vectors, two with MSI and one with a single entry.
RouteKinds == ("nic" :> "group") @@ ("edu" :> "msi masked") @@ ("e1000" :> "msi") @@ ("e1000e" :> "msix")
EntriesOf == ("nic" :> 2) @@ ("edu" :> 1) @@ ("e1000" :> 1) @@ ("e1000e" :> 2)
\* A codec whose second group is the audio one, and whose third widget is the output.
ModemCodec == [groups |-> <<"modem", "audio">>, widgets |-> <<"pin", "mixer", "output">>]

\* Pages are three units long.  Two programs that load, and three that must not: a segment
\* to be written and executed, two of different rights in one page, and one over the stack.
Seg(at, offset, file, size, flags) ==
  [at |-> at, offset |-> offset, file |-> file, size |-> size, flags |-> flags]
Program(second) == [segments |-> <<Seg(81, 3, 3, 3, {"x"}), second>>, entry |-> 82, length |-> 9]
Programs ==
  {Program(Seg(85, 7, 1, 4, {"w"})),
   [segments |-> <<Seg(82, 1, 1, 1, {"x"})>>, entry |-> 82, length |-> 9],
   Program(Seg(86, 2, 1, 4, {"w", "x"})),
   [segments |-> <<Seg(81, 3, 1, 1, {"x"}), Seg(83, 2, 1, 4, {"w"})>>, entry |-> 82, length |-> 9],
   Program(Seg(99, 3, 1, 1, {"w"}))}
OneStackPage == <<33>>
\* Bytes and alignment.
HeapAsked == {<<1, 1>>, <<5, 8>>, <<12, 2>>}

-------------------------------------------------------------------------------
Parts == {"usb", "stick", "devices", "routes", "audio", "memory", "heap"}

\* A part is in one chosen initial state.
Resting(part) ==
  CASE part = "usb" -> usb.plugs = 0 /\ usb.pc = "idle" /\ ~usb.ready /\ ~usb.cleanup /\ ~usb.run
    [] part = "stick" -> bot.calls = 0 /\ bot.pc = "idle" /\ bot.tag = 0 /\ ~bot.ready /\ stick.media = "scratch"
    [] part = "devices" -> device_changes = 0 /\ drivers = <<>>
    [] part = "routes" -> driver_op = NoOp /\ enabled_routes = 0 /\ registers = [f \in PciFunctions |-> Firmware(f, FALSE, FALSE)]
    [] part = "audio" -> plays = 0 /\ ~booted /\ players = {}
    [] part = "memory" -> calls = 0 /\ work = Idle /\ tested = "no" /\ dma = {} /\ \A p \in DriverPages : ~driver_maps[p]
    [] part = "heap" -> Len(blocks) = 1 /\ prefixes = <<>>
Only(part) == \A other \in Parts \ {part} : Resting(other)

BusVars == <<usb_vars, stick_vars, device_vars, routes_vars, audio_vars>>
MemoryVars == <<memory_vars, heap_vars>>

BenchInit ==
  /\ UsbInit /\ StickInit /\ DevicesInit /\ RoutesInit /\ AudioInit
  /\ MemoryInit /\ HeapInit
  /\ \E part \in Parts : Only(part)

\* After a failure with a second device plugged in, only a clean-up that succeeds is followed.
BusNext ==
  \/ Only("usb") /\ UsbNext /\ (usb.ready \/ ~usb'.cleanup \/ usb'.plugs < 2)
       /\ UNCHANGED <<stick_vars, device_vars, routes_vars, audio_vars>>
  \/ Only("stick") /\ StickNext /\ UNCHANGED <<usb_vars, device_vars, routes_vars, audio_vars>>
  \/ Only("devices") /\ DevicesNext /\ UNCHANGED <<usb_vars, stick_vars, routes_vars, audio_vars>>
  \/ Only("routes") /\ RoutesNext /\ UNCHANGED <<usb_vars, stick_vars, device_vars, audio_vars>>
  \/ Only("audio") /\ AudioNext /\ UNCHANGED <<usb_vars, stick_vars, device_vars, routes_vars>>
MemoryBenchNext ==
  \/ Only("memory") /\ MemoryNext /\ UNCHANGED heap_vars
  \/ Only("heap") /\ HeapNext /\ UNCHANGED memory_vars

BenchNext ==
  \/ BusNext /\ UNCHANGED MemoryVars
  \/ MemoryBenchNext /\ UNCHANGED BusVars

BenchSpec == BenchInit /\ [][BenchNext]_<<BusVars, MemoryVars>>

-------------------------------------------------------------------------------
\* The device tree, the interrupt routes and the sound cards agree with the drivers
\* that own them.
DriversExact == DevicesExact /\ RoutesExact /\ PlaybackOwned
===============================================================================
