------------------------------ MODULE MCServices ------------------------------
(***************************************************************************)
(* An instance for TLC of the channels between processes, of the servers   *)
(* that are reached through them, and of the settings server with its      *)
(* file.  Each is explored while the others rest.                          *)
(*                                                                         *)
(* The metadata of a service matters only when a client connects, and the  *)
(* version a client asks for leaves no trace, so a versioned service is    *)
(* looked at where it is the only one, with one channel slot.  One channel *)
(* slot is used again.  Processes and names are interchangeable: the first *)
(* bind() is that of n1 by p1.                                             *)
(***************************************************************************)
EXTENDS IpcChannel, Services

VersionedAlone ==
  (\E e \in Endpoints : endpoints[e].metadata # Unversioned) =>
    /\ \A e \in Endpoints \ {1} : endpoints[e].generation = 0
    /\ \A c \in Channels \ {1} : channels[c].generation = 0

SecondSlotOnce == \A c \in Channels \ {1} : channels[c].generation <= 1
FirstBind ==
  issued = {} => /\ "p1" \notin exited'
                 /\ \A e \in Endpoints : endpoints'[e].active =>
                      endpoints'[e].owner = "p1" /\ endpoints'[e].name = "n1"

\* The connections processes make to each server, in their order; the third one
\* finds the two slots taken.
Connects ==
  [k \in {"eventd", "sessiond", "audiod", "clipboardd", "dnsd"} |-> <<"p", "q">>]
    @@ ("notificationd" :> <<"p", "q", "p">>)
    @@ [k \in {"accountd", "app-registryd"} |-> <<"p">>]
ServiceCalls == [k \in DOMAIN Connects |-> IF k = "notificationd" THEN 2 ELSE 3]
ServiceRestarts == [k \in DOMAIN Connects |-> IF k \in {"eventd", "sessiond"} THEN 1 ELSE 0]

\* Manifests with an identifier twice, one that does not parse and one without
\* a program, more of them than the table holds.
Manifest(id, parses, executable) == [id |-> id, parses |-> parses, executable |-> executable]
Files ==
  <<Manifest("a", TRUE, TRUE), Manifest("b", FALSE, TRUE), Manifest("a", TRUE, TRUE),
    Manifest("c", TRUE, FALSE), Manifest("b", TRUE, TRUE), Manifest("d", TRUE, TRUE)>>
Profiles == [installed : BOOLEAN, locale : BOOLEAN, user : {"", "user"}]

ChannelsRest == issued = {} /\ exited = {}
ServersRest ==
  /\ service = "eventd" /\ turn = 0 /\ gone = {} /\ spent_services = [calls |-> 0, restarts |-> 0]
  /\ (\A c \in DOMAIN conns : conns[c] = FreeConn) /\ \A i \in SlotIds : slots[i] = BlankSlot(0)
SettingsRest == stage = "serving" /\ spent_settings = [calls |-> 0, faults |-> 0, crashes |-> 0]

BenchInit == Init /\ ServicesInit /\ SettingsInit
BenchNext ==
  \/ /\ ServersRest /\ SettingsRest
     /\ Next /\ VersionedAlone' /\ SecondSlotOnce' /\ FirstBind /\ UNCHANGED <<services_vars, settings_vars>>
  \/ ChannelsRest /\ SettingsRest /\ ServicesNext /\ UNCHANGED <<vars, settings_vars>>
  \/ ChannelsRest /\ ServersRest /\ SettingsNext /\ UNCHANGED <<vars, services_vars>>

BenchSpec == BenchInit /\ [][BenchNext]_<<vars, services_vars, settings_vars>>
===============================================================================
