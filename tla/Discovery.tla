------------------------------ MODULE Discovery ------------------------------
(***************************************************************************)
(* The device list: what mDNS tells of a device becomes its entry in       *)
(* SharedState.devices (discovery.rs), a change is announced by a signal   *)
(* without content, upon which the menu asks for the list (main.rs,        *)
(* castMenu.js).  Devices do not influence each other: this is the entry   *)
(* of one.  Records come late, twice, in parts or after the goodbye, the   *)
(* host's routes change even while a record is handled, and the daemon     *)
(* exits or crashes and starts afresh.                                     *)
(***************************************************************************)
EXTENDS Naturals, Sequences, FiniteSets

CONSTANTS
    V4, V6,     \* the addresses the device may announce, by family
    Details,    \* its name, port and capabilities, together
    Longest,    \* bound: addresses in one record
    MaxUnderWay \* bound: events, signals, calls and answers under way

Address == V4 \cup V6
(* The addresses of a record: any of them, in any order. *)
Records == {l \in UNION {[1 .. n -> Address] : n \in 0 .. Longest} :
              \A i, j \in DOMAIN l : l[i] = l[j] => i = j}

ASSUME AddressAssumption == V4 \cap V6 = {}
ASSUME RecordAssumption == Longest \in Nat /\ MaxUnderWay \in Nat

VARIABLES
    announced,     \* every address announced since the last goodbye, freshest first
    device,        \* the entry in SharedState.devices, or Unknown
    routes,        \* external: the addresses the host has a route to
    deviceEvents,  \* Event::Devices waiting for the forwarder
    changes,       \* DevicesChanged on its way
    listCalls,     \* ListDevices not yet handled
    lists,         \* what handled calls have read, oldest first
    listening,     \* the proxy is ready and its DevicesChanged handler connected
    listed,        \* the menu's _devices
    listedLate     \* ghost: the daemon has changed unheard since it was read

listVars == <<deviceEvents, changes, listCalls, lists, listening, listed, listedLate>>
deviceVars == <<announced, device, routes, listVars>>

Unknown == [addr |-> "none"]
Entry == [addr : Address, details : Details]
In(x, list) == \E i \in DOMAIN list : list[i] = x

UnderWay == deviceEvents + changes + listCalls + Len(lists)

(* The extension is enabled beside a daemon that may know the device; it asks *)
(* for the status only, so its own list starts empty.                         *)
DeviceInit ==
    /\ announced \in Records
    /\ device \in {e \in Entry : In(e.addr, announced)}
                 \cup {u \in {Unknown} : announced = <<>>}
    /\ routes \in SUBSET Address
    /\ deviceEvents = 0 /\ changes = 0 /\ listCalls = 0
    /\ lists = <<>>
    /\ listening = FALSE
    /\ listed = Unknown
    /\ listedLate = (device # Unknown)

-----------------------------------------------------------------------------
(* resolved.                                                               *)

(* Mutant: what a record leaves out is forgotten. *)
FreshestOnly(addrs, known) == addrs

(* The positions of a set, in order. *)
InOrder(S) ==
    CHOOSE f \in [1 .. Cardinality(S) -> S] : \A i, j \in DOMAIN f : i < j => f[i] < f[j]

Freshest(addrs, known) ==
    LET older == InOrder({i \in DOMAIN known : ~In(known[i], addrs)})
    IN  addrs \o [k \in DOMAIN older |-> known[older[k]]]

FirstOf(list, S) == list[CHOOSE i \in DOMAIN list :
                           list[i] \in S /\ \A j \in 1 .. i - 1 : list[j] \notin S]

(* Mutant: the family comes before reachability. *)
PickFamily(list, again) ==
    LET has(S) == \E i \in DOMAIN list : list[i] \in S
    IN  IF has(V4) THEN FirstOf(list, V4) ELSE list[1]

(* pick_address, pass by pass: the IPv4 addresses the host has a route to,   *)
(* any address it has one to, then the family, then whatever is there.  The  *)
(* second pass looks at the routes again.                                    *)
PickAddress(list, again) ==
    LET has(S) == \E i \in DOMAIN list : list[i] \in S
    IN  IF has(V4 \cap routes) THEN FirstOf(list, V4 \cap routes)
        ELSE IF has(again) THEN FirstOf(list, again)
        ELSE IF has(V4) THEN FirstOf(list, V4) ELSE list[1]

(* Mutant: the last look is not taken. *)
KeptNever(addr) == addr

(* "Never downgrade a working address to an unreachable one", by a last look. *)
Kept(addr) ==
    IF /\ device # Unknown /\ device.addr # addr
       /\ addr \notin routes' /\ device.addr \in routes'
    THEN device.addr ELSE addr

Changed(new) == device # new

(* The routes may change once between the looks; a change before the first or *)
(* after the last is RoutesChange.                                            *)
TakeRecord(addrs, details) ==
    /\ UnderWay < MaxUnderWay
    /\ announced' = Freshest(addrs, announced)
    /\ routes' \in SUBSET Address
    /\ IF announced' = <<>> THEN UNCHANGED <<device, deviceEvents>>
       ELSE \E again \in {routes, routes'} :
              LET new == [addr |-> Kept(PickAddress(announced', again)), details |-> details]
              IN  IF Changed(new) THEN device' = new /\ deviceEvents' = deviceEvents + 1
                  ELSE UNCHANGED <<device, deviceEvents>>
    /\ UNCHANGED <<changes, listCalls, lists, listening, listed, listedLate>>

Resolved == \E addrs \in Records, details \in Details : TakeRecord(addrs, details)

(* Mutant: a goodbye is kept to oneself. *)
RemovedSilently ==
    /\ announced' = <<>>
    /\ device' = Unknown
    /\ UNCHANGED <<routes, listVars>>

(* ServiceRemoved: a goodbye, or a record nobody renewed. *)
Removed ==
    /\ UnderWay < MaxUnderWay
    /\ announced' = <<>>
    /\ device' = Unknown
    /\ deviceEvents' = IF device = Unknown THEN deviceEvents ELSE deviceEvents + 1
    /\ UNCHANGED <<routes, changes, listCalls, lists, listening, listed, listedLate>>

RoutesChange ==
    /\ routes' \in SUBSET Address
    /\ UNCHANGED <<announced, device, listVars>>

-----------------------------------------------------------------------------
(* The list on its way to the menu.                                        *)

ForwardDevices ==
    /\ deviceEvents > 0
    /\ deviceEvents' = deviceEvents - 1
    /\ changes' = changes + 1
    /\ UNCHANGED <<announced, device, routes, listCalls, lists, listening, listed, listedLate>>

ProxyReady ==
    /\ ~listening
    /\ listening' = TRUE
    /\ UNCHANGED <<announced, device, routes, deviceEvents, changes, listCalls, lists,
                   listed, listedLate>>

AllLate == [i \in DOMAIN lists |-> [lists[i] EXCEPT !.late = TRUE]]

(* _refreshDevices, for a signal.  One that comes before the proxy is ready is *)
(* lost, and what was read before it is late.                                  *)
ChangeArrives ==
    /\ changes > 0
    /\ changes' = changes - 1
    /\ IF listening THEN listCalls' = listCalls + 1 /\ UNCHANGED <<lists, listedLate>>
       ELSE lists' = AllLate /\ listedLate' = TRUE /\ UNCHANGED listCalls
    /\ UNCHANGED <<announced, device, routes, deviceEvents, listening, listed>>

(* _refreshDevices, because the menu opens. *)
ShowMenu ==
    /\ UnderWay < MaxUnderWay
    /\ listCalls' = listCalls + 1
    /\ UNCHANGED <<announced, device, routes, deviceEvents, changes, lists, listening,
                   listed, listedLate>>

ListDevices ==
    /\ listCalls > 0
    /\ listCalls' = listCalls - 1
    /\ lists' = Append(lists, [of |-> device, late |-> FALSE])
    /\ UNCHANGED <<announced, device, routes, deviceEvents, changes, listening,
                   listed, listedLate>>

(* Each call is a task of its own: the answers may come in any order, and one *)
(* read before another that has come is late.                                *)
AnswerArrives == \E i \in DOMAIN lists :
    /\ lists' = [j \in 1 .. Len(lists) - 1 |->
                   IF j < i THEN [lists[j] EXCEPT !.late = TRUE] ELSE lists[j + 1]]
    /\ listed' = lists[i].of
    /\ listedLate' = lists[i].late
    /\ UNCHANGED <<announced, device, routes, deviceEvents, changes, listCalls, listening>>

(* The daemon exits or crashes, and the next call starts one that knows       *)
(* nothing.  A call it had not handled fails, which reads as no devices, or   *)
(* is the one that starts the next; an answer not yet written is lost like    *)
(* it.  The menu keeps its list (_onDaemonGone).                              *)
DaemonEnds ==
    /\ announced' = <<>>
    /\ device' = Unknown
    /\ deviceEvents' = 0
    /\ \E failed \in 0 .. listCalls, written \in SUBSET (DOMAIN lists) :
          /\ listCalls' = listCalls - failed
          /\ lists' = [i \in DOMAIN lists |->
                          [of |-> IF i \in written THEN lists[i].of ELSE Unknown,
                           late |-> TRUE]]
                        \o [i \in 1 .. failed |-> [of |-> Unknown, late |-> FALSE]]
    /\ listedLate' = (listed # Unknown)
    /\ UNCHANGED <<routes, changes, listening, listed>>

DeviceNext ==
    \/ Resolved \/ Removed \/ RoutesChange
    \/ ForwardDevices \/ ProxyReady \/ ChangeArrives \/ ShowMenu \/ ListDevices
    \/ AnswerArrives \/ DaemonEnds

DeviceSpec == DeviceInit /\ [][DeviceNext]_deviceVars

-----------------------------------------------------------------------------
(* Properties.                                                             *)

(* Every variable has its type. *)
DeviceTypes ==
    /\ announced \in Seq(Address)
    /\ device \in Entry \cup {Unknown} /\ listed \in Entry \cup {Unknown}
    /\ routes \subseteq Address
    /\ deviceEvents \in Nat /\ changes \in Nat /\ listCalls \in Nat
    /\ lists \in Seq([of : Entry \cup {Unknown}, late : BOOLEAN])
    /\ listening \in BOOLEAN /\ listedLate \in BOOLEAN

(* A device is listed from its first address to its goodbye, however its      *)
(* records are split, repeated and reordered, and at an address it has        *)
(* announced since.                                                           *)
ListedIsKnown ==
    /\ device = Unknown <=> announced = <<>>
    /\ device # Unknown => In(device.addr, announced)

(* "Reachability comes first": after a record, the address listed is one the  *)
(* host has had a route to while it was handled, whenever there was an        *)
(* address it had a route to all along, even one announced long ago.          *)
ReachesIfAny ==
    [][(announced' # announced \/ device' # device)
         /\ (\E a \in routes \cap routes' : In(a, announced'))
         => device'.addr \in routes \cup routes']_deviceVars

(* "Never downgrade a working address to an unreachable one": an entry whose  *)
(* address can be reached is given another only if that can be reached too,   *)
(* although the routes may have changed since the address was picked.         *)
NeverDowngrades ==
    [][device # Unknown /\ device' # Unknown /\ device' # device /\ device.addr \in routes'
         => device'.addr \in routes']_deviceVars

(* When nothing is under way, the menu shows the device as the daemon knows   *)
(* it, whatever the order of signals, calls, answers and ends of the daemon.  *)
(* Late are only a list never asked for since the extension was enabled, one  *)
(* read before a signal that came too early for the proxy or before another   *)
(* answer that has come, and the list of a daemon that has gone; the next     *)
(* answer that comes in order mends each of them.                             *)
MenuSettles ==
    UnderWay = 0 /\ ~listedLate => listed = device
=============================================================================
