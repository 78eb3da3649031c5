---------------------------- MODULE MonitorMappings ----------------------------
(***************************************************************************)
(* How the worker names the monitors layouts are saved for.  A monitor is     *)
(* known by its hardware identifier when no other has the same; otherwise the *)
(* user confirms which is which, for as long as nothing about the monitors     *)
(* changes.  The interface confirms from an inventory it was told of earlier.  *)
(***************************************************************************)
EXTENDS Naturals, Sequences, FiniteSets

CONSTANTS
    NoId,        \* no identifier
    Devices,     \* device names the system gives to monitors
    Panels,      \* monitors
    HardwareId,  \* their hardware identifiers, NoId where unknown
    SavedIds,    \* display identifiers layouts are saved with
    MaxTopology  \* bound: topology revisions

ASSUME MonitorAssumption ==
    /\ HardwareId \in [Panels -> SavedIds \cup {NoId}]
    /\ NoId \notin SavedIds
    /\ MaxTopology \in Nat

VARIABLES
    attached,    \* the monitors, by device
    mappings,    \* MonitorMappings
    displays,    \* Snapshot.displays
    topology,    \* Snapshot.topology_revision
    monitorNews, \* Event::Monitors on their way to the interface
    monitorsSeen,\* the last one it took
    confirming,  \* Command::ConfirmMonitor on its way to the worker
    asserted,    \* history: the inventory each alias was confirmed from
    published    \* history: what each topology revision stood for

monitorVars == <<attached, mappings, displays, topology, monitorNews, monitorsSeen,
                 confirming, asserted, published>>

Empty == [device \in {} |-> NoId]
Inventories == UNION {[D -> Panels] : D \in SUBSET Devices}
Distinct(inventory) == \A c, d \in DOMAIN inventory : c # d => inventory[c] # inventory[d]

\* MonitorMappings::resolve: an alias, or a hardware identifier no other has.
Resolve(m, device) ==
    LET hardware == HardwareId[m.inventory[device]]
        sharing == {d \in DOMAIN m.inventory : HardwareId[m.inventory[d]] = hardware}
    IN IF device \in DOMAIN m.aliases THEN m.aliases[device]
       ELSE IF Cardinality(sharing) = 1 THEN hardware ELSE NoId

Resolved(m) == {device \in DOMAIN m.inventory : Resolve(m, device) # NoId}

\* MonitorMappings::displays.
DisplaysOf(m) ==
    [id \in {Resolve(m, device) : device \in Resolved(m)} |->
        m.inventory[CHOOSE device \in Resolved(m) : Resolve(m, device) = id]]

\* MonitorMappings::update.
Updated(m, inventory) ==
    IF m.inventory = inventory THEN m
    ELSE [epoch |-> m.epoch + 1, inventory |-> inventory, aliases |-> Empty]

MonitorsInit ==
    /\ attached \in {inventory \in Inventories : Distinct(inventory)}
    /\ mappings = [epoch |-> 0, inventory |-> Empty, aliases |-> Empty]
    /\ displays = Empty
    /\ topology = 0
    /\ monitorNews = <<>>
    /\ monitorsSeen = [epoch |-> 0, inventory |-> Empty]
    /\ confirming = NoId
    /\ asserted = Empty
    /\ published = {}

\* Monitors are plugged in, unplugged, or get each other's device names.
Plug ==
    /\ topology < MaxTopology
    /\ \E inventory \in Inventories :
        /\ Distinct(inventory)
        /\ attached' = inventory
    /\ UNCHANGED <<mappings, displays, topology, monitorNews, monitorsSeen, confirming,
                   asserted, published>>

Advances(before, after) == after.epoch # before.epoch \/ displays # DisplaysOf(after)

\* State::refresh; an inventory that cannot be read changes nothing.
RefreshFrom(m) ==
    LET after == Updated(m, attached) IN
    /\ mappings' = after
    /\ topology' = IF Advances(m, after) THEN topology + 1 ELSE topology
    /\ displays' = DisplaysOf(after)
    /\ published' = published \cup {<<topology', displays'>>}

News(m) == [epoch |-> m.epoch, inventory |-> m.inventory]
LastTwo(news) == IF Len(news) > 2 THEN Tail(news) ELSE news

\* publish_monitors: when they changed, and whenever the interface asks.
RefreshMonitors ==
    /\ RefreshFrom(mappings)
    /\ \E asked \in BOOLEAN :
        monitorNews' = IF asked \/ mappings'.epoch # mappings.epoch
                       THEN LastTwo(Append(monitorNews, News(mappings'))) ELSE monitorNews
    /\ UNCHANGED <<attached, monitorsSeen, confirming, asserted>>

TakeNews ==
    /\ monitorNews # <<>>
    /\ monitorsSeen' = Head(monitorNews)
    /\ monitorNews' = Tail(monitorNews)
    /\ UNCHANGED <<attached, mappings, displays, topology, confirming, asserted, published>>

\* monitor_mapping_ui: a monitor of the list is confirmed to be a saved one.
AskConfirm ==
    /\ confirming = NoId
    /\ \E device \in DOMAIN monitorsSeen.inventory, alias \in SavedIds :
        confirming' = [seen |-> monitorsSeen, device |-> device, alias |-> alias]
    /\ UNCHANGED <<attached, mappings, displays, topology, monitorNews, monitorsSeen,
                   asserted, published>>

\* Mutant: a confirmation is of the monitors there are now.
ConfirmableLate(m, request) ==
    /\ request.device \in DOMAIN m.inventory
    /\ \A other \in DOMAIN m.inventory \ {request.device} :
        Resolve(m, other) # request.alias

\* MonitorMappings::confirm.
Confirmable(m, request) ==
    /\ request.seen.epoch = m.epoch
    /\ request.device \in DOMAIN m.inventory
    /\ \A other \in DOMAIN m.inventory \ {request.device} :
        Resolve(m, other) # request.alias

Inserted(map, device, value) ==
    [d \in DOMAIN map \cup {device} |-> IF d = device THEN value ELSE map[d]]

\* Command::ConfirmMonitor; what can be confirmed is, and the state refreshed.
Confirm ==
    /\ confirming # NoId
    /\ confirming' = NoId
    /\ LET device == confirming.device
           named == [mappings EXCEPT !.aliases = Inserted(@, device, confirming.alias)]
       IN IF Confirmable(mappings, confirming)
          THEN /\ topology < MaxTopology
               /\ asserted' = Inserted(asserted, device, confirming.seen.inventory)
               /\ \/ /\ RefreshFrom(named)
                     /\ monitorNews' = LastTwo(Append(monitorNews, News(mappings')))
                  \/ /\ mappings' = named
                     /\ UNCHANGED <<displays, topology, monitorNews, published>>
          ELSE UNCHANGED <<mappings, displays, topology, monitorNews, asserted, published>>
    /\ UNCHANGED <<attached, monitorsSeen>>

MonitorsNext == Plug \/ RefreshMonitors \/ TakeNews \/ AskConfirm \/ Confirm

-----------------------------------------------------------------------------

\* An alias is in force only while the monitors are those of the inventory the user
\* confirmed it from, however late the confirmation arrives; and a topology revision,
\* which plans are checked against, stands for one set of displays: none is ever shown
\* under the revision of another.
MappingsSound ==
    /\ \A device \in DOMAIN mappings.aliases : asserted[device] = mappings.inventory
    /\ \A p, q \in published : p[1] = q[1] => p[2] = q[2]
=============================================================================
