-------------------------------- MODULE Suites --------------------------------
(***************************************************************************)
(* The suites of a component: its commands, events, parameters, data       *)
(* products, data dependencies, packets and faults (src/gen/models), all   *)
(* of them suites of entities with an id, a name and a type                *)
(* (submodels/ided_suite.py).  What is said here is which of them load,    *)
(* what order and ids their entities have, what each suite gives to its    *)
(* component, and what the suites that are made from the assembly are.     *)
(***************************************************************************)
EXTENDS Naturals, Sequences, SequencesExt, FiniteSetsExt, Functions

CONSTANT None   \* an id, a type, a parameter or a model that is not given

\* An entity is [name, id, type, defaults], the type of one being None or
\* [name, package, packed, modelled, variable, little, volatile].

MaxEntityId == 65535

-----------------------------------------------------------------------------
(* Entities.                                                                *)

\* ided_entity.__init__: what the type of an entity must not be.
EntityTaken(e, variableAllowed, packedRequired) ==
    /\ e.id # None => e.id <= MaxEntityId
    /\ e.type # None =>
        /\ packedRequired => e.type.packed
        /\ e.type.modelled /\ e.type.variable => variableAllowed
        /\ ~e.type.little
        /\ ~e.type.volatile

\* An id of 0 counts as none.
HasId(e) == e.id \notin {None, 0}
WithIds(es) == {i \in DOMAIN es : HasId(es[i])}

\* ided_suite._initialize: the names differ, so do the ids, and they are
\* given for all entities or for none.
SuiteTaken(es, variableAllowed, packedRequired) ==
    /\ \A i \in DOMAIN es : EntityTaken(es[i], variableAllowed, packedRequired)
    /\ IsInjective([i \in DOMAIN es |-> es[i].name])
    /\ \A i, j \in WithIds(es) : es[i].id = es[j].id => i = j
    /\ WithIds(es) \in {{}, DOMAIN es}

\* The seven suites, by what they allow and require of a type.
CommandsTaken(es)     == SuiteTaken(es, TRUE, TRUE)
EventsTaken(es)       == SuiteTaken(es, FALSE, TRUE)
ParametersTaken(es)   == SuiteTaken(es, FALSE, TRUE)
ProductsTaken(es)     == SuiteTaken(es, FALSE, FALSE)
DependenciesTaken(es) == SuiteTaken(es, FALSE, FALSE)
PacketsTaken(es)      == SuiteTaken(es, TRUE, FALSE)
FaultsTaken(es)       == SuiteTaken(es, FALSE, FALSE)

\* Packets and faults that have ids are put in their order.
ById(es) ==
    IF WithIds(es) = {} THEN es ELSE SortSeq(es, LAMBDA d, e : d.id < e.id)

-----------------------------------------------------------------------------
(* Ids that are chosen: _set_ids and set_id_base.                           *)

\* Only a suite without ids is numbered, and only once.
NumberingTaken(es, base) ==
    \A i \in DOMAIN es : es[i].id = None /\ base + i - 1 <= MaxEntityId

NumberedFrom(es, base) == [i \in DOMAIN es |-> [es[i] EXCEPT !.id = base + i - 1]]

\* The component is told the base, which it must not have another of.
BaseAgrees(told, base) == told \in {None, base}

-----------------------------------------------------------------------------
(* What the generated code is given: derive_entity_lists.                   *)

HavingType(es) == {e \in Range(es) : e.type # None}
Modelled(es) == {e \in HavingType(es) : e.type.modelled}
Types(es) == {e.type.package : e \in HavingType(es)}
Complex(es) == {e.type.package : e \in Modelled(es)}
IsBasic(es) == HavingType(es) # Modelled(es)
IsVariable(es) == \E e \in Modelled(es) : e.type.variable

\* A type with a model is shown by the package beside its own.
Representations(es) ==
    (Complex(es) \X {"Representation"}) \cup {e.type.package : e \in HavingType(es) \ Modelled(es)}

If(condition, package) == IF condition THEN {package} ELSE {}
Validations(es) == Complex(es) \X {"Validation"}

\* What a suite gives to the component: the parameter for the base of its
\* ids, and packages for the specification and the body of the base and of
\* the tester, those that a suite always gives left out.
Gives(idBase, ads, adb, testerAds, testerAdb) ==
    [idBase |-> idBase, ads |-> ads, adb |-> adb, testerAds |-> testerAds, testerAdb |-> testerAdb]

Serializer(es) == If(IsBasic(es), "Serializer")
SerializerTypes(es) == If(IsVariable(es), "Serializer_Types")

CommandsGive(es) ==
    Gives(TRUE, Types(es), Serializer(es) \cup SerializerTypes(es) \cup Validations(es),
          {}, SerializerTypes(es) \cup Representations(es))

EventsGive(es) ==
    Gives(TRUE, {}, {}, Types(es), Serializer(es) \cup Representations(es))

\* The default of a parameter may name packages.
ParametersGive(es) ==
    Gives(TRUE, Types(es) \cup UNION {e.defaults : e \in Range(es)},
          Serializer(es) \cup Validations(es), {}, Representations(es))

ProductsGive(es) ==
    Gives(TRUE, {}, {}, Types(es), Serializer(es) \cup Representations(es))

\* The ids of data dependencies are those of the products they are mapped to.
DependenciesGive(es) ==
    Gives(FALSE, Types(es), {}, {}, Serializer(es) \cup Representations(es))

PacketsGive(es) ==
    Gives(WithIds(es) = {}, If(WithIds(es) = {}, "Packet_Types"), {}, Types(es),
          Serializer(es) \cup SerializerTypes(es) \cup Representations(es)
          \cup If(\E e \in Range(es) : e.type = None, "Basic_Types.Representation"))

FaultsGive(es) ==
    Gives(WithIds(es) = {}, If(WithIds(es) = {}, "Fault_Types"), {}, Types(es),
          Serializer(es) \cup Representations(es))

-----------------------------------------------------------------------------
(* Data dependencies and packets.                                           *)

\* set_data_dependencies_instance_data: what an instance says of the
\* dependencies of its component, each of them once and all of them.
MappingTaken(es, mappings) ==
    /\ IsInjective([i \in DOMAIN mappings |-> mappings[i].dependency])
    /\ {mappings[i].dependency : i \in DOMAIN mappings} = {es[i].name : i \in DOMAIN es}

\* The items of a packet, one behind the other from the bit it starts at.
StartsAt(sizes, start) ==
    [i \in DOMAIN sizes |-> start + FoldSeq(LAMBDA n, sum : n + sum, 0, SubSeq(sizes, 1, i - 1))]

PacketItems(flat, start) ==
    LET at == StartsAt([i \in DOMAIN flat |-> flat[i].size], start)
    IN  [i \in DOMAIN flat |->
            [name |-> flat[i].name, first |-> at[i], last |-> at[i] + flat[i].size - 1]]

\* They are kept by name, so that of two with one name the latter is left.
ItemNamed(items, n) ==
    items[Max({i \in DOMAIN items : items[i].name = n})]

-----------------------------------------------------------------------------
(* Suites whose entities depend on the assembly: the "decorated" packets,   *)
(* data products, commands and faults in the gen/models of the components.  *)
(* set_assembly of such a suite has the model of a type generated, gives    *)
(* the type to an entity and registers it with the component.  Generating   *)
(* the model may itself load the assembly, which would have all its suites  *)
(* filled in again.                                                         *)
(*                                                                          *)
(* A generated model is <<owner, kind>>: the assembly, table or list it is  *)
(* generated from and what it describes.  files are those on the path.      *)

\* A suite is [entities, registered, asked, taken]: the type and id of each
\* entity by its name, the types its component knows, the models it had
\* generated, and whether no exception was raised.
Suite(entities, registered) ==
    [entities |-> entities, registered |-> registered, asked |-> {}, taken |-> TRUE]

Refused(s) == [s EXCEPT !.taken = FALSE]
Ask(s, file) == [s EXCEPT !.asked = @ \cup {file}]
Register(s, type) == [s EXCEPT !.registered = @ \cup {type}]
WithType(s, name, type) == [s EXCEPT !.entities[name].type = type]

\* The model is generated, then an entity of the same name and id with the
\* new type takes the place of the old one.
Typed(s, name, file) == Register(WithType(Ask(s, file), name, file), file)

AskedIfFound(s, file, files) == IF file \in files THEN Ask(s, file) ELSE Refused(s)
TypedIfFound(s, name, file, files) ==
    IF file \in files THEN Typed(s, name, file) ELSE Refused(s)

-----------------------------------------------------------------------------
(* Packets that are described by a record named after the assembly.         *)

DescribedBy(s, name, file, files) ==
    IF s.taken /\ name \in DOMAIN s.entities THEN TypedIfFound(s, name, file, files) ELSE s

QueueMonitorPackets(s, assembly, files) ==
    DescribedBy(s, "Queue_Usage_Packet", <<assembly, "queue_monitor_packet">>, files)
StackMonitorPackets(s, assembly, files) ==
    DescribedBy(s, "Stack_Usage_Packet", <<assembly, "stack_monitor_packet">>, files)
CpuMonitorPackets(s, assembly, files) ==
    DescribedBy(s, "Cpu_Usage_Packet", <<assembly, "cpu_monitor_packet">>, files)
CommandSequencerPackets(s, assembly, files) ==
    LET summary == DescribedBy(s, "Summary_Packet", <<assembly, "sequencer_summary">>, files)
    IN DescribedBy(summary, "Details_Packet", <<assembly, "sequencer_details">>, files)

-----------------------------------------------------------------------------
(* Packets that are described by a record of the package an initialization *)
(* parameter names: package is what stands before the first dot, dotted    *)
(* whether there is one.                                                    *)

SequenceStorePackets(s, parameter, files) ==
    CASE "Slot_Summaries" \notin DOMAIN s.entities -> s
      [] parameter.dotted -> TypedIfFound(s, "Slot_Summaries", <<parameter.package, "record">>, files)
      [] OTHER -> Refused(s)

SimpleSequencerPackets(s, parameter, files) ==
    IF parameter.package = None /\ "Summary_Packet" \in DOMAIN s.entities
    THEN Refused(s)
    ELSE DescribedBy(s, "Summary_Packet", <<parameter.package, "summary_record">>, files)

-----------------------------------------------------------------------------
(* The packets that carry a parameter table.  An instance of a component is *)
(* [instance, type, table], the table being the package of its initial      *)
(* entries; a connection is [from, output, to, input].                      *)

RecordOf(package, files) ==
    IF <<package, "record">> \in files THEN <<package, "record">> ELSE None

TableOf(component, files) ==
    IF component.table = None THEN None ELSE RecordOf(component.table, files)

\* A parameter store is paired with the parameters its manager feeds.
ViaManager(component, connections, files) ==
    LET manages(c) == /\ c.to = component /\ c.from.type = "Parameter_Manager"
                      /\ c.input = "Parameters_Memory_Region_T_Recv_Async"
        managing == SelectSeq(connections, manages)
        fed == SelectSeq(connections, LAMBDA c :
                   c.from = managing[1].from /\ c.to.type = "Parameters")
    IN IF managing = <<>> \/ fed = <<>> THEN None ELSE TableOf(fed[1].to, files)

\* Otherwise the router's table names the table it is sent, unless by number.
ViaRouter(component, routes, files) ==
    LET here == SelectSeq(routes, LAMBDA r : component.instance \in r.destinations)
    IN IF here = <<>> \/ ~here[1].named THEN None ELSE RecordOf(here[1].table, files)

PacketType(component, name, connections, routes, files) ==
    CASE component.type = "Parameters" /\ name = "Active_Parameters" -> TableOf(component, files)
      [] component.type = "Parameter_Store" ->
           LET managed == ViaManager(component, connections, files)
           IN IF managed # None THEN managed ELSE ViaRouter(component, routes, files)
      [] OTHER -> None

DumpsMemory(component, connections) ==
    \E c \in Range(connections) : c.from = component /\ c.output = "Memory_Dump_Send"

\* A packet whose table is not found stays without a type.
ParametersPackets(s, component, snapshots, connections, routes, files) ==
    LET type(name) == PacketType(component, name, connections, routes, files)
        found == {name \in snapshots \cap DOMAIN s.entities : type(name) # None}
    IN IF DumpsMemory(component, connections) THEN s
       ELSE FoldSet(LAMBDA name, t : Typed(t, name, type(name)), s, found)

-----------------------------------------------------------------------------
(* Suites described by what the package of an initialization parameter is  *)
(* generated from; the entity that is retyped must be in the suite.        *)

FaultCorrectionProducts(s, package, files) ==
    LET statuses == TypedIfFound(s, "Fault_Response_Statuses", <<package, "status_record">>, files)
        enums == AskedIfFound(statuses, <<package, "enums">>, files)
        last == TypedIfFound(enums, "Last_Fault_Id_Received", <<package, "packed_id">>, files)
    IN IF {<<package, k>> : k \in {"status_record", "enums", "packed_id"}} \subseteq files
       THEN last ELSE Refused(s)

FaultCommands == {"Enable_Fault_Response", "Disable_Fault_Response", "Clear_Fault_Response"}
FaultCorrectionCommands(s, package, files) ==
    LET enums == AskedIfFound(s, <<package, "enums">>, files)
        retyped(c, t) == TypedIfFound(t, c, <<package, "packed_id">>, files)
    IN IF {<<package, "enums">>, <<package, "packed_id">>} \subseteq files
       THEN FoldSet(retyped, enums, FaultCommands) ELSE Refused(s)

\* lists gives the list model of a package, or None.
WatchdogCommands(s, package, lists, files) ==
    LET limit == TypedIfFound(s, "Set_Watchdog_Limit", <<package, "limit_cmd">>, files)
    IN IF lists[package] = None \/ ~limit.taken THEN Refused(s)
       ELSE TypedIfFound(limit, "Set_Watchdog_Action", <<package, "action_cmd">>, files)

\* The entities a list gives, by their names, replace or join the others.
Joined(s, given) == [s EXCEPT !.entities = given @@ @]
Entity(type) == [type |-> type, id |-> None]
RegisteredAll(s, types) == [s EXCEPT !.registered = @ \cup types]
Without(s, name) ==
    [s EXCEPT !.entities = Restrict(@, DOMAIN @ \ {name})]

WatchdogProducts(s, package, lists, files) ==
    LET states == TypedIfFound(s, "Pet_Connector_Action_States", <<package, "state_record">>, files)
        names == {p.name \o "_Limit" : p \in Range(lists[package])}
        limits == [n \in names |-> Entity("Packed_Missed_Pet_Limit.T")]
    IN IF lists[package] = None \/ ~states.taken THEN Refused(s)
       ELSE LET joined == Joined([states EXCEPT !.entities["Pet_Connector_Action_States"].id = None],
                                 limits)
            IN IF names = {} THEN joined ELSE Register(joined, "Packed_Missed_Pet_Limit.T")

\* The faults are those of the petters that have one, with its id.
WatchdogFaults(s, package, lists) ==
    LET faulty == {p \in Range(lists[package]) : p.fault # None}
        idOf(n) == (CHOOSE p \in faulty : p.name \o "_Fault" = n).fault
        names == {p.name \o "_Fault" : p \in faulty}
    IN IF lists[package] = None \/ "Dummy_Fault" \notin DOMAIN s.entities THEN Refused(s)
       ELSE [s EXCEPT !.entities =
                [n \in names |-> [type |-> "Packed_Connector_Index.T", id |-> idOf(n)]]]

\* The factor of a filter has a type that the component knows from its
\* commands; nothing is registered.
DownsamplerProducts(s, package, lists) ==
    IF lists[package] = None THEN Refused(s)
    ELSE LET names == {p.name \o "_Filter_Factor" : p \in Range(lists[package])}
         IN Joined(s, [n \in names |-> Entity("Packed_U16.T")])

ExtractorProducts(s, package, lists) ==
    LET products == Range(lists[package])
        typeOf(n) == (CHOOSE p \in products : p.name = n).type
        given == [n \in {p.name : p \in products} |-> Entity(typeOf(n))]
    IN IF lists[package] = None \/ "Dummy" \notin DOMAIN s.entities THEN Refused(s)
       ELSE RegisteredAll(Joined(Without(s, "Dummy"), given), {p.type : p \in products})

-----------------------------------------------------------------------------
(* The model a package stands for, among those of its name: a path is       *)
(* [specific, model], the specific name being None in a file without one.   *)

Chosen(paths, specific) ==
    LET fitting == SelectSeq(paths, LAMBDA p : p.specific = specific)
    IN IF fitting = <<>> THEN None ELSE fitting[1].model

\* All packets are those of the product packets model.
PacketizerPackets(s, paths, specific, packetsOf) ==
    IF Chosen(paths, specific) = None THEN Refused(s)
    ELSE [s EXCEPT !.entities = packetsOf[Chosen(paths, specific)]]

-----------------------------------------------------------------------------
(* What is generated for what.                                              *)

\* Faulty: the generator of an enumeration has every suite told.
LoadsToldToAll(file) == IF file[2] = "enums" THEN "all" ELSE "shallow"

\* What a generator loads of the assembly: nothing but the model it is given,
\* the assembly without telling its suites, all but what a list names, or all.
Loads(file) ==
    CASE file[2] \in {"queue_monitor_packet", "stack_monitor_packet", "cpu_monitor_packet",
                      "sequencer_summary", "sequencer_details", "limit_cmd", "action_cmd",
                      "record"} -> "shallow"
      [] file[2] = "enums" -> "all but fault correction"
      [] OTHER -> "nothing"

\* assembly.load tells the suites of a component unless the load is shallow
\* or the component's name is in the list of those to be loaded shallow.
Told(load, components) ==
    CASE load \in {"shallow", "nothing"} -> {}
      [] load = "all but fault correction" -> {c \in components : c.type # "Fault_Correction"}
      [] OTHER -> components

\* What the generation of a model asks to be generated first: what the
\* suites of the components told ask, and for a packed id its enums.
AskedFor(file, components, askedBy) ==
    (UNION {askedBy[c] : c \in Told(Loads(file), components)})
        \cup (IF file[2] = "packed_id" THEN {<<file[1], "enums">>} ELSE {})

\* All that is generated on the way to the given files.
RECURSIVE Reached(_, _, _, _)
Reached(files, seen, components, askedBy) ==
    LET more == (UNION {AskedFor(f, components, askedBy) : f \in files}) \ seen
    IN IF more = {} THEN seen ELSE Reached(more, seen \cup more, components, askedBy)

-----------------------------------------------------------------------------
(* Properties.                                                              *)

\* Whatever the components of an assembly, no generated model is on the way
\* to itself: the loop that shallow loads are there to break ("this causes a
\* circular dependency loop if shallow_load is not set to True in the
\* generator", queue_monitor_packets.py:41).
NoCircle(components, askedBy) ==
    \A f \in UNION {askedBy[c] : c \in components} :
        f \notin Reached({f}, {}, components, askedBy)

\* After set_assembly every type of the suite's entities is known to the
\* component, which is where the assembly and its dictionary look types up.
TypesAreKnown(s) ==
    s.taken => \A n \in DOMAIN s.entities :
                  s.entities[n].type \in s.registered \cup {None}
=============================================================================
