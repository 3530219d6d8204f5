------------------------------- MODULE Tables -------------------------------
(***************************************************************************)
(* The tables that are made from an assembly for some of its components:   *)
(* the packets of the product packetizer, the tables of parameters, where  *)
(* the routers send what they get, the responses to faults, the list of    *)
(* the task watchdog and the products that are extracted from packets      *)
(* (gen/models of these components).  Each is written by names, which are  *)
(* looked up in the assembly for what they are known by on board.          *)
(***************************************************************************)
EXTENDS Naturals, Sequences, SequencesExt, FiniteSetsExt, Functions

CONSTANT None

Sum(numbers) == FoldSeq(LAMBDA n, sum : n + sum, 0, numbers)

\* The place of each of those that follow one another, from 0.
StartOf(sizes, i) == Sum(SubSeq(sizes, 1, i - 1))

NamesOf(seq) == [i \in DOMAIN seq |-> seq[i].name]

\* The place of the i-th when all are sorted by their numbers; equal ones
\* keep the order they came in.
PlaceAmong(numbers, i) ==
    Cardinality({j \in DOMAIN numbers :
        numbers[j] < numbers[i] \/ (numbers[j] = numbers[i] /\ j <= i)})

-----------------------------------------------------------------------------
(* Product packets.  An entry of a packet is a data product, whose label is *)
(* <<component, name>>, or some bytes of padding, with a label or without.  *)

EntryTaken(e) ==
    IF e.pad = 0 THEN e.label # None
    ELSE ~e.eventOnMissing /\ ~e.useTime /\ ~e.withTime /\ e.onChange

\* One entry at most gives the time of the packet, and none when the tick
\* does; a pad has a name of its own.
PacketTaken(p) ==
    LET timing == {i \in DOMAIN p.entries : p.entries[i].useTime}
        named(i) == p.entries[i].pad # 0 /\ p.entries[i].label # None
    IN  /\ \A i \in DOMAIN p.entries : EntryTaken(p.entries[i])
        /\ Cardinality(timing) <= 1
        /\ p.tickTime => timing = {}
        /\ \A i, j \in DOMAIN p.entries :
            i # j /\ named(i) => p.entries[j].label # p.entries[i].label

\* Names and ids of packets come once; an id of 0 counts as one that came.
PacketsTaken(packets) ==
    /\ \A i \in DOMAIN packets : PacketTaken(packets[i]) /\ packets[i].id # 0
    /\ IsInjective(NamesOf(packets))
    /\ IsInjective([i \in DOMAIN packets |-> packets[i].id])

\* A component of the assembly is [type, products, ...], its products a
\* function to the sizes of their fields.  The period of a packet is a
\* product of the packetizer itself.
ProductFields(assembly, packets, e) ==
    LET c == assembly[e.label[1]]
    IN  IF c.type = "Product_Packetizer" THEN <<32>> ELSE c.products[e.label[2]]

ProductFound(assembly, packets, e) ==
    /\ e.label[1] \in DOMAIN assembly
    /\ IF assembly[e.label[1]].type = "Product_Packetizer"
       THEN e.period /\ e.label[2] \in Range(NamesOf(packets))
       ELSE e.label[2] \in DOMAIN assembly[e.label[1]].products

\* Faulty: the room for the times is forgotten.
PacketSizeNoTime(assembly, packets, p, time) ==
    Sum([i \in DOMAIN p.entries |->
            IF p.entries[i].pad # 0 THEN 8 * p.entries[i].pad
            ELSE Sum(ProductFields(assembly, packets, p.entries[i]))])

\* _resolve_data_product_size
PacketSize(assembly, packets, p, time) ==
    Sum([i \in DOMAIN p.entries |->
            IF p.entries[i].pad # 0 THEN 8 * p.entries[i].pad
            ELSE Sum(ProductFields(assembly, packets, p.entries[i]))
                 + (IF p.entries[i].withTime THEN Sum(time) ELSE 0)])

\* create_item_list: the fields of the time and of the product, each under
\* the name of the product and its own, and the pads, which are numbered
\* when they have no name.
PadsBefore(p, i) == Cardinality({j \in 1 .. i - 1 : p.entries[j].pad # 0 /\ p.entries[j].label = None})

Items(assembly, packets, p, time) ==
    LET Item(name, bits) == [name |-> name, bits |-> bits]
        Of(e, what, fields) ==
            [k \in DOMAIN fields |-> Item(e.label \o <<what, k>>, fields[k])]
        EntryItems(i) ==
            LET e == p.entries[i]
            IN  IF e.pad # 0
                THEN <<Item(IF e.label = None THEN <<"Reserved", PadsBefore(p, i)>> ELSE e.label, 8 * e.pad)>>
                ELSE (IF e.withTime THEN Of(e, "time", time) ELSE <<>>)
                     \o Of(e, "value", ProductFields(assembly, packets, e))
    IN  FlattenSeq([i \in DOMAIN p.entries |-> EntryItems(i)])

StartBits(items) == [i \in DOMAIN items |-> StartOf([j \in DOMAIN items |-> items[j].bits], i)]

PacketResolves(assembly, packets, p, time, room) ==
    /\ \A i \in DOMAIN p.entries : p.entries[i].pad = 0 => ProductFound(assembly, packets, p.entries[i])
    /\ PacketSize(assembly, packets, p, time) <= room
    /\ IsInjective(NamesOf(Items(assembly, packets, p, time)))

-----------------------------------------------------------------------------
(* Parameter tables.  An entry is one parameter <<component, name>>, all of  *)
(* a component, or a group of parameters that share the bytes.               *)

\* What an entry is in the table: each parameter of a component by itself.
Groups(assembly, entry) ==
    CASE entry.kind = "component" ->
            [i \in DOMAIN assembly[entry.component].parameters |->
                <<<<entry.component, assembly[entry.component].parameters[i].name>>>>]
      [] entry.kind = "parameter" -> <<<<entry.parameter>>>>
      [] entry.kind = "group" -> <<entry.parameters>>

Entries(assembly, table) ==
    FlattenSeq([i \in DOMAIN table.entries |-> Groups(assembly, table.entries[i])])

Parameters(assembly, table) == FlattenSeq(Entries(assembly, table))

EntryFound(assembly, entry) ==
    LET Found(p) == /\ p[1] \in DOMAIN assembly
                    /\ p[2] \in Range(NamesOf(assembly[p[1]].parameters))
    IN  CASE entry.kind = "component" ->
                /\ entry.component \in DOMAIN assembly
                /\ assembly[entry.component].parameters # <<>>
          [] entry.kind = "parameter" -> Found(entry.parameter)
          [] entry.kind = "group" -> \A i \in DOMAIN entry.parameters : Found(entry.parameters[i])

Parameter(assembly, p) ==
    LET all == assembly[p[1]].parameters
    IN  all[CHOOSE i \in DOMAIN all : all[i].name = p[2]]

\* The bytes of an entry, which its parameters share when of one type.
SharesType(assembly, group) ==
    \A i \in DOMAIN group : Parameter(assembly, group[i]).type = Parameter(assembly, group[1]).type
EntryBytes(assembly, table) ==
    [i \in DOMAIN Entries(assembly, table) |-> Parameter(assembly, Entries(assembly, table)[i][1]).bytes]

\* The first of the connectors of the instance that leads to the component.
ComponentIndex(connections, component) ==
    LET to == {i \in DOMAIN connections : connections[i] = component}
    IN  IF to = {} THEN None ELSE Min(to)

\* _resolve_parameter_table
TableResolves(assembly, table, header, room) ==
    /\ \A i \in DOMAIN table.entries : EntryFound(assembly, table.entries[i])
    /\ IsInjective(Parameters(assembly, table))
    /\ \A i \in DOMAIN Entries(assembly, table) : SharesType(assembly, Entries(assembly, table)[i])
    /\ header + Sum(EntryBytes(assembly, table)) <= room
    /\ table.instance \in DOMAIN assembly
    /\ assembly[table.instance].type = "Parameters"
    /\ \A p \in Range(Parameters(assembly, table)) :
        ComponentIndex(assembly[table.instance].connections, p[1]) # None

\* Faulty: a table is not compared with the others.
OtherTablesIgnored(assembly, tables, order, i) == TRUE

\* The tables are given the assembly one after the other, and each one is
\* compared with those that came before it.
OtherTables(assembly, tables, order, i) ==
    \A j \in 1 .. i - 1 :
        Range(Parameters(assembly, tables[order[j]])) \cap Range(Parameters(assembly, tables[order[i]])) = {}

TablesResolve(assembly, tables, order, header, room) ==
    \A i \in DOMAIN order :
        /\ TableResolves(assembly, tables[order[i]], header, room)
        /\ OtherTables(assembly, tables, order, i)

\* _assign_parameter_table_ids: by name, among the tables that came so far.
TableIds(tables, order, n) ==
    LET came == SubSeq(order, 1, n)
        ranks == [i \in DOMAIN came |-> tables[came[i]].rank]
    IN  [t \in Range(came) |-> PlaceAmong(ranks, CHOOSE j \in DOMAIN came : came[j] = t)]

\* When tables resolve, every parameter has its bytes in one place of one of
\* them, they are numbered from 1 without a gap in the order of their names,
\* and the connector a table gives a parameter leads to its component.
ParametersHaveOnePlace(assembly, tables, order, header, room) ==
    LET ids == TableIds(tables, order, Len(order))
        Held(i) == Parameters(assembly, tables[order[i]])
        connections(i) == assembly[tables[order[i]].instance].connections
    IN  TablesResolve(assembly, tables, order, header, room) =>
            /\ \A i, j \in DOMAIN order : \A k \in DOMAIN Held(i), l \in DOMAIN Held(j) :
                  Held(i)[k] = Held(j)[l] => i = j /\ k = l
            /\ {ids[t] : t \in Range(order)} = 1 .. Len(order)
            /\ \A t, u \in Range(order) : tables[t].rank < tables[u].rank => ids[t] < ids[u]
            /\ \A i \in DOMAIN order : \A k \in DOMAIN Held(i) :
                  LET owner == Held(i)[k][1]
                  IN  connections(i)[ComponentIndex(connections(i), owner)] = owner

-----------------------------------------------------------------------------
(* Routers.  An entry of a table has a key, an APID or the id or the name of *)
(* a parameter table, and destinations: a component, and one of its          *)
(* connectors unless there is but one.                                       *)

\* Where the connectors of the router lead: of every index an end or None.
Ends(connections, component) ==
    {i \in DOMAIN connections : connections[i] # None /\ connections[i][1] = component}

\* No two lead to the same connector.
ConnectedOnce(connections) ==
    \A i, j \in DOMAIN connections : connections[i] # None /\ connections[i] = connections[j] => i = j

\* Faulty: a component is enough, whatever connector of it is meant.
DestinationOfComponent(connections, d) == Ends(connections, d.component)

\* The indexes that a destination may stand for; it is found if there is one.
DestinationOf(connections, d) ==
    IF d.connector = None THEN Ends(connections, d.component)
    ELSE {i \in Ends(connections, d.component) : connections[i][2] = d.connector}

Resolves(connections, d) == Cardinality(DestinationOf(connections, d)) = 1
IndexOf(connections, d) == CHOOSE i \in DestinationOf(connections, d) : TRUE

\* The ids that name a table become numbers; none comes twice.
Number(ids, key) == IF key \in DOMAIN ids THEN ids[key] ELSE key

\* The router of packets has a destination "ignore", which is none.
Ignored(router, d) == router.type = "Ccsds_Router" /\ d.component = "ignore"

RouterTaken(assembly, router) ==
    LET connections == assembly[router.instance].connections
    IN  /\ router.instance \in DOMAIN assembly
        /\ assembly[router.instance].type = router.type
        /\ ConnectedOnce(connections)
        /\ \A i \in DOMAIN router.table : \A k \in DOMAIN router.table[i].destinations :
            LET d == router.table[i].destinations[k]
            IN  Ignored(router, d) \/ Resolves(connections, d)

\* The router of packets: an APID comes once, as does an index of an entry.
ApidsTaken(router) == IsInjective([i \in DOMAIN router.table |-> router.table[i].key])
Indexes(assembly, router, entry) ==
    {IndexOf(assembly[router.instance].connections, d) :
        d \in {e \in Range(entry.destinations) : ~Ignored(router, e)}}

\* The router of parameter tables: a table is loaded from one place at most.
TableEntryTaken(entry) ==
    /\ entry.destinations # <<>>
    /\ IsInjective([k \in DOMAIN entry.destinations |->
            <<entry.destinations[k].component, entry.destinations[k].connector>>])
    /\ Cardinality({k \in DOMAIN entry.destinations : entry.destinations[k].loadFrom}) <= 1

TableRouterTaken(assembly, router, ids) ==
    /\ \A i \in DOMAIN router.table : TableEntryTaken(router.table[i])
    /\ \A i \in DOMAIN router.table : Number(ids, router.table[i].key) \in Nat
    /\ IsInjective([i \in DOMAIN router.table |-> Number(ids, router.table[i].key)])
    /\ RouterTaken(assembly, router)

\* A table that a router takes names each parameter table once, whether by
\* name or by number, and each destination of it is one connector of the
\* router, which leads to the component and the connector that are named.
RoutesLead(assembly, router, ids) ==
    LET connections == assembly[router.instance].connections
        Key(i) == Number(ids, router.table[i].key)
    IN  TableRouterTaken(assembly, router, ids) =>
            /\ \A i, j \in DOMAIN router.table : Key(i) = Key(j) => i = j
            /\ \A i \in DOMAIN router.table : \A k \in DOMAIN router.table[i].destinations :
                  LET d == router.table[i].destinations[k]
                      to == connections[IndexOf(connections, d)]
                  IN  ~Ignored(router, d) => to[1] = d.component /\ d.connector \in {None, to[2]}

-----------------------------------------------------------------------------
(* Fault responses: each names a fault of a component and a command of one,  *)
(* which are known by their ids.  The states of all, 2 bits for each, fit    *)
(* into a data product.                                                      *)

StatusesFit(responses, room) == 2 * Len(responses) + 7 <= 8 * room

ResponsesTaken(assembly, responses, room) ==
    /\ StatusesFit(responses, room)
    /\ \A i \in DOMAIN responses :
        /\ {responses[i].fault[1], responses[i].command[1]} \subseteq DOMAIN assembly
        /\ responses[i].fault[2] \in DOMAIN assembly[responses[i].fault[1]].faults
        /\ responses[i].command[2] \in DOMAIN assembly[responses[i].command[1]].commands

ResponseIds(assembly, response) ==
    [fault |-> assembly[response.fault[1]].faults[response.fault[2]],
     command |-> assembly[response.command[1]].commands[response.command[2]]]

-----------------------------------------------------------------------------
(* The task watchdog: whoever pets it is written with a limit, an action and *)
(* a fault.  Every index of its connector has one that calls it.             *)

PetterTaken(petter) == petter.action = "error_fault" => petter.fault # None

\* callers: of every index the sequence of the connectors attached there.
WatchdogTaken(petters, callers) ==
    /\ \A i \in DOMAIN petters : PetterTaken(petters[i])
    /\ IsInjective(NamesOf(petters))
    /\ \A i \in DOMAIN callers : Len(callers[i]) <= 1
    /\ IsInjective(FlattenSeq(callers))
    /\ Len(petters) = Len(callers)
    /\ Range(NamesOf(petters)) \subseteq Range(FlattenSeq(callers))

ConnectorId(petter, callers) == CHOOSE i \in DOMAIN callers : petter.name \in Range(callers[i])

\* The list in the order of the indexes, by which the component asks for it.
WatchdogList(petters, callers) ==
    LET indexes == [i \in DOMAIN petters |-> ConnectorId(petters[i], callers)]
    IN  [k \in DOMAIN petters |-> petters[CHOOSE i \in DOMAIN petters : PlaceAmong(indexes, i) = k]]

\* The entry that the watchdog finds under the index of a call is that of
\* the caller, since as many are written as there are indexes, and every
\* name once.
PetsAreTheirs(petters, callers) ==
    WatchdogTaken(petters, callers) =>
        \A i \in DOMAIN callers : callers[i] = <<WatchdogList(petters, callers)[i].name>>

-----------------------------------------------------------------------------
(* Extracted products: they are kept by APID, and numbered in that order.    *)

Apids(products) ==
    LET First(apid) == Min({i \in DOMAIN products : products[i].apid = apid})
    IN  SetToSortSeq({products[i].apid : i \in DOMAIN products}, LAMBDA a, b : First(a) < First(b))

ByApid(products) ==
    FlattenSeq([k \in DOMAIN Apids(products) |->
        SelectSeq(products, LAMBDA p : p.apid = Apids(products)[k])])

\* The name of a product is not part of one that came before.
ProductsTaken(products) ==
    \A i, j \in DOMAIN products : i < j => products[j].name \notin products[i].parts

LocalId(products, p) == (CHOOSE i \in DOMAIN products : ByApid(products)[i] = p) - 1

=============================================================================
