----------------------------- MODULE MCGenerators -----------------------------
(***************************************************************************)
(* The Python side on small instances: what generators do with the models  *)
(* of an assembly, and the build that calls them, with its sessions,       *)
(* caches and databases.  The machines share no state; a behaviour is of   *)
(* one of them, or gives one of the functions an input: small components,  *)
(* types, tables, suites and views.                                        *)
(***************************************************************************)
EXTENDS Wiring, EntityIds, TypeRanges, Sessions, ModelCache, TargetCache, Targets,
        GeneratorFunctions, BuildFunctions

CONSTANTS ByName, top1, sub1, sub2, Word, Byte, NoType, d1,
          m1, m2, m3, p1, p2, t1, t2, t3, f1, top, lib, other, comp, topSub, libSub, compSub

FSE == INSTANCE FiniteSetsExt
SE == INSTANCE SequencesExt

-----------------------------------------------------------------------------
(* Wiring: an assembly with one subassembly, a connector of each kind that  *)
(* matters, and connections that fit and that do not.                       *)

Port(kind, type, count) == [kind |-> kind, type |-> type, returns |-> NoType, count |-> count]

MCConnectors ==
    <<top1, "out">> :> Port("send", Word, 2) @@
    <<sub1, "in">> :> Port("recv_sync", Word, 1) @@
    <<sub1, "more">> :> Port("send", Word, 1) @@
    <<sub2, "in">> :> Port("recv_async", Word, 2) @@
    <<sub2, "other">> :> Port("recv_sync", Byte, 1)

End(p, i) == [port |-> p, index |-> i]
Nowhere == End(Ignore, 0)
Out(i) == End(<<top1, "out">>, i)
More == End(<<sub1, "more">>, 1)
In(i) == End(<<sub2, "in">>, i)

MCLinks ==
    [from : {Out(0), Out(1), More}, to : {In(1), Nowhere}]
    \cup [from : {More}, to : {End(<<sub1, "in">>, 0), In(3), End(<<sub2, "other">>, 1)}]
    \cup [from : {Nowhere}, to : {In(1), Nowhere, Out(1)}]
    \cup [from : {Out(1)}, to : {More, End(<<top1, "gone">>, 1)}]

Sub(names, links) == [name |-> "sub", components |-> names, connections |-> links, subassemblies |-> <<>>]
Outer(names, links, subs) == [name |-> "top", components |-> names, connections |-> links, subassemblies |-> subs]
Empty == Outer(<<>>, <<>>, <<>>)

MCAssemblies ==
    {Outer(<<top1>>, links, <<Sub(<<sub1, sub2>>, inner)>>) :
        links \in SeqOf(MCLinks, 2), inner \in SeqOf(MCLinks, 1)}
    \cup {Outer(names, <<>>, subs) :
        names \in {<<>>, <<sub1>>, <<top1, top1>>},
        subs \in {<<>>, <<Sub(<<sub1>>, <<>>)>>, <<Sub(<<sub1>>, <<>>), Sub(<<>>, <<>>)>>}}

NoWiring ==
    /\ assembly = Empty /\ doing = <<0, "off">> /\ members = [f \in {0} |-> {}]
    /\ attached = [s \in Slots |-> Unattached] /\ made = <<>>
    /\ unattached = [connectors |-> 0, ignored |-> 0]

-----------------------------------------------------------------------------
(* Ids: three suites of one or two entities, with bases, ids of their own,  *)
(* or neither.                                                              *)

Written(base, own) ==
    [base |-> base, ids |-> own, types |-> [i \in DOMAIN own |-> IF i = 2 THEN Byte ELSE Word]]
Numbers == {<<NoId>>, <<NoId, NoId>>}
Ids == {<<2>>, <<4, 3>>, <<5, 5>>, <<4, NoId>>, <<1, 3>>}
MCSuites == {Written(base, n) : base \in {NoId, 3, 20}, n \in Numbers} \cup {Written(NoId, n) : n \in Ids}
MCDeclarations == [1 .. 3 -> MCSuites]

NoIds ==
    /\ suites = <<>> /\ typeBase = NoId /\ wanted = <<>> /\ stage = "off" /\ turn = 1
    /\ ids = <<>> /\ bases = <<>> /\ dictionary = <<>> /\ resolved = <<>>

-----------------------------------------------------------------------------
(* Three files, of which one rests on the others and another on the third,  *)
(* and two generators that load them at once.                               *)

MCDependsOn == m1 :> <<m2, m3>> @@ m2 :> <<m3>> @@ m3 :> <<>>

MCModelFiles == {m1, m2, m3}

ASSUME CacheAssumption

-----------------------------------------------------------------------------
(* Three targets, built one, two or three at a time.                        *)

MCTargets == {t1, t2, t3}

-----------------------------------------------------------------------------
(* Two directories, with models whose generators make Ada, C, and another   *)
(* model, files written by hand that may clash with these, and .do files.   *)

MCKind ==
    [comp |-> "yaml", spec |-> "ada", body |-> "ada", sub |-> "yaml", subC |-> "c", subH |-> "c",
     dot |-> "other", svg |-> "other", hand |-> "ada", c |-> "c", s |-> "c", own |-> "do",
     any |-> "default", exe |-> "other", obj |-> "other", elf |-> "other", pyDo |-> "do", py |-> "py",
     more |-> "yaml"]
MCUnit == [f \in DOMAIN MCKind |->
    CASE f \in {"spec", "body", "hand"} -> "u" [] f \in {"subC", "subH", "c", "s"} -> "v" [] OTHER -> f]
MCPart == [f \in DOMAIN MCKind |->
    CASE f \in {"spec", "hand"} -> "ads" [] f = "body" -> "adb" [] f \in {"c", "subC"} -> "c"
      [] f = "subH" -> "h" [] OTHER -> f]
MCPlace == [f \in DOMAIN MCKind |->
    CASE f \in {"spec", "body", "subC", "subH"} -> "src" [] f = "sub" -> "yaml" [] OTHER -> "else"]
MCGenerated(f) ==
    CASE f = "comp" -> {"spec", "sub", "dot"} [] f = "sub" -> {"subC", "subH"} [] f = "more" -> {"body"}
      [] OTHER -> {}
MCRuled(f) ==
    CASE f = "dot" -> {"svg"} [] f \in {"body", "hand", "c"} -> {"obj"} [] f = "exe" -> {"elf"} [] OTHER -> {}
MCDoTarget(f) == CASE f = "own" -> "exe" [] f = "pyDo" -> "py" [] OTHER -> "nothing"
MCListedIn(dir, t) == IF dir = "A" /\ t = "obj" THEN {"A", "B"} ELSE {dir}
MCDocOf(dir) == IF dir = "A" THEN "Adoc" ELSE "Bdoc"

MCBuildPath == <<"A", "B">>
MCDocs == "A" :> {"dot"} @@ "B" :> {}

ASSUME TargetsAssumption

MCTrees ==
    LET first == <<"comp", "more", "body", "hand", "c", "any", "own", "pyDo">>
        second == <<"more", "c", "hand", "s">>
        Some(all, in) == SelectSeq(all, LAMBDA f : f \in in)
    IN  {"A" :> Some(first, in) @@ "B" :> Some(second, also \ in) :
            in \in SUBSET SE!ToSet(first), also \in SUBSET SE!ToSet(second)}

-----------------------------------------------------------------------------
(* Four packed types; one holds two of the others, one declares a name of   *)
(* its own that is also predefined.                                         *)

MCParts == "outer" :> <<"inner", "flat">> @@ "inner" :> <<>> @@ "flat" :> <<>> @@ "alone" :> <<>>
MCFields ==
    "outer" :> <<"P.Mode", "Natural">> @@ "inner" :> <<"Natural", "Local">>
    @@ "flat" :> <<"Natural", "P.Mode">> @@ "alone" :> <<"Natural">>
MCPreamble == [t \in DOMAIN MCParts |-> IF t = "inner" THEN {"Natural", "Local"} ELSE {}]
MCLetter == [t \in DOMAIN MCParts |-> "P.Mode" :> "E" @@ "Natural" :> "U" @@ "Local" :> "U"]

MCPackedTypes == DOMAIN MCParts

ASSUME RangesAssumption

-----------------------------------------------------------------------------
(* Two assemblies with a part in common, one of which names it twice and is *)
(* refused, and a component.  Nothing is generated from the part alone.     *)

MCPartsOf == top :> <<lib>> @@ lib :> <<>> @@ other :> <<lib, lib>>
MCInstancesOf == [a \in {top, lib, other} |-> {<<a, comp>>}]
MCNamed == top :> {topSub} @@ lib :> {libSub} @@ comp :> {compSub} @@ other :> {}

MCAssemblyFiles == {top, lib, other}
MCAsked == {top, other, topSub, compSub}

ASSUME Models!LoadingAssumption /\ Models!AskedOfNoPart

-----------------------------------------------------------------------------
(* Instances of components.                                                 *)

I == INSTANCE Instances

AsyncPort == [kind |-> "recv_async", type |-> "T.T", returns |-> None, volatile |-> FALSE,
              priority |-> None, count |-> 1, package |-> "T", packing |-> "packed"]

Component(execution, subtasks, ports) ==
    [name |-> "Comp", connectors |-> ports, generic |-> None, init |-> None, discriminant |-> None,
     interrupts |-> {}, suites |-> <<>>, dependencies |-> {}, subtasks |-> subtasks,
     execution |-> execution]

MCComponents ==
    {Component(execution, subtasks, ports) :
        execution \in {"active", "passive", "either"}, subtasks \in {<<>>, <<"Sub">>},
        ports \in {<<>>, "In" :> AsyncPort,
                   "In" :> AsyncPort @@ "Urgent" :> [AsyncPort EXCEPT !.priority = 1]}}

MCInstances ==
    {[name |-> "inst", execution |-> execution, generic |-> None, discriminant |-> None,
      init |-> None, initBase |-> initBase, setIdBases |-> None, dependencies |-> None,
      task |-> [priority |-> priority, stack |-> stack, secondary |-> secondary],
      subtasks |-> subtasks] :
        execution \in {None, "active", "passive"},
        initBase \in {None, <<<<"Queue_Size", 50>>>>, <<<<"Priority_Queue_Depth", 3>>>>},
        priority \in {None, 5}, stack \in {None, 2000}, secondary \in {None, 100},
        subtasks \in {None} \cup {<<[name |-> n, disabled |-> off, priority |-> 7, stack |-> 4000]>> :
                                    n \in {"Sub", "Other"}, off \in BOOLEAN}}

InstanceInputs == [kind : {"instance"}, component : MCComponents, data : MCInstances]

\* What loads can run: an active instance has one primary task and a passive
\* one none, whatever its component may be; every subtask that is not
\* disabled has its task; a queue has room; and the ranks of the tasks follow
\* their priorities, equal ones sharing a rank (component.py
\* set_component_instance_data, tasks.py set_instance_data, assembly.py load).
InstanceRuns(c, d) ==
    I!ComponentLoads(c) /\ I!InstanceLoads(c, d) =>
        LET tasks == IF I!HasTasks(c) THEN I!RunningTasks(c, d) ELSE <<>>
            on == IF c.subtasks = <<>> THEN 0
                  ELSE Len(SelectSeq(d.subtasks, LAMBDA s : ~s.disabled))
            ranked == I!Ranked(tasks)
        IN  /\ Len(tasks) = on + (IF I!IsActive(c, d) THEN 1 ELSE 0)
            /\ I!NeedsQueue(c) => I!QueueSize(c, d, [t \in {"T.T"} |-> 10]) \in Nat \ {0}
            /\ \A i, j \in DOMAIN ranked :
                  ranked[i].rank < ranked[j].rank
                      <=> ranked[i].task.priority > ranked[j].task.priority

-----------------------------------------------------------------------------
(* Views.  Three components in a row, the last of which also depends on the *)
(* first.                                                                   *)

MCComponentOf ==
    "a" :> [type |-> "A", execution |-> "active"] @@
    "b" :> [type |-> "B", execution |-> "passive"] @@
    "c" :> [type |-> "B", execution |-> "passive"]

Wire(from, to, type) ==
    [from |-> from, to |-> to, fromName |-> from, toName |-> to, fromArray |-> from, toArray |-> to,
     type |-> type, types |-> {type}, kinds |-> {"send", "recv_sync"}]
MCConnectionOf == "ab" :> Wire("a", "b", "T") @@ "bc" :> Wire("b", "c", "U")
MCDependencyOf == "d" :> [owner |-> "c", product |-> "a", name |-> "d", productName |-> "p", type |-> "P"]

V == INSTANCE Views WITH ComponentOf <- MCComponentOf, ConnectionOf <- MCConnectionOf,
                         DependencyOf <- MCDependencyOf

MCFilters ==
    [type : {"component_name", "component_name_context"}, list : {"include", "exclude"},
     items : {{"a"}, {"c", "gone"}}]
    \cup [type : {"connector_type"}, list : {"exclude"}, items : {{"T"}}]
    \cup [type : {"data_dependency_name"}, list : {"include"}, items : {{"d"}}]

ViewInputs == [kind : {"view"}, filters : [{"f", "g", "h"} -> MCFilters], show : BOOLEAN]

\* A rule means the same however its "&" and "|" are ordered, grouped and
\* distributed, and the complement of "f | g" is that of f and of g,
\* although each operation cleans up after its operands; a group shows what
\* is in it, and what a filter is warned of could be left out (view.py,
\* assembly_union, assembly_intersection, assembly_not, assembly_group and
\* check_component_names with those like it).
RulesKeepTheirMeaning(filters, show) ==
    LET Shown(part) == [part EXCEPT !.dependencies = IF show THEN @ ELSE {}]
        Is(rule) == Shown(V!Apply([rule |-> rule, filters |-> filters, show |-> show]))
        f == V!Named("f")
        g == V!Named("g")
        h == V!Named("h")
        Less(filter) == [filter EXCEPT !.items = @ \ V!Unknown(filter)]
    IN  V!FiltersTaken(filters) =>
        /\ Is(V!Group(f)) = Is(f)
        /\ V!Filtered(filters["f"], V!Assembly, show) = V!Filtered(Less(filters["f"]), V!Assembly, show)
        /\ Is(V!And(<<f, g>>)) = Is(V!And(<<g, f>>))
        /\ Is(V!Or(<<f, g>>)) = Is(V!Or(<<g, f>>))
        /\ Is(V!And(<<f, V!And(<<g, h>>)>>)) = Is(V!And(<<f, g, h>>))
        /\ Is(V!Or(<<f, V!Or(<<g, h>>)>>)) = Is(V!Or(<<f, g, h>>))
        /\ Is(V!And(<<f, V!Or(<<g, h>>)>>)) = Is(V!Or(<<V!And(<<f, g>>), V!And(<<f, h>>)>>))
        /\ Is(V!Not(V!Or(<<f, g>>))) = Is(V!And(<<V!Not(f), V!Not(g)>>))

-----------------------------------------------------------------------------
(* Packed types: records of up to two fields, and records and arrays of     *)
(* these.                                                                   *)

P == INSTANCE PackedLayout

Plain(name) == [name |-> name, packed |-> None, lengthField |-> None, offset |-> 0, endian |-> "either",
                access |-> "T", skip |-> FALSE, typeName |-> "Type", enum |-> FALSE, package |-> "Pkg",
                modelled |-> FALSE, range |-> [literals |-> {}, min |-> 0, max |-> 255],
                format |-> None]
Simple(name, unit, length) == [Plain(name) EXCEPT !.format = [letter |-> "U", unit |-> unit, length |-> length]]
Holding(name, type) == [Plain(name) EXCEPT !.packed = type, !.endian = "big"]
Varying(f, by) == [f EXCEPT !.lengthField = <<<<by>>>>]
RecordOf(fields) == [kind |-> "record", fields |-> fields]
ArrayOf(element, length) == [kind |-> "array", element |-> element, length |-> length]

FlatFields(name) ==
    {Simple(name, 8, 0), Simple(name, 16, 0), Simple(name, 8, 3), Simple(name, 4, 0),
     Varying(Simple(name, 8, 3), "x"), [Simple(name, 8, 2) EXCEPT !.range.max = 3],
     [Simple(name, 4, 0) EXCEPT !.range.max = 15]}
FlatRecords == {RecordOf(<<x, y>>) : x \in FlatFields("x"), y \in FlatFields("y")}
               \cup {RecordOf(<<x>>) : x \in FlatFields("x")}
Nested == {t \in FlatRecords : P!TypeLoads(t)} \cup {ArrayOf(Simple("e", 8, 0), 2)}
DeepFields(name) == {Holding(name, t) : t \in Nested \cup {ArrayOf(Holding("e", RecordOf(<<Simple("x", 8, 0), Simple("y", 16, 0)>>)), 2)}}
                    \cup {Simple(name, 8, 0), Simple(name, 24, 0)}

LayoutInputs ==
    [kind : {"layout"}, type : FlatRecords \cup {RecordOf(<<f, g>>) : f \in DeepFields("f"), g \in DeepFields("g")}]

\* Where a field of a type begins, by the starts of the fields it is in.
RECURSIVE BeginsAt(_, _)
BeginsAt(t, path) ==
    LET i == CHOOSE i \in DOMAIN P!Fields(t) : P!Label(t, i) = Head(path)
        f == P!Fields(t)[i]
    IN  P!StartBit(t, i) + (IF Len(path) = 1 THEN 0 ELSE BeginsAt(f.packed, Tail(path)))

RECURSIVE Varies(_, _)
Varies(t, path) ==
    LET i == CHOOSE i \in DOMAIN P!Fields(t) : P!Label(t, i) = Head(path)
        f == P!Fields(t)[i]
    IN  f.lengthField # None \/ (Len(path) > 1 /\ Varies(f.packed, Tail(path)))

\* The fields that a type is flattened to have names of their own and lie one
\* after the other, each where the starts of the fields around it put it, and
\* fill the type; without those of variable length they leave the least size
\* (record.py, array.py, field.py).
LeavesFill(t) ==
    P!TypeLoads(t) =>
        LET leaves == P!Flattened(t, <<>>)
            bits == [k \in DOMAIN leaves |-> P!Bits(leaves[k].field.format)]
            fixed == [k \in DOMAIN leaves |-> IF Varies(t, leaves[k].name) THEN 0 ELSE bits[k]]
        IN  /\ SE!IsInjective([k \in DOMAIN leaves |-> leaves[k].name])
            /\ Len(leaves) = P!NumFields(t)
            /\ \A k \in DOMAIN leaves :
                  BeginsAt(t, leaves[k].name) = P!Total(SubSeq(bits, 1, k - 1))
            /\ P!Size(t) = P!Total(bits)
            /\ P!MinSize(t) = P!Total(fixed)

\* Memory: up to three items of these types, at addresses or in a row.
MCItem(name) ==
    [name : {name}, type : {RecordOf(<<Simple("x", bits, 0)>>) : bits \in {8, 32, 40}},
     address : {0, 2, 4, 8}]
MapInputs ==
    [kind : {"map"}, items : {<<x, y, z>> : x \in MCItem("x"), y \in MCItem("y"), z \in MCItem("z")},
     start : {3}, length : {6, 11}]

Apart(this, next) ==
    this.first + this.bytes <= next.first \/ next.first + next.bytes <= this.first

\* The registers of a map that loads share no byte, whichever two they are,
\* although only neighbours are compared; nor do the items of a memory map,
\* which lie within the memory (register_map.py, memory_map.py).
ItemsApart(items, start, length) ==
    LET map == [items |-> items, start |-> start, length |-> length]
        register == [i \in DOMAIN items |-> [first |-> items[i].address, bytes |-> P!Bytes(items[i])]]
        item == [i \in DOMAIN items |-> [first |-> P!AddressIn(map, i), bytes |-> P!Bytes(items[i])]]
    IN  /\ P!RegisterMapLoads(items) =>
              \A i, j \in DOMAIN items : i # j => Apart(register[i], register[j])
        /\ P!MemoryMapLoads(map) =>
              /\ \A i, j \in DOMAIN items : i # j => Apart(item[i], item[j])
              /\ \A i \in DOMAIN items :
                    item[i].first >= start /\ item[i].first + item[i].bytes <= start + length

-----------------------------------------------------------------------------
(* Tables: an assembly of two sources, a packetizer, parameters and a       *)
(* router that leads to the sources.                                        *)

S == INSTANCE Suites

Par(name, type, bytes) == [name |-> name, type |-> type, bytes |-> bytes]
TableComponent(type, products, parameters, connections) ==
    [type |-> type, products |-> products, parameters |-> parameters, connections |-> connections]

MCAssembly1(leads) ==
    "s1" :> TableComponent("Source", "p" :> <<8, 16>> @@ "q" :> <<32>>, <<Par("x", "U8", 1), Par("y", "U8", 1)>>, <<>>)
    @@ "s2" :> TableComponent("Source", "p" :> <<8>>, <<Par("x", "U8", 1)>>, <<>>)
    @@ "pp" :> TableComponent("Product_Packetizer", <<>>, <<>>, <<>>)
    @@ "pa" :> TableComponent("Parameters", <<>>, <<>>, <<"s1", "s2">>)
    @@ "ro" :> TableComponent("Ccsds_Parameter_Table_Router", <<>>, <<>>, leads)

Product(label, withTime) ==
    [pad |-> 0, label |-> label, withTime |-> withTime, useTime |-> FALSE, eventOnMissing |-> FALSE,
     onChange |-> TRUE, period |-> FALSE]
Pad(bytes, label) == [Product(label, FALSE) EXCEPT !.pad = bytes]

MCEntries ==
    {Product(<<c, "p">>, w) : c \in {"s1", "s2"}, w \in BOOLEAN}
    \cup {[Product(<<"pp", "pkt">>, FALSE) EXCEPT !.period = TRUE], Product(<<"s2", "gone">>, FALSE),
          Pad(2, None), Pad(1, <<"pad">>)}

PacketInputs ==
    [kind : {"packet"},
     packet : [name : {"pkt"}, id : {7}, tickTime : {FALSE}, entries : SE!SeqOf(MCEntries, 3) \ {<<>>}]]

Time == <<32, 16>>
Room == 160

\* The items that a product packet is described by fill it: as many bits as
\* the packet is said to have, each item where the one before it ends, and no
\* two of one name; so do the items of the suite of the packets component
\* (product_packets.py create_item_list, packets.py items_list).
ItemsFill(p) ==
    LET whole == MCAssembly1(<<>>)
        items == Rows!Items(whole, <<p>>, p, Time)
        starts == Rows!StartBits(items)
        flat == [i \in DOMAIN items |-> [name |-> items[i].name, size |-> items[i].bits]]
        same == S!PacketItems(flat, 0)
    IN  Rows!PacketsTaken(<<p>>) /\ Rows!PacketResolves(whole, <<p>>, p, Time, Room) =>
            /\ \A i \in DOMAIN items :
                  (IF i = Len(items) THEN Rows!PacketSize(whole, <<p>>, p, Time) ELSE starts[i + 1])
                      = starts[i] + items[i].bits
            /\ \A i \in DOMAIN items : S!ItemNamed(same, items[i].name).first = starts[i]

\* Suites of packets of up to three, and a base to number them from.
MCType(variable, little) ==
    [name |-> "T.T", package |-> "T", packed |-> TRUE, modelled |-> TRUE, variable |-> variable,
     little |-> little, volatile |-> FALSE]
MCEntities ==
    [name : {"a", "b"}, id : {None, 0, 3, 5, 65536},
     type : {None, MCType(TRUE, FALSE), MCType(FALSE, TRUE)}, defaults : {{}}]
SuiteInputs ==
    [kind : {"suite"}, entities : SE!SeqOf(MCEntities, 2), base : {1, 65534, 65535}]

\* A suite of packets that loads is one of distinct ids in their order, or
\* has none and can be numbered; what is numbered would load again, and in
\* the order it had (ided_suite.py _set_ids, packets.py load).
NumberingKeepsSuites(entities, base) ==
    LET Ordered(es) == \A i, j \in DOMAIN es : i < j => es[i].id < es[j].id
        numbered == S!NumberedFrom(entities, base)
    IN  S!PacketsTaken(entities) =>
            /\ S!WithIds(entities) # {} => Ordered(S!ById(entities)) /\ ~S!NumberingTaken(entities, base)
            /\ S!NumberingTaken(entities, base) =>
                  S!PacketsTaken(numbered) /\ S!ById(numbered) = numbered

\* Parameter tables of up to two entries.
MCTableEntries ==
    {[kind |-> "component", component |-> c] : c \in {"s1", "s2"}}
    \cup {[kind |-> "parameter", parameter |-> <<c, "x">>] : c \in {"s1", "s2"}}
    \cup {[kind |-> "group", parameters |-> <<<<"s1", "x">>, <<c, n>>>>] : c \in {"s1", "s2"}, n \in {"x", "y"}}

MCTable == [instance : {"pa"}, rank : {1, 2}, entries : SE!SeqOf(MCTableEntries, 2) \ {<<>>}]
TableInputs ==
    [kind : {"tables"}, assembly : {MCAssembly1(<<>>)}, tables : [{"t", "u"} -> MCTable],
     order : {<<"t", "u">>}, header : {2}, room : {20}]

\* A router with three connectors and up to two entries.
MCLeads == {<<>>, <<<<"s1", "in">>, None, <<"s2", "in">>>>, <<<<"s1", "in">>, <<"s1", "other">>, <<"s2", "in">>>>,
            <<<<"s1", "in">>, <<"s1", "in">>, None>>}
MCDestinations == [component : {"s1", "s2"}, connector : {None, "in", "other"}, loadFrom : BOOLEAN]
MCRoutes ==
    [key : {ByName, 1}, destinations : SE!SeqOf({d \in MCDestinations : d.loadFrom => d.connector = "in"}, 1)
        \cup {<<d, e>> : d, e \in {x \in MCDestinations : x.connector # "other"}}]
MCRouterTables ==
    {<<r>> : r \in MCRoutes}
    \cup {<<r, [key |-> k, destinations |-> <<[component |-> "s2", connector |-> None, loadFrom |-> FALSE]>>]>> :
            r \in MCRoutes, k \in {ByName, 1, 2}}
RouterInputs ==
    [kind : {"router"}, assembly : {MCAssembly1(leads) : leads \in MCLeads},
     router : [instance : {"ro"}, type : {"Ccsds_Parameter_Table_Router"}, table : MCRouterTables],
     ids : {ByName :> 1}]

\* A watchdog with up to three petters, called at up to three indexes.
MCPetters ==
    {[name |-> n, action |-> "error_fault", fault |-> 1] : n \in {"p", "q", "r"}}
    \cup {[name |-> "p", action |-> "error_fault", fault |-> None]}
WatchdogInputs ==
    [kind : {"watchdog"},
     petters : {ps \in SE!SeqOf(MCPetters, 3) : \A i, j \in DOMAIN ps : i < j => ps[i].name # ps[j].name},
     callers : SE!SeqOf({<<>>, <<"p">>, <<"q">>, <<"r">>, <<"p", "q">>}, 3)]

-----------------------------------------------------------------------------
(* Command sequences: up to three that call each other, and one built in.   *)

MCLower(n) == n

CallTo(n) == [command |-> <<"cs", n>>, sleep |-> "none", ms |-> 0, arg |-> "none"]
Sleeping == [command |-> None, sleep |-> "static", ms |-> 5, arg |-> "none"]

MCSteps == {CallTo(n) : n \in {"a", "b", "c", "stop"}} \cup {Sleeping}
MCSequence(n, steps) ==
    [name : {n}, steps : steps, waits : BOOLEAN, onFailure : {None}, timeout : {None},
     response : {None, "completion"}, argType : {None}]

MCSequences ==
    {<<a, b, c>> : a \in MCSequence("a", SE!TupleOf(MCSteps, 2)),
                   b \in MCSequence("b", {<<s>> : s \in MCSteps}),
                   c \in MCSequence("c", {<<CallTo("a")>>, <<Sleeping, CallTo("b")>>})}

MCSuite(sequences) ==
    [name |-> "suite", sequences |-> sequences, timeout |-> None,
     waitingFrames |-> IF \E i \in 1 .. 3 : sequences[i].waits THEN 1 ELSE 0,
     otherFrames |-> IF \E i \in 1 .. 3 : ~sequences[i].waits THEN 1 ELSE 0]

MCSequencer == [type |-> Calling!SequencerType, config |-> "suite", commands |-> "stop" :> None]

\* The suites that load, with the sequencer that has their commands.
SequencesLoad(suite) ==
    Calling!SuiteTaken(suite, Calling!MaxFrames(100, 11)) /\ Calling!NamesFree(MCSequencer, suite)

MCWithSuite(suite) == "cs" :> [MCSequencer EXCEPT !.commands = Calling!Injected(MCSequencer, suite)]

SequenceInputs ==
    {[kind |-> "sequences", assembly |-> MCWithSuite(suite), suite |-> suite] :
        suite \in {s \in {MCSuite(sequences) : sequences \in MCSequences} : SequencesLoad(s)}}

-----------------------------------------------------------------------------
(* The types of an assembly: each of four may be made of those before it.   *)

MCMadeOf ==
    [{1, 2, 3, 4} -> SE!SeqOf({1, 2, 3}, 2)]
ListInputs ==
    [kind : {"types"},
     madeOf : {m \in MCMadeOf : \A t \in 1 .. 4 : \A i \in DOMAIN m[t] : m[t][i] < t},
     types : SE!SeqOf({2, 3, 4}, 2)]

-----------------------------------------------------------------------------
(* Enumerations of up to three literals.                                    *)

EnumInputs ==
    [kind : {"enum"},
     literals : UNION {[1 .. n -> [name : {"a", "b", "c"}, value : {None} \cup 0 .. 2]] : n \in 1 .. 3}]

-----------------------------------------------------------------------------
(* Build paths: directories 1 and 2 below the root of Adamant, 3 and 4 below *)
(* the project's, which has 2 inside it; 5 is elsewhere.                     *)

MCWalk(root) == CASE root = "ada" -> <<1, 2>> [] root = "proj" -> <<3, 2, 4>> [] OTHER -> <<>>
MCMarks(d) == IF d = 4 THEN {"linux"} ELSE {"all"}
MCRootOf(d) == "proj"
MCVisible(d) == {<<d, "visible">>}
MCHidden(d) == {<<d, "hidden">>}

PathInputs ==
    [kind : {"path"},
     env : [buildPath : {None, <<>>, <<5, 1>>}, buildRoots : {None, <<"proj", "ada">>},
            extraPath : {None, <<5, 2>>}, extraRoots : {None, <<"proj">>},
            remove : {None, <<2>>, <<5>>}, config : {None, 5, 1}, target : {"linux", "bare"}],
     runDir : {4}, goal : {None, "linux"}, pathFiles : {{}, {"linux"}}]

-----------------------------------------------------------------------------
(* Projects of four Ada units, of which three may have a body, and one of C *)
(* that an Ada unit may bind.  The file of w is named as labeled_queue.adb  *)
(* is to the queue.adb of v.                                                *)

MCEndsWith(unit, another) == unit = another \/ <<unit, another>> = <<"w", "v">>

MCWiths ==
    [main : {{"v"}, {"v", "w"}}, vSpec : SUBSET {"w"}, vBody : SUBSET {"w", "x"}, wSpec : SUBSET {"x"},
     wBody : {{}, {"v"}, {"v", "x"}}, xBody : {{}, {"w"}, {"v", "w"}}]

MCProject(bodies, open, w, safe, bound) ==
    LET ada == {<<"m", "adb">>, <<"v", "ads">>, <<"w", "ads">>, <<"x", "ads">>} \cup {<<u, "adb">> : u \in bodies}
        all == ada \cup {<<"k", "h">>, <<"k", "c">>}
        Withs(f) == CASE f = <<"m", "adb">> -> w.main [] f = <<"v", "ads">> -> w.vSpec
                      [] f = <<"v", "adb">> -> w.vBody [] f = <<"w", "ads">> -> w.wSpec
                      [] f = <<"w", "adb">> -> w.wBody [] f = <<"x", "adb">> -> w.xBody
                      [] f = <<"k", "c">> -> {"k"} [] OTHER -> {}
        units == {"m", "v", "w", "x", "k"}
    IN  [kind |-> "project", units |-> units, sources |-> all, withs |-> [f \in all |-> Withs(f)],
         open |-> open, safe |-> safe, binds |-> [u \in units |-> IF u = bound THEN "k" ELSE "none"],
         main |-> "m", batches |-> {{"m", "v"}, {"v", "w"}, {"v", "w", "x"}}]

ProjectInputs ==
    {MCProject(bodies, open, w, safe, bound) :
        bodies \in SUBSET {"v", "w", "x"}, open \in {{}, {"v"}, {"v", "w"}}, w \in MCWiths,
        safe \in BOOLEAN, bound \in {"w", "none"}}

-----------------------------------------------------------------------------
(* Suites whose types are generated: the components of an assembly, each    *)
(* with its suites, and a model that may be missing.                        *)

DerivedTypes == {"Queue_Monitor", "Stack_Monitor", "Cpu_Monitor", "Product_Packetizer", "Command_Sequencer", "Sequence_Store", "Simple_Command_Sequencer",
                 "Parameters", "Parameter_Store", "Parameter_Manager", "Fault_Correction",
                 "Task_Watchdog", "Ccsds_Downsampler", "Ccsds_Product_Extractor"}
MCMembers == {[instance |-> t, type |-> t, table |-> IF t = "Parameters" THEN "table" ELSE None] : t \in DerivedTypes}
Member(t) == CHOOSE m \in MCMembers : m.type = t

MCFiles ==
    ({"asm"} \X {"queue_monitor_packet", "stack_monitor_packet", "cpu_monitor_packet", "sequencer_summary", "sequencer_details"})
    \cup ({"store", "table", "seqs"} \X {"record", "summary_record"})
    \cup ({"faults"} \X {"status_record", "enums", "packed_id"})
    \cup ({"dogs"} \X {"limit_cmd", "action_cmd", "state_record"})

MCLists == "dogs" :> <<[name |-> "p1", fault |-> 3], [name |-> "p2", fault |-> None]>>
           @@ "filters" :> <<[name |-> "f1"]>> @@ "extracts" :> <<[name |-> "e1", type |-> "E.T_Le"]>>

Untyped(names, known) == S!Suite([n \in names |-> [type |-> None, id |-> None]], known)

MCConnections ==
    LET Wired(from, output, to, input) ==
            [from |-> Member(from), output |-> output, to |-> Member(to), input |-> input]
    IN  <<Wired("Parameter_Manager", "out", "Parameter_Store", "Parameters_Memory_Region_T_Recv_Async"),
          Wired("Parameter_Manager", "out", "Parameters", "in")>>
MCRouted == <<[destinations |-> {"Parameter_Store"}, named |-> TRUE, table |-> "table"]>>

\* Two models of product packets, one of them with a specific name.
MCPaths == <<[specific |-> None, model |-> "pkts"], [specific |-> "own", model |-> "own pkts"]>>
MCPacketsOf == [model \in {"pkts", "own pkts"} |-> "Packet" :> [type |-> None, id |-> 1]]

\* The suites of a component after set_assembly.
FilledIn(m, connections, present) ==
    CASE m.type = "Queue_Monitor" ->
            {S!QueueMonitorPackets(Untyped({"Queue_Usage_Packet"}, {}), "asm", present)}
      [] m.type = "Stack_Monitor" ->
            {S!StackMonitorPackets(Untyped({"Stack_Usage_Packet"}, {}), "asm", present)}
      [] m.type = "Cpu_Monitor" ->
            {S!CpuMonitorPackets(Untyped({"Cpu_Usage_Packet"}, {}), "asm", present)}
      [] m.type = "Product_Packetizer" ->
            {S!PacketizerPackets(Untyped({"Dummy"}, {}), MCPaths, "own", MCPacketsOf)}
      [] m.type = "Command_Sequencer" ->
            {S!CommandSequencerPackets(Untyped({"Summary_Packet", "Details_Packet"}, {}), "asm", present)}
      [] m.type = "Sequence_Store" ->
            {S!SequenceStorePackets(Untyped({"Slot_Summaries"}, {}), [package |-> "store", dotted |-> TRUE], present)}
      [] m.type = "Simple_Command_Sequencer" ->
            {S!SimpleSequencerPackets(Untyped({"Summary_Packet"}, {}), [package |-> "seqs"], present)}
      [] m.type \in {"Parameters", "Parameter_Store"} ->
            {S!ParametersPackets(Untyped({"Active_Parameters", "Other"}, {}), m, {"Active_Parameters"},
                                 connections, MCRouted, present)}
      [] m.type = "Fault_Correction" ->
            {S!FaultCorrectionProducts(Untyped({"Fault_Response_Statuses", "Last_Fault_Id_Received"}, {}), "faults", present),
             S!FaultCorrectionCommands(Untyped(S!FaultCommands, {}), "faults", present)}
      [] m.type = "Task_Watchdog" ->
            {S!WatchdogCommands(Untyped({"Set_Watchdog_Limit", "Set_Watchdog_Action"}, {}), "dogs", MCLists, present),
             S!WatchdogProducts(Untyped({"Pet_Connector_Action_States"}, {}), "dogs", MCLists, present),
             S!WatchdogFaults(Untyped({"Dummy_Fault"}, {"Packed_Connector_Index.T"}), "dogs", MCLists)}
      [] m.type = "Ccsds_Downsampler" ->
            {S!DownsamplerProducts(Untyped({"Total"}, {"Packed_U16.T"}), "filters", MCLists)}
      [] m.type = "Ccsds_Product_Extractor" ->
            {S!ExtractorProducts(Untyped({"Dummy"}, {}), "extracts", MCLists)}
      [] OTHER -> {}

DerivedInputs ==
    [kind : {"derived"},
     members : UNION {FSE!kSubset(n, MCMembers \ {Member("Parameter_Manager")}) : n \in {1, 2, 13}},
     managed : BOOLEAN, missing : MCFiles \cup {None}]

\* A component is told of the assembly once all types of its suites are
\* known to it, and no model that is generated on the way is on the way to
\* itself, whatever the assembly is made of: "this causes a circular
\* dependency loop if shallow_load is not set to True in the generator"
\* (queue_monitor_packets.py, set_assembly, and those like it).
TypesAreGenerated(those, managed, missing) ==
    LET connections == IF managed THEN MCConnections ELSE <<>>
        has == [m \in those |-> FilledIn(m, connections, MCFiles \ {missing})]
        asked == [m \in those |-> UNION {s.asked : s \in has[m]}]
    IN  /\ \A m \in those : \A s \in has[m] : S!TypesAreKnown(s)
        /\ S!NoCircle(those, asked)

-----------------------------------------------------------------------------
(* The machine that runs starts from any of its initial states, the others  *)
(* stay as they are.                                                        *)

AssemblyStarts(machine) ==
    /\ IF machine = "wiring" THEN WiringInit ELSE NoWiring
    /\ IF machine = "ids" THEN IdsInit ELSE NoIds

assemblyVars == <<wiring, idVars>>

AssemblyRuns(machine) ==
    \/ machine = "wiring" /\ WiringNext /\ UNCHANGED idVars
    \/ machine = "ids" /\ IdsNext /\ UNCHANGED wiring

FillStarts == (\E trees \in MCTrees : tree = trees) /\ TreeTyped /\ TargetsStart
FillIdle == tree = <<>> /\ TargetsStart

SessionIdle ==
    /\ jobs = 1 /\ at = [t \in Targets |-> "Gone"] /\ directory = FALSE
    /\ running = {} /\ databases = "None" /\ seen = [t \in Targets |-> 0]

BuildStarts(machine) ==
    /\ IF machine = "fill" THEN FillStarts ELSE FillIdle
    /\ IF machine = "session" THEN SessionInit ELSE SessionIdle
    /\ CacheInit /\ WhatInit /\ RangesInit /\ Models!LoadingInit

modelsVars == <<stored, taken>>
buildVars == <<cacheVars, sessionVars, whatVars, targetsVars, rangesVars, modelsVars>>

CacheRuns == CacheNext /\ UNCHANGED <<sessionVars, whatVars, targetsVars, rangesVars, modelsVars>>
SessionRuns == SessionNext /\ UNCHANGED <<cacheVars, whatVars, targetsVars, rangesVars, modelsVars>>
WhatRuns == WhatNext /\ UNCHANGED <<cacheVars, sessionVars, targetsVars, rangesVars, modelsVars>>
FillRuns == TargetsNext /\ UNCHANGED <<cacheVars, sessionVars, whatVars, rangesVars, modelsVars>>
RangesRun == RangesNext /\ UNCHANGED <<cacheVars, sessionVars, whatVars, targetsVars, modelsVars>>
ModelsRun == Models!LoadingNext /\ UNCHANGED <<cacheVars, sessionVars, whatVars, targetsVars, rangesVars>>

BuildRuns(machine) ==
    \/ machine = "cache" /\ CacheRuns
    \/ machine = "session" /\ SessionRuns
    \/ machine = "what" /\ WhatRuns
    \/ machine = "fill" /\ FillRuns
    \/ machine = "ranges" /\ RangesRun
    \/ machine = "models" /\ ModelsRun

Try(inputs) == given.kind = "nothing" /\ given' \in inputs /\ UNCHANGED supplied

TryToBuild(inputs) ==
    /\ given.kind = "nothing" /\ given' = [kind |-> "build"]
    /\ supplied' \in inputs

FunctionsRun ==
    \/ Try(InstanceInputs) \/ Try(ViewInputs) \/ Try(LayoutInputs) \/ Try(PacketInputs)
    \/ Try(SequenceInputs) \/ Try(ListInputs) \/ Try(MapInputs) \/ Try(SuiteInputs)
    \/ Try(EnumInputs) \/ Try(DerivedInputs)
    \/ TryToBuild(TableInputs) \/ TryToBuild(RouterInputs) \/ TryToBuild(WatchdogInputs)
    \/ TryToBuild(PathInputs) \/ TryToBuild(ProjectInputs)

Machines == {"wiring", "ids", "cache", "session", "what", "fill", "ranges", "models", "nothing"}

Init ==
    /\ given \in [kind : Machines] /\ supplied = [kind |-> "nothing"]
    /\ AssemblyStarts(given.kind) /\ BuildStarts(given.kind)

Next ==
    \/ AssemblyRuns(given.kind) /\ UNCHANGED <<buildVars, given, supplied>>
    \/ BuildRuns(given.kind) /\ UNCHANGED <<assemblyVars, given, supplied>>
    \/ FunctionsRun /\ UNCHANGED <<assemblyVars, buildVars>>

vars == <<assemblyVars, buildVars, given, supplied>>

\* The targets and the scripts that redo has started run.
Spec == Init /\ [][Next]_vars /\ SessionFairness

-----------------------------------------------------------------------------
(* What is true of every input; the rest is said in GeneratorFunctions and  *)
(* BuildFunctions.                                                          *)

\* An instance of a component that loads has a primary task when it is
\* active, every subtask that is on, room in its queue, and ranks that follow
\* the priorities of its tasks (component.py, tasks.py, assembly.py).
InstancesRun == given.kind = "instance" => InstanceRuns(given.component, given.data)

\* However the operations of a view's rule are ordered, grouped and
\* distributed, the view shows the same (view.py, _apply_rule).
ViewsKeepTheirMeaning == given.kind = "view" => RulesKeepTheirMeaning(given.filters, given.show)

\* The leaves that a packed type is flattened to fill it without gap or
\* overlap, each at the bit where its own record puts it; the items of a map of
\* memory or of registers share no byte (record.py, array.py, memory_map.py).
TypesAreFilled ==
    /\ given.kind = "layout" => LeavesFill(given.type)
    /\ given.kind = "map" => ItemsApart(given.items, given.start, given.length)

\* The items of a product packet fill it, and the packet suite puts each at
\* the same bit as the packet's own description does; packets that are numbered
\* could be loaded with these ids (product_packets.py, packets.py, ided_suite.py).
PacketsAreFilled ==
    /\ given.kind = "packet" => ItemsFill(given.packet)
    /\ given.kind = "suite" => NumberingKeepsSuites(given.entities, given.base)

\* Types that are generated from the assembly are known before the suite that
\* uses them is told of it, and none is generated from itself (the
\* set_assembly of queue_monitor_packets.py and those like it).
DerivedTypesAreKnown ==
    given.kind = "derived" => TypesAreGenerated(given.members, given.managed, given.missing)

===============================================================================
