------------------------------- MODULE Views -------------------------------
(***************************************************************************)
(* What a view keeps of an assembly (src/gen/models/view.py): its filters, *)
(* the rule that combines them, and the cleaning up after each.  A part of *)
(* an assembly is a record of the components, the connections and the data *)
(* dependencies that are in it; what is known of each is in the constants. *)
(***************************************************************************)
EXTENDS Naturals, Sequences, SequencesExt, FiniteSetsExt, Functions

CONSTANTS
    ComponentOf,    \* of a component: [type, execution]
    ConnectionOf,   \* of a connection: [from, to, fromName, toName, fromArray, toArray,
                    \* type, types, kinds]
    DependencyOf    \* of a data dependency: [owner, product, name, productName, type]

Assembly == [components |-> DOMAIN ComponentOf,
             connections |-> DOMAIN ConnectionOf,
             dependencies |-> DOMAIN DependencyOf]

Ends(connection) == {ConnectionOf[connection].from, ConnectionOf[connection].to}
Parties(dependency) == {DependencyOf[dependency].owner, DependencyOf[dependency].product}

-----------------------------------------------------------------------------
(* The filters.  A filter has a type, a list of items, and whether these    *)
(* are to be included or excluded.                                          *)

\* The lists that Filter.__init__ takes; the kind of a component has no
\* function in filter_type_dict.
ItemsTaken(f) ==
    /\ f.items # {}
    /\ f.type = "component_execution" => f.items \subseteq {"active", "passive"}
    /\ f.type = "connector_kind" =>
        f.items \subseteq {"send", "recv_async", "recv_sync", "request", "service", "get", "return"}

Types == {"component_name", "component_type", "component_execution", "component_name_context",
          "component_type_context", "connector_name", "connector_type", "connector_kind",
          "data_dependency_type", "data_dependency_name"}

\* Filter names are unique, and each gives one list and not the other.
FiltersTaken(filters) ==
    \A n \in DOMAIN filters :
        /\ filters[n].type \in Types \cup {"component_kind"}
        /\ filters[n].list \in {"include", "exclude"}
        /\ ItemsTaken(filters[n])

\* The names that there are for the items of a filter.
ComponentNames == DOMAIN ComponentOf
ComponentTypes == {ComponentOf[c].type : c \in DOMAIN ComponentOf}

\* A connector of an array is known by its own name and by that of the array.
ConnectorNames ==
    UNION {{ConnectionOf[x].fromName, ConnectionOf[x].toName,
            ConnectionOf[x].fromArray, ConnectionOf[x].toArray} : x \in DOMAIN ConnectionOf}

\* The type that is returned is known for a connector without another type.
ConnectorTypes == {ConnectionOf[x].type : x \in DOMAIN ConnectionOf}
DependencyTypes == {DependencyOf[d].type : d \in DOMAIN DependencyOf}
DependencyNames ==
    UNION {{DependencyOf[d].name, DependencyOf[d].productName} : d \in DOMAIN DependencyOf}

\* The items of a filter that are warned of, and then ask for nothing.
Unknown(f) ==
    CASE f.type \in {"component_name", "component_name_context"} -> f.items \ ComponentNames
      [] f.type \in {"component_type", "component_type_context"} -> f.items \ ComponentTypes
      [] f.type = "connector_name" -> f.items \ ConnectorNames
      [] f.type = "connector_type" -> f.items \ ConnectorTypes
      [] f.type = "data_dependency_type" -> f.items \ DependencyTypes
      [] f.type = "data_dependency_name" -> f.items \ DependencyNames
      [] OTHER -> {}

\* Of what is asked for, that which is listed, or that which is not.
Kept(f, listed) == IF f.list = "include" THEN listed ELSE ~listed

\* What the items of a filter list.
OfType(types) == {c \in DOMAIN ComponentOf : ComponentOf[c].type \in types}
OfExecution(kinds) == {c \in DOMAIN ComponentOf : ComponentOf[c].execution \in kinds}

Components(f, part, listed) ==
    [part EXCEPT !.components = {c \in @ : Kept(f, c \in listed)}]

ComponentName(f, part) == Components(f, part, f.items)
ComponentType(f, part) == Components(f, part, OfType(f.items))
ComponentExecution(f, part) == Components(f, part, OfExecution(f.items))

\* The components one data dependency away, when these are shown.
Neighbours(part, components, show) ==
    components
    \cup IF show THEN UNION {Parties(d) : d \in {e \in part.dependencies :
                                                    Parties(e) \cap components # {}}}
                 ELSE {}

\* The connections of the components that are listed, with both their ends.
Context(f, part, show, listed) ==
    LET connections == {x \in part.connections : Kept(f, Ends(x) \cap listed # {})}
        components == Neighbours(part, UNION {Ends(x) : x \in connections}, show)
    IN  [part EXCEPT !.connections = connections, !.components = @ \cap components]

ComponentNameContext(f, part, show) == Context(f, part, show, f.items)
ComponentTypeContext(f, part, show) == Context(f, part, show, OfType(f.items))

Connections(f, part, listed) ==
    [part EXCEPT !.connections = {x \in @ : Kept(f, x \in listed)}]

\* The name of one connector of an array has its index; what is excluded is
\* the whole array.
ConnectorName(f, part) ==
    LET named == IF f.list = "include" THEN {"fromName", "toName"} ELSE {"fromArray", "toArray"}
    IN  Connections(f, part, {x \in part.connections :
                                 \E n \in named : ConnectionOf[x][n] \in f.items})
ConnectorType(f, part) ==
    Connections(f, part, {x \in part.connections : ConnectionOf[x].types \cap f.items # {}})
ConnectorKind(f, part) ==
    Connections(f, part, {x \in part.connections : ConnectionOf[x].kinds \cap f.items # {}})

DependenciesKept(f, part, listed) ==
    [part EXCEPT !.dependencies = {d \in @ : Kept(f, d \in listed)}]

DependencyType(f, part) ==
    DependenciesKept(f, part, {d \in part.dependencies : DependencyOf[d].type \in f.items})
DependencyName(f, part) ==
    DependenciesKept(f, part, {d \in part.dependencies :
        {DependencyOf[d].name, DependencyOf[d].productName} \cap f.items # {}})

\* filter_type_dict
Filtered(f, part, show) ==
    CASE f.type = "component_name" -> ComponentName(f, part)
      [] f.type = "component_type" -> ComponentType(f, part)
      [] f.type = "component_execution" -> ComponentExecution(f, part)
      [] f.type = "component_name_context" -> ComponentNameContext(f, part, show)
      [] f.type = "component_type_context" -> ComponentTypeContext(f, part, show)
      [] f.type = "connector_name" -> ConnectorName(f, part)
      [] f.type = "connector_type" -> ConnectorType(f, part)
      [] f.type = "connector_kind" -> ConnectorKind(f, part)
      [] f.type = "data_dependency_type" -> DependencyType(f, part)
      [] f.type = "data_dependency_name" -> DependencyName(f, part)

-----------------------------------------------------------------------------
(* How parts are combined.                                                  *)

\* Faulty: the components are cleaned up before the connections that go.
PruneComponentsFirst(part, show) ==
    LET used == (UNION {Ends(x) : x \in part.connections})
                \cup IF show THEN UNION {Parties(d) : d \in part.dependencies} ELSE {}
        components == part.components \cap used
    IN  [components |-> components,
         connections |-> {x \in part.connections : Ends(x) \subseteq components},
         dependencies |-> {d \in part.dependencies : Parties(d) \subseteq components}]

\* The connections and dependencies that lack a component go, then the
\* components that have none of these left.
Prune(part, show) ==
    LET connections == {x \in part.connections : Ends(x) \subseteq part.components}
        dependencies == {d \in part.dependencies : Parties(d) \subseteq part.components}
        used == (UNION {Ends(x) : x \in connections})
                \cup IF show THEN UNION {Parties(d) : d \in dependencies} ELSE {}
    IN  [components |-> part.components \cap used,
         connections |-> connections,
         dependencies |-> dependencies]

\* The components, the connections and the dependencies alike.
AssemblyNot(p, show) == [k \in DOMAIN p |-> Assembly[k] \ Prune(p, show)[k]]

AssemblyIntersection(p, q, show) ==
    [k \in DOMAIN p |-> Prune(p, show)[k] \cap Prune(q, show)[k]]

AssemblyUnion(p, q, show) ==
    [k \in DOMAIN p |-> Prune(p, show)[k] \cup Prune(q, show)[k]]

AssemblyGroup(p, show) == Prune(p, show)

-----------------------------------------------------------------------------
(* A rule is parsed into a tree: a filter by its name, a "~" or "@" of a    *)
(* tree, or a list of trees between which "&" or "|" stands, which binds    *)
(* less and is taken from the left.                                         *)

Named(n) == [op |-> "filter", of |-> n]
Not(rule) == [op |-> "~", of |-> rule]
Group(rule) == [op |-> "@", of |-> rule]
And(rules) == [op |-> "&", of |-> rules]
Or(rules) == [op |-> "|", of |-> rules]

RECURSIVE NamesIn(_)
NamesIn(rule) ==
    CASE rule.op = "filter" -> {rule.of}
      [] rule.op \in {"~", "@"} -> NamesIn(rule.of)
      [] rule.op \in {"&", "|"} -> UNION {NamesIn(rule.of[i]) : i \in DOMAIN rule.of}

\* Every filter of the rule is defined and has its function.
RuleTaken(rule, filters) ==
    \A n \in NamesIn(rule) : n \in DOMAIN filters /\ filters[n].type \in Types

\* Every operand is given a copy of the whole assembly.
RECURSIVE Value(_, _, _)
Value(rule, filters, show) ==
    CASE rule.op = "filter" -> Filtered(filters[rule.of], Assembly, show)
      [] rule.op = "~" -> AssemblyNot(Value(rule.of, filters, show), show)
      [] rule.op = "@" -> AssemblyGroup(Value(rule.of, filters, show), show)
      [] rule.op = "&" ->
            FoldLeft(LAMBDA p, r : AssemblyIntersection(p, Value(r, filters, show), show),
                     Value(rule.of[1], filters, show), Tail(rule.of))
      [] rule.op = "|" ->
            FoldLeft(LAMBDA p, r : AssemblyUnion(p, Value(r, filters, show), show),
                     Value(rule.of[1], filters, show), Tail(rule.of))

\* Without a rule all filters must hold; without a filter either, nothing is
\* asked for and nothing is cleaned up.
NoRule == [op |-> "none", of |-> {}]
DefaultRule(filters) ==
    IF filters = <<>> THEN NoRule
    ELSE And([i \in DOMAIN filters |-> Named(i)])

\* view.load and view.apply: the assembly of the view is loaded from what is
\* left of the components and the connections.
Apply(view) ==
    LET rule == IF view.rule = NoRule THEN DefaultRule(view.filters) ELSE view.rule
    IN  IF rule = NoRule THEN Assembly ELSE Prune(Value(rule, view.filters, view.show), view.show)

ViewLoads(view) ==
    /\ FiltersTaken(view.filters)
    /\ view.rule # NoRule => RuleTaken(view.rule, view.filters)
    /\ view.rule = NoRule => \A n \in DOMAIN view.filters : view.filters[n].type \in Types

=============================================================================
