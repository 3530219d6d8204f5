------------------------------- MODULE Wiring -------------------------------
(***************************************************************************)
(* How the components of an assembly and of its subassemblies are gathered *)
(* when its model is loaded, and how the connectors that its connections   *)
(* name are attached to each other (src/gen/models/assembly.py,            *)
(* src/gen/models/submodels/connector.py).  A connector has a slot for     *)
(* every index up to its count; an end of a connection names one of them,  *)
(* or is to be ignored.                                                    *)
(***************************************************************************)
EXTENDS Naturals, Sequences, SequencesExt, FiniteSets

CONSTANTS
    Connectors,     \* <<component, name>> |-> [kind, type, returns, count]
    Assemblies,     \* the assembly files that are loaded
    Ignore          \* the end of a connection that is ignored

Ports == DOMAIN Connectors

Invoker == {"send", "request", "provide", "get"}
Invokee == {"recv_sync", "recv_async", "service", "modify", "return"}

\* The kinds that a connector of a kind can be attached to.
Partners ==
    [recv_sync |-> {"send"},     recv_async |-> {"send"},
     modify    |-> {"provide"},  service    |-> {"request"},
     return    |-> {"get"},      send       |-> {"recv_sync", "recv_async"},
     provide   |-> {"modify"},   request    |-> {"service"},
     get       |-> {"return"}]

ASSUME ConnectorsAssumption ==
    \A p \in Ports : /\ Connectors[p].kind \in Invoker \cup Invokee
                     /\ Connectors[p].count \in Nat

VARIABLES
    assembly,   \* the file that is loaded
    doing,      \* the file whose turn it is, and the step that comes next
    members,    \* the components of every file, self.components
    attached,   \* what every slot has in _connected_to and _connections
    made,       \* of every connection: whether it is connected or ignored
    unattached  \* num_unconnected_connectors and num_ignored_connectors

wiring == <<assembly, doing, members, attached, made, unattached>>

-----------------------------------------------------------------------------
(* A file has a name, components, connections and, unless it is itself a    *)
(* subassembly here, subassemblies.  File 0 is the assembly.                *)

Files(a) == 0 .. Len(a.subassemblies)
File(a, f) == IF f = 0 THEN a ELSE a.subassemblies[f]

\* A connection is known by its file and its place there.
Links(a) == UNION {{f} \X DOMAIN File(a, f).connections : f \in Files(a)}
Link(a, l) == File(a, l[1]).connections[l[2]]

ASSUME AssembliesAssumption ==
    \A a \in Assemblies : /\ Len(a.subassemblies) \in Nat
                          /\ Links(a) \subseteq Nat \X Nat

Slots == UNION {{p} \X (1 .. Connectors[p].count) : p \in Ports}
Unattached == [ignored |-> FALSE, links |-> <<>>]

\* The index of an end, which is 1 when none is given.
Slot(end) == <<end.port, IF end.index = 0 THEN 1 ELSE end.index>>

FromSlot(a, l) == Slot(Link(a, l).from)
ToSlot(a, l) == Slot(Link(a, l).to)

At(f, step) == doing = <<f, step>>
Failed == <<0, "failed">>
Fail == doing' = Failed

\* An assembly takes in its own components, then loads every subassembly
\* whole, and makes its connections when it has the components of all.
NextFile(f) ==
    IF f < Len(assembly.subassemblies) THEN <<f + 1, "components">> ELSE <<0, "subassemblies">>

WiringInit ==
    /\ assembly \in Assemblies
    /\ doing = <<0, "components">>
    /\ members = [f \in Files(assembly) |-> {}]
    /\ attached = [s \in Slots |-> Unattached]
    /\ made = [l \in Links(assembly) |-> "no"]
    /\ unattached = [connectors |-> 0, ignored |-> 0]

-----------------------------------------------------------------------------
(* subassembly.load and the first part of assembly.load.                    *)

\* load_component refuses a name it already has.
LoadComponents(f) ==
    LET names == File(assembly, f).components
    IN  /\ At(f, "components")
        /\ members' = [members EXCEPT ![f] = Range(names)]
        /\ IF IsInjective(names)
           THEN doing' = IF f = 0 THEN NextFile(f) ELSE <<f, "connections">>
           ELSE Fail
        /\ UNCHANGED <<assembly, attached, made, unattached>>

\* The components of the subassemblies join those of the assembly; neither
\* a subassembly nor a component may come twice.
Merge ==
    LET Distinct(x) == \A f, g \in Files(assembly) : f # g => x[f] \cap x[g] = {}
    IN  /\ At(0, "subassemblies")
        /\ members' = [members EXCEPT ![0] = UNION {members[f] : f \in Files(assembly)}]
        /\ IF /\ IsInjective([f \in 1 .. Len(assembly.subassemblies) |->
                                assembly.subassemblies[f].name])
              /\ Distinct(members)
           THEN doing' = <<0, "connections">>
           ELSE Fail
        /\ UNCHANGED <<assembly, attached, made, unattached>>

-----------------------------------------------------------------------------
(* connection.connect, called for the connections of a file in their order. *)

Ignored(end) == end.port = Ignore

\* An arrayed connector comes with an index.
HasIndex(end) == Connectors[end.port].count # 1 => end.index # 0

\* The component is one of those known and has the connector.
Resolves(f, end) ==
    \/ Ignored(end)
    \/ /\ end.port \in Ports
       /\ end.port[1] \in members[f]
       /\ HasIndex(end)

\* The checks of connector.connect_to before it attaches anything.
Compatible(p, q) ==
    LET from == Connectors[p]
        to == Connectors[q]
    IN  /\ from.kind \in Invoker /\ to.kind \in Invokee
        /\ from.count # 0 /\ to.count # 0
        /\ from.kind \in Partners[to.kind]
        /\ from.type = to.type /\ from.returns = to.returns

\* Faulty: the slot of the invoker is taken whatever it holds.
TakesOneTaken(s) == s \in Slots

\* What is neither connected nor ignored can be ignored.
Free(s) == s \in Slots /\ attached[s] = Unattached

\* An invoker calls one connector, an invokee is called by any number.
TakesOne(s) == Free(s)
TakesMore(s) == s \in Slots /\ ~attached[s].ignored

Attach(slots, s, l) == [slots EXCEPT ![s].links = Append(@, l)]

\* Only the invoker is attached when the slot of the invokee is not there
\* or is ignored.
ConnectTo(l, link) ==
    LET from == Slot(link.from)
        to == Slot(link.to)
    IN  /\ ~Ignored(link.from) /\ ~Ignored(link.to)
        /\ IF Compatible(link.from.port, link.to.port) /\ TakesOne(from)
           THEN IF TakesMore(to)
                THEN /\ attached' = Attach(Attach(attached, from, l), to, l)
                     /\ made' = [made EXCEPT ![l] = "connected"]
                     /\ UNCHANGED doing
                ELSE /\ attached' = Attach(attached, from, l)
                     /\ Fail
                     /\ UNCHANGED made
           ELSE Fail /\ UNCHANGED <<attached, made>>

\* One end is ignored: the slot at the other must hold nothing.
IgnoreOther(l, link) ==
    LET end == IF Ignored(link.from) THEN link.to ELSE link.from
    IN  /\ Ignored(link.from) # Ignored(link.to)
        /\ IF Free(Slot(end))
           THEN /\ attached' = [attached EXCEPT ![Slot(end)].ignored = TRUE]
                /\ made' = [made EXCEPT ![l] = "ignored"]
                /\ UNCHANGED doing
           ELSE Fail /\ UNCHANGED <<attached, made>>

\* The first connection that is not made yet.
NextLink(f) == CHOOSE l \in DOMAIN made :
                /\ l[1] = f /\ made[l] = "no"
                /\ \A k \in DOMAIN made : k[1] = f /\ made[k] = "no" => l[2] <= k[2]

AllMade(f) == \A l \in DOMAIN made : l[1] = f => made[l] # "no"

Connect(f) ==
    LET l == NextLink(f)
        link == Link(assembly, l)
    IN  /\ At(f, "connections") /\ ~AllMade(f)
        /\ IF /\ Resolves(f, link.from) /\ Resolves(f, link.to)
              /\ ~(Ignored(link.from) /\ Ignored(link.to))
           THEN ConnectTo(l, link) \/ IgnoreOther(l, link)
           ELSE Fail /\ UNCHANGED <<attached, made>>
        /\ UNCHANGED <<assembly, members, unattached>>

\* Those that are ignored leave self.connections, for which made stands.
ConnectionsMade(f) ==
    /\ At(f, "connections") /\ AllMade(f)
    /\ doing' = IF f = 0 THEN <<0, "count">> ELSE NextFile(f)
    /\ UNCHANGED <<assembly, members, attached, made, unattached>>

\* The slots that the components of the assembly have.
OwnSlots == {s \in Slots : s[1][1] \in members[0]}

\* Faulty: of a connector with an array the first slot alone is counted.
CountFirst ==
    /\ At(0, "count")
    /\ unattached' = [connectors |-> Cardinality({s \in OwnSlots : s[2] = 1 /\ attached[s] = Unattached}),
                      ignored |-> Cardinality({s \in OwnSlots : s[2] = 1 /\ attached[s].ignored})]
    /\ IF \A p \in Ports : p[1] \in members[0] => Connectors[p].count # 0
       THEN doing' = <<0, "done">>
       ELSE Fail
    /\ UNCHANGED <<assembly, members, attached, made>>

\* What is left unattached is counted.  A connector whose count was never
\* given has no slot to look at.
Count ==
    /\ At(0, "count")
    /\ unattached' = [connectors |-> Cardinality({s \in OwnSlots : attached[s] = Unattached}),
                      ignored |-> Cardinality({s \in OwnSlots : attached[s].ignored})]
    /\ IF \A p \in Ports : p[1] \in members[0] => Connectors[p].count # 0
       THEN doing' = <<0, "done">>
       ELSE Fail
    /\ UNCHANGED <<assembly, members, attached, made>>

WiringNext ==
    \/ Merge \/ Count
    \/ \E f \in Files(assembly) : LoadComponents(f) \/ Connect(f) \/ ConnectionsMade(f)

WiringSpec == WiringInit /\ [][WiringNext]_wiring

-----------------------------------------------------------------------------
(* What is right.                                                           *)

Loaded == At(0, "done")
Refused == doing = Failed

\* The two ends of a connection agree: a connection that is made is the one
\* that its invoker calls and one of those that its invokee is called by,
\* and no slot holds any other (connector.connect_to writes the two sides
\* one after the other, and leaves one of them behind when it fails).
EndsAgree ==
    \A s \in Slots, l \in Links(assembly) :
        l \in Range(attached[s].links)
        <=> made[l] = "connected" /\ s \in {FromSlot(assembly, l), ToSlot(assembly, l)}

\* An invoker calls one connector, no slot has a connection twice, and what is
\* ignored is not attached.
AttachedOnce ==
    \A s \in Slots :
        /\ Connectors[s[1]].kind \in Invoker => Len(attached[s].links) <= 1
        /\ IsInjective(attached[s].links)
        /\ attached[s].ignored => attached[s].links = <<>>

\* What the slots hold is what the connections say, as long as none failed;
\* no step, not even one that fails, attaches an invoker twice.
AttachmentsMatch == AttachedOnce /\ (~Refused => EndsAgree)

\* An assembly is right when its names are distinct, every end names a connector
\* that the file or a file below it has, the two ends are compatible, and no
\* slot is used by two connections unless both call it.
Connects(a, l) == ~Ignored(Link(a, l).from) /\ ~Ignored(Link(a, l).to)

Uses(a, l, s) ==
    \/ ~Ignored(Link(a, l).from) /\ s = FromSlot(a, l)
    \/ ~Ignored(Link(a, l).to) /\ s = ToSlot(a, l)

Visible(a, f) ==
    UNION {Range(File(a, g).components) : g \in IF f = 0 THEN Files(a) ELSE {f}}

EndIsRight(a, f, end) ==
    Ignored(end) \/ /\ end.port \in Ports
                    /\ end.port[1] \in Visible(a, f)
                    /\ Connectors[end.port].count = 1 \/ end.index # 0
                    /\ Slot(end) \in Slots

LinkIsRight(a, l) ==
    /\ EndIsRight(a, l[1], Link(a, l).from) /\ EndIsRight(a, l[1], Link(a, l).to)
    /\ ~Ignored(Link(a, l).from) \/ ~Ignored(Link(a, l).to)
    /\ Connects(a, l) => Compatible(Link(a, l).from.port, Link(a, l).to.port)

MayShare(a, k, l, s) ==
    k # l /\ Uses(a, k, s) /\ Uses(a, l, s) =>
        /\ Connects(a, k) /\ Connects(a, l)
        /\ Connectors[s[1]].kind \in Invokee

FilesAreApart(a) ==
    /\ \A f, g \in Files(a) :
        f # g => Range(File(a, f).components) \cap Range(File(a, g).components) = {}
    /\ \A f, g \in Files(a) \ {0} : File(a, f).name = File(a, g).name => f = g

IsRight(a) ==
    /\ \A f \in Files(a) : IsInjective(File(a, f).components)
    /\ FilesAreApart(a)
    /\ \A l \in Links(a) : LinkIsRight(a, l)
    /\ \A k, l \in Links(a), s \in Slots : MayShare(a, k, l, s)
    /\ \A p \in Ports : p[1] \in Visible(a, 0) => Connectors[p].count # 0

\* What is reported as unattached is what no connection of any file names.
CountsWhatIsLeft ==
    LET own == {s \in Slots : s[1][1] \in Visible(assembly, 0)}
        used == UNION {{s \in own : Uses(assembly, l, s)} : l \in Links(assembly)}
        ignored == UNION {{s \in own : Uses(assembly, l, s)} :
                            l \in {k \in Links(assembly) : ~Connects(assembly, k)}}
    IN  unattached = [connectors |-> Cardinality(own \ used), ignored |-> Cardinality(ignored)]

\* Whether an assembly loads depends on what it says and not on the order it
\* says it in, or on which of its files says it; and when it does, it counts
\* what it leaves unattached.
LoadsIfRight ==
    /\ Loaded => IsRight(assembly) /\ CountsWhatIsLeft
    /\ Refused => ~IsRight(assembly)

=============================================================================
