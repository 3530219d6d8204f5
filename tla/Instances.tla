----------------------------- MODULE Instances -----------------------------
(***************************************************************************)
(* What a component asks of whoever instantiates it, and how the data that *)
(* an assembly gives for an instance is checked and put in its place:      *)
(* src/gen/models/component.py with the subprograms, generic units, tasks  *)
(* and interrupts of src/gen/models/submodels.  A component is a record of *)
(* what its model says, an instance one of what the assembly says of it;   *)
(* None stands for a section or a value that is not there.                 *)
(***************************************************************************)
EXTENDS Naturals, Sequences, SequencesExt, FiniteSetsExt, Functions

CONSTANT None

-----------------------------------------------------------------------------
(* The connectors of a component.                                           *)

Sent == {"send", "recv_sync", "recv_async", "provide", "modify"}
Answered == {"request", "service"}
Returned == {"get", "return"}

\* The kind tells which of the two types there must be and must not be.
TypesFitKind(k) ==
    /\ k.kind \in Sent \cup Answered \cup Returned
    /\ (k.type # None) <=> k.kind \in Sent \cup Answered
    /\ (k.returns # None) <=> k.kind \in Answered \cup Returned

\* A connector is made of its data unless its types do not fit its kind, one
\* of them is volatile, or it has a priority and no place in a queue.
ConnectorLoads(k) ==
    /\ TypesFitKind(k)
    /\ ~k.volatile
    /\ k.priority # None => k.kind = "recv_async"

\* What is not given: one of each, and the lowest priority in the queue.
PriorityOf(k) == IF k.priority = None THEN 0 ELSE k.priority

\* A name is <<stem, numbers ...>>.  One that is taken gets _2 at its end, and
\* one that ends in a single digit the next number, so that _10 is no longer
\* seen as a number.
NextName(n) ==
    IF Len(n) > 1 /\ Last(n) \in 0 .. 9 THEN Append(Front(n), Last(n) + 1)
    ELSE Append(n, 2)

RECURSIVE FreeName(_, _)
FreeName(n, taken) == IF n \in taken THEN FreeName(NextName(n), taken) ELSE n

\* The names that connectors get in the order of the model; one that was
\* given to a connector is changed like one that was derived.
ConnectorNames(given) ==
    FoldLeft(LAMBDA names, n : Append(names, FreeName(n, Range(names))), <<>>, given)

OfKind(c, kind) == {n \in DOMAIN c.connectors : c.connectors[n].kind = kind}
Async(c) == OfKind(c, "recv_async")

\* A queue of priorities is there when the priorities differ.
NeedsPriorityQueue(c) == Cardinality({PriorityOf(c.connectors[n]) : n \in Async(c)}) > 1
NeedsQueue(c) == Async(c) # {}

-----------------------------------------------------------------------------
(* component.load: what is derived from the model of the component.         *)

Counted(c) == {n \in DOMAIN c.connectors : c.connectors[n].count = 0}

\* Of a subprogram: every parameter, and whether it has a default.
Required(names) == [n \in names |-> FALSE]

\* The parameters of Init_Base: the room for the queue, and the count of
\* every connector that has none.
InitBase(c) ==
    LET queue == IF NeedsPriorityQueue(c) THEN {"Priority_Queue_Depth"}
                 ELSE IF NeedsQueue(c) THEN {"Queue_Size"} ELSE {}
        names == queue \cup Counted(c)
    IN  IF names = {} THEN None ELSE Required(names)

\* Those of Set_Id_Bases: one for every suite without ids of its own.
SetIdBases(c) ==
    LET suites == {s \in DOMAIN c.suites : ~c.suites[s].static}
    IN  IF suites = {} THEN None ELSE Required(suites)

\* The ids and priorities of the interrupts are parameters of the discriminant.
Discriminant(c) ==
    LET own == IF c.discriminant = None THEN {} ELSE c.discriminant
    IN  IF c.discriminant = None /\ c.interrupts = {} THEN None
        ELSE Required(own \cup (c.interrupts \X {"Id", "Priority"}))

\* The generic type of a connector, by the name of the formal parameter.
IsGeneric(c, n) == c.generic # None /\ c.connectors[n].type \in DOMAIN c.generic

\* The primary task is there unless the component can only be passive.
HasPrimary(c) == c.execution \in {"active", "either"}
HasTasks(c) == HasPrimary(c) \/ c.subtasks # <<>>

\* A component loads unless a name comes twice in one of its lists, or what
\* is generic goes on the queue without a function that tells its length.
ComponentLoads(c) ==
    /\ IsInjective(c.subtasks) /\ ~(HasPrimary(c) /\ "Active" \in Range(c.subtasks))
    /\ \A s \in DOMAIN c.suites : IsInjective(c.suites[s].names)
    /\ \A s, t \in DOMAIN c.suites :
        s # t => Range(c.suites[s].names) \cap Range(c.suites[t].names) = {}
    /\ \A n \in DOMAIN c.connectors : ConnectorLoads(c.connectors[n])
    /\ \A n \in Async(c) : IsGeneric(c, n) => c.generic[c.connectors[n].type].hasLength

\* The packages that the specification and the body of the base are given,
\* where c.with has those that the submodels add to each: the body never
\* names what the specification names, and "without" takes away from the
\* specification only.
When(condition, packages) == IF condition THEN packages ELSE {}

Packages(c) == {c.connectors[n].package : n \in DOMAIN c.connectors}

BaseAds(c) ==
    ( When(DOMAIN c.connectors # {}, {"Connector_Types"})
      \cup When(NeedsPriorityQueue(c), {"Protected_Priority_Queue"})
      \cup When(NeedsQueue(c) /\ ~NeedsPriorityQueue(c), {"Labeled_Queue"})
      \cup When(NeedsQueue(c), {"Basic_Types"})
      \cup Packages(c) \cup c.with.baseAds \cup c.with.own) \ (c.without \cup {"Component"})

BaseAdb(c) ==
    ( When(\E n \in Async(c) : ~IsGeneric(c, n) /\ c.connectors[n].packing = "basic", {"Serializer"})
      \cup When(\E n \in Async(c) : c.connectors[n].packing = "variable", {"Serializer_Types"})
      \cup When("commands" \in DOMAIN c.suites, {"Configuration"})
      \cup When(NeedsQueue(c) \/ "commands" \in DOMAIN c.suites, {"Sleep"})
      \cup When(HasTasks(c) /\ c.subtasks # <<>>, {"Task_Util"})
      \cup c.with.baseAdb) \ BaseAds(c)

\* The unit tests are the files below the component whose names end in its
\* name, so also those of a component with a longer name.
UnitTests(c, files) == {f \in files : f.below = c.name /\ c.name \in f.endings}

-----------------------------------------------------------------------------
(* The parts of set_component_instance_data.                                *)

\* name => value, as they are written one after the other.
Names(pairs) == [i \in DOMAIN pairs |-> pairs[i][1]]
ValueOf(pairs, n) ==
    IF \E i \in DOMAIN pairs : pairs[i][1] = n
    THEN pairs[CHOOSE i \in DOMAIN pairs : pairs[i][1] = n][2] ELSE None

\* subprogram.set_values: each name once, and each one of the parameters.  A
\* value that is empty counts as not set.
SetsValues(parameters, pairs) ==
    IsInjective(Names(pairs)) /\ Range(Names(pairs)) \subseteq DOMAIN parameters

Missing(parameters, pairs) ==
    {n \in DOMAIN parameters : ValueOf(pairs, n) = None /\ ~parameters[n]}

\* load_subprogram_values: the section is there exactly when the component
\* has the subprogram; the bases of ids may be left out.
SubprogramTaken(parameters, section, checkMissing) ==
    IF parameters = None THEN section = None
    ELSE IF section = None THEN ~checkMissing
    ELSE /\ SetsValues(parameters, section)
         /\ checkMissing => Missing(parameters, section) = {}

\* instantiate_types: each type once, and all but the optional ones.
FormalsSet(formals, section) ==
    /\ SetsValues(formals, section)
    /\ \A n \in DOMAIN formals : formals[n].optional \/ ValueOf(section, n) # None

\* load_generic_unit_values asks for the section whatever is optional.
GenericTaken(formals, section) ==
    IF formals = None THEN section = None
    ELSE section # None /\ FormalsSet(formals, section)

\* The execution of the instance, which the assembly decides for a component
\* that can be either.
Execution(c, d) == IF d.execution = None THEN c.execution ELSE d.execution
ExecutionTaken(c, d) ==
    IF c.execution = "either" THEN d.execution # None
    ELSE d.execution \in {None, c.execution}

IsActive(c, d) == c.execution = "active" \/ Execution(c, d) = "active"

\* map_data_dependencies: every dependency once, to a product.
DependenciesTaken(c, d) ==
    IF c.dependencies = {} THEN d.dependencies = None
    ELSE /\ d.dependencies # None
         /\ SetsValues(Required(c.dependencies), d.dependencies)
         /\ Missing(Required(c.dependencies), d.dependencies) = {}

Attributes == {"priority", "stack", "secondary"}

\* Faulty: a passive instance may have the attributes of a task.
AttributesTakenLoose(c, d) ==
    IsActive(c, d) => \A a \in Attributes : d.task[a] # None

AttributesTaken(c, d) ==
    \A a \in Attributes : (d.task[a] # None) <=> IsActive(c, d)

\* tasks.set_instance_data: an active instance has all attributes of a task
\* and a passive one none; the primary task is then looked up, which a
\* passive component with subtasks has not; the subtasks are all there.
TasksTaken(c, d) ==
    HasTasks(c) =>
        /\ AttributesTaken(c, d)
        /\ d.task.stack # None => d.task.stack = 0 \/ d.task.stack >= 2000
        /\ HasPrimary(c)
        /\ c.subtasks # <<>> =>
            /\ d.subtasks # None
            /\ IsInjective([i \in DOMAIN d.subtasks |-> d.subtasks[i].name])
            /\ {d.subtasks[i].name : i \in DOMAIN d.subtasks} = Range(c.subtasks)

\* The types and the count that a connector has in the instance: a generic
\* type is the one instantiated, and a count not given is that of Init_Base,
\* which is at least 1.
ConnectorType(c, d, n) ==
    IF IsGeneric(c, n) THEN ValueOf(d.generic, c.connectors[n].type) ELSE c.connectors[n].type

ConnectorCount(c, d, n) ==
    IF n \in Counted(c) THEN ValueOf(d.initBase, n) ELSE c.connectors[n].count

ConnectorsTaken(c, d) ==
    \A n \in DOMAIN c.connectors :
        ConnectorType(c, d, n) # None /\ ConnectorCount(c, d, n) # 0

\* A queue of priorities has room for its depth of the largest element.
QueueSize(c, d, sizeOf) ==
    IF NeedsPriorityQueue(c)
    THEN ValueOf(d.initBase, "Priority_Queue_Depth")
         * Max({sizeOf[ConnectorType(c, d, n)] : n \in Async(c)})
    ELSE IF NeedsQueue(c) THEN ValueOf(d.initBase, "Queue_Size") ELSE None

\* The whole of set_component_instance_data, in the order of its checks.
Checks(c, d) ==
    <<ExecutionTaken(c, d), d.name # c.name,
      GenericTaken(c.generic, d.generic),
      SubprogramTaken(Discriminant(c), d.discriminant, TRUE),
      SubprogramTaken(c.init, d.init, TRUE),
      SubprogramTaken(InitBase(c), d.initBase, TRUE),
      SubprogramTaken(SetIdBases(c), d.setIdBases, FALSE),
      DependenciesTaken(c, d), TasksTaken(c, d)>>

InstanceLoads(c, d) == (\A i \in 1 .. 9 : Checks(c, d)[i]) /\ ConnectorsTaken(c, d)

\* The tasks that run: the primary one of an active instance, and the
\* subtasks that are not disabled.
RunningTasks(c, d) ==
    (IF HasPrimary(c) /\ d.task.priority # None
     THEN <<[priority |-> d.task.priority, stack |-> d.task.stack]>> ELSE <<>>)
    \o (LET Given(n) == d.subtasks[CHOOSE i \in DOMAIN d.subtasks : d.subtasks[i].name = n]
        IN  SelectSeq([i \in DOMAIN c.subtasks |-> Given(c.subtasks[i])], LAMBDA t : ~t.disabled))

-----------------------------------------------------------------------------
(* The tasks of all instances: assembly.load ranks them by priority.        *)

\* A task of a higher priority has a lower number.
ByPriority(x, y) == x > y

\* Tasks of one priority keep the order of the components and share a rank.
Ranked(tasks) ==
    LET priorities == SetToSortSeq({tasks[i].priority : i \in DOMAIN tasks}, ByPriority)
        Of(p) == SelectSeq(tasks, LAMBDA t : t.priority = p)
    IN  FlattenSeq([r \in DOMAIN priorities |->
            [i \in DOMAIN Of(priorities[r]) |-> [task |-> Of(priorities[r])[i], rank |-> r]]])

TotalStack(tasks) == FoldSeq(LAMBDA t, sum : t.stack + sum, 0, tasks)

=============================================================================
