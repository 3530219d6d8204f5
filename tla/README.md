# A verification of Adamant

Adamant is a framework for flight software. A system is an *assembly* of *components*, joined by
*connectors*. The program that flies is Ada: each component is passive (its code runs in the task of
whoever calls it) or active (it has a task of its own that takes messages from a queue), and a
connector is a procedure call through an access value, synchronous, or asynchronous by way of the
queue of the component called. Most of the Ada around the components is not written but *generated*:
Python loads models of components, types and assemblies in YAML, resolves and numbers what is in
them, and fills templates. A build system, also Python, above `redo`, decides which directories make
up a project, what can be built from what is in them, and what each thing depends on.

The guarantees of the first half rest on how few calls to protected objects and suspension objects
are combined into one operation; those of the second on the order in which models are told of one
another, on what is cached, and on databases that several processes share.

This directory holds TLA+ specifications of both where that is subtle, TLC configurations that
check them on small instances, and proofs, checked by TLAPS, that hold for every value of their
constants. `PROJECT.json` has the list of runs, the properties with a mutation that breaks each, the
source lines of every definition, and the hazards of the code.

## 1. The system

Paths are relative to the repository. "src" twice is not a mistake: components live in
`src/components`, and the code generator in `gen`.

### 1.1 The program that flies

| part | state it keeps | operations | who calls it, and when |
|---|---|---|---|
| Labeled and variable queue (`src/data_structures/labeled_queue`, `variable_queue`) | circular buffer in a protected object; suspension objects `Not_Full`, `Not_Empty` | `Push`, `Pop`, `Peek`, their blocking forms, `Clear` | any task pushes, the component's task pops |
| Circular buffer and queues on it (`src/data_structures/circular_buffer`) | bytes, `Head`, `Count`, `Max_Count` | push with or without overwrite, peek with offset, pop, clear, make full, dump | one caller at a time, inside a protected object |
| Parameters (`src/components/parameters`, the generated staged parameters in `gen/templates/component/component-name.adb`) | the table's task; for every parameter a status, a staged value and who staged it; a flag per component; the component's working values | set a table, validate one, update one parameter, fetch; `Update_Parameters` | the table's task calls into the store of each component, each component's task calls `Update_Parameters` in its own time |
| Heap (`src/data_structures/heap`) | an array of (key, order, element), `Count`, `Order` | push, pop, peek, clear | the priority queue |
| Priority queue and its protected form (`src/data_structures/priority_queue`, `protected_priority_queue`) | a slot array, a ring of free slot indexes, the heap | push, pop, peek, clear | as the labeled queue, for components with priorities on their connectors |
| Memory manager, memory copier, memory stuffer, task synchronization (`src/components/memory_*`, `src/core/task/task_synchronization.adb`) | who has the region and under which identifier; a wait that counts ticks; the last answer; the stuffer's queue | request, release, force release, write; copy; reset, wait, release, tick | four tasks: the copier's, the manager's, the stuffer's and a rate group |

What is hard in each, and what makes it correct:

- **Labeled queue.** A blocking call tries, fails and goes to sleep in two steps, between which
  anything may run. A push must never be slept through, a pusher must never be left asleep with room
  and nobody to wake it although one flag serves all pushers, and the one task of a component must
  never see the error that a second waiter causes.
- **Circular buffer and queues.** Everything may wrap: a push, a peek, the offset of a peek, a dump.
  A queue finds its elements by the lengths stored between them, so one wrong count turns all that
  follow into garbage. Correct means: behaves as a string of bytes, and as a sequence of elements.
- **Parameters.** New values go through staged, validated and accepted before a component uses
  them. Tasks of several tables and components interleave; requests fail half way. A component must
  take over only what was accepted, together, always; nothing accepted may be lost; a dump must tell
  what was accepted last.
- **Heap and priority queue.** Elements of one priority come out oldest first because of a number
  that rolls over and that every swap carries along. Slots return to the pool in the order of
  priority, so the ring of free indexes is a permutation that no test enumerates.
- **Memory copy.** An answer may come late, never, or for an earlier copy; a queue may be full; a
  region may be forced back. The region must not be lost or lent twice, a command must end, a success
  must mean that the copy was made.

### 1.2 Generators and build

| part | state it keeps | operations | who calls it, and when |
|---|---|---|---|
| Assembly and its connections (`gen/models/assembly.py`, `submodels/connector.py`) | components of every file; what is attached at every index of a connector; the connections | load the components of a file, merge subassemblies, connect, ignore, count what is left | any generator that needs the assembly |
| Ids (`assembly.py`, `submodels/ided_suite.py`, `data_dependencies.py`) | ids of entities, bases of suites, a dictionary by id | set a base, reserve, find an open base, check, resolve dependencies | the assembly, type of entity by type |
| Instances (`component.py`, `submodels/tasks.py`, `discriminant.py`, `generic_unit.py`, ...) | what an instance is given for its initialisation, tasks, interrupts, queue | check the data given, set it, rank priorities | the assembly, for each component |
| Suites (`commands.py`, `events.py`, `parameters.py`, ...) | entities with ids and types | load, add, what each brings to the component | the component |
| Derived suites (`components/*/gen/models`) | the same; a type that is generated from the assembly | `set_assembly`, which may have a model generated that loads the assembly again | the assembly, suite by suite |
| Lists of the assembly | types in the order in which they can be declared | gather from components and submodels | the assembly, last |
| Views (`view.py`) | filters, a rule | filter, combine, prune, group | documents |
| Packed types (`record.py`, `array.py`, `field.py`, `memory_map.py`, `register_map.py`) | fields with sizes and start bits | size, lay out, flatten, place | every generator of a type |
| Tables of components (product packets, parameter tables, router tables, fault responses, watchdog list, extracted products) | entries by name | resolve in an assembly, number | one generator each |
| Command sequences (`simple_command_sequencer`, `sequence_store`) | steps, calls of other sequences | load, resolve, check for cycles | one generator each |
| Cache of models (`base.py`, `model_cache_database.py`) | models as pickled, with the time of their files; what was checked in this session | look up, load, save, mark | every load in every generator |
| Ranges of types (`packed_type.py`, `type_ranges_cache_database.py`) | ranges by the name of a type | look up, compile and run a program, save | generators of packed types |
| Build path, databases, sessions (`redo/database`) | the path; databases of sources, models, generators and targets; a directory in memory for all processes of a session | find the path, fill the databases, mark as running, clean up | every target that redo builds |
| Targets across sessions (`build_what.py`, `persistent_target_cache.py`) | a database kept on disk, trusted by its time | `redo what` | the user |
| Sources of an object, objects of a program (`build_object.py`, `build_executable.py`) | what a source with's or includes | gather dependencies, in batches or alone | redo, for every object and program |

What is hard in each, and what makes it correct:

- **Connections.** The two ends are written one after the other, and the second may be refused.
  What the ends hold must agree with the connections, an invoker must call one connector only, and
  an assembly must load or not by what it says, whichever of its files says it.
- **Ids.** Ids are written, or counted from a base that is written, or from a base that is found.
  None may be given twice, a dependency must lead to its product, and nothing may be refused without
  a cause.
- **Layout, packets, tables, routers.** Computed twice in different ways, by the type and by what
  uses it; bits must be neither shared nor left out.
- **Sequences.** A sequence may wait for one that waits for it. No such set may be accepted.
- **Views.** Filters are combined by rules and pruned after each step, so the order of the steps
  could tell. It must not.
- **Caches.** A model rests on files other than its own, is loaded by several processes at once and
  by loads that are inside one another; the same for ranges, and for models that ask for the model
  that owns them. What is given must be what a load from nothing would give.
- **Sessions.** Between two targets nobody uses the directory; it must stay nonetheless, and go in
  the end, whichever target fails.
- **Databases.** Models are generated from models until none is new. One source for a unit, and
  every product a target, whatever the order.
- **Dependencies.** Whatever an object is compiled from must be known before it is compiled, and the
  same in a batch of any composition.

### 1.3 How the parts interact

The build starts a session (`Sessions`), finds its path (`BuildPath`), fills its databases
(`Targets`) and answers what there is to build (`TargetCache`). A generator is a process of a target
of that session; it loads models through the cache (`ModelCache`, `Loading`), asks for ranges
(`TypeRanges`), loads an assembly (`Wiring`, `Instances`, `EntityIds`, `Suites`,
`AssemblyLists`) and what is drawn from it (`Views`, `Tables`, `CommandSequences`,
`PackedLayout`). What comes out is Ada, which is compiled (`ObjectSources`) into the program whose
queues, parameters and copies are the subject of section 1.1.

### 1.4 Not modelled, and why

Everything else is a component of `PROJECT.json` with its reason. In short:

- *Planned* (section 6): the generated base of active components, command router, command
  sequencer, parameter table router, double buffer store, sequence store, task watchdog, event
  limiter, fault correction, command protector with the stuffers' armed state, tick divider.
- *Little protocol*: components that pass, drop, count or repackage one message at a time; build
  rules that run one tool after another.
- *Other means or out of reach*: serialisers (data), binary tree (proved in SPARK in the
  repository), clocks and control loops (real time), devices and sockets (input and output),
  templates and documents (text), the ground tools (conversion of bytes), the parser of view rules
  and the compiler (used and not written here: they are marked external).

## 2. The modules

### 2.1 Ada

| module | what it is | code |
|---|---|---|
| `LabeledQueue` | specification | `labeled_queue.adb`, `variable_queue.adb`, suspension objects |
| `CircularBase` | operators: the array, where it wraps, the three copies of `Push` and `Peek` | `circular_buffer.adb`, Base |
| `CircularBuffer`, `ByteFifo` | specification over `CircularBase`, and the string of bytes that it implements | `circular_buffer.adb`, Circular |
| `CircularQueue`, `ElementFifo` | specification over `CircularBase`, and the sequence of elements that it implements | `circular_buffer.adb` Queue_Base, `circular_buffer-labeled_queue.adb` |
| `Parameters` | specification of tables, stores and components | `component-parameters-implementation.adb`, `component-name.adb` |
| `Heap` | specification, one step for each turn of the loops | `heap.adb` |
| `PriorityQueue` | composition of slots, ring of indexes and a `Heap` (by `INSTANCE`) | `priority_queue.adb` |
| `PriorityFifo` | abstract: what heap and priority queue promise | |
| `ProtectedObjects` | operators of the two protected objects, the arbiter and the wait | `component-memory_manager-implementation.adb`, `task_synchronization.adb` |
| `MemoryCopier` | composition of the four tasks over those two | `component-memory_copier-`, `-manager-`, `-stuffer-implementation.adb` |
| `MCContainers` | the heap, the ring of bytes and the queue of elements in one instance | |

### 2.2 Python

| module | what it is | code |
|---|---|---|
| `Wiring` | specification: a load, step by step | `assembly.py`, `connector.py` |
| `EntityIds` | specification: numbering, suite by suite | `assembly.py`, `ided_suite.py` |
| `Instances` | functions: what loads, and what it gives | `component.py`, submodels |
| `Suites` | functions: the suites and what they include; who is told what, and what is generated on the way | suites, `*/gen/models` of components |
| `AssemblyLists` | functions: the lists, with the order of types | `assembly.py` |
| `Views` | functions: filters and rules on parts of an assembly | `view.py` |
| `PackedLayout` | functions: sizes, start bits, flattening | `record.py`, `array.py`, `field.py`, maps |
| `Tables` | functions: each table resolved, or refused | seven models of tables |
| `CommandSequences` | functions: loading, resolving, the search for cycles | `command_sequences.py` and the models beside it |
| `Enums` | functions: numbers of literals | `enums.py`, `type_ranges.py` |
| `ModelCache` | specification: processes with stacks of loads, one connection to the database a step | `base.py`, `model_cache_database.py` |
| `Loading` | specification: which load finds what in the cache | `component.py`, `assembly.py` above `base.py` |
| `TypeRanges` | specification: generators that share ranges | `packed_type.py`, `type_ranges_cache_database.py` |
| `Sessions` | specification: targets and scripts | `_setup.py`, `setup.py`, `build_rule_base.py`, `delayed_cleanup.sh` |
| `Targets` | specification: the rounds that fill the databases | `create.py` and the databases |
| `TargetCache` | specification: builds, questions and files that come and go | `build_what.py`, `persistent_target_cache.py`, the listing in `_setup.py` and the storing in `create.py` |
| `BuildPath` | function: the path | `_setup.py` |
| `ObjectSources` | functions: dependencies and objects | `build_object.py`, `build_executable.py` |
| `GeneratorFunctions` | what is true of `Enums`, `CommandSequences` and `AssemblyLists` for any input, `given` | |
| `BuildFunctions` | the same of `Tables`, `BuildPath` and `ObjectSources` for any `supplied`, and of `Loading` | |
| `MCGenerators` | instances of the specifications, one at a time, and inputs of the functions | |

### 2.3 Proofs

| module | proves about |
|---|---|
| `LabeledQueueProofs`, `ParametersProofs`, `HeapProofs`, `MemoryCopierProofs` | the module of the name |
| `CircularBufferProofs` | `CircularBuffer`, and an instance of `CircularQueue` |
| `PriorityQueueProofs` | `PriorityQueue`, with an instance of `HeapProofs` for the heap inside it |
| `GeneratorProofs` | `Wiring`, `EntityIds`, `TypeRanges`, `Enums`, `CommandSequences`, `AssemblyLists` |
| `BuildProofs` | `Sessions`, `ModelCache`, `TargetCache`, `Targets`, `Loading`, `BuildPath`, `Tables`, `ObjectSources` |

`MCContainers` extends `CircularBuffer`; `MCGenerators` extends the seven specifications of the last two rows
that run by themselves, `GeneratorFunctions` and `BuildFunctions`, which have the functions and `Loading` as
instances. The two proof modules extend these too, so that what the runs check are the very definitions that the theorems are
about: the run gives `given` and `supplied` the inputs of `MCGenerators`, the theorem any input of the type it names.
`Heap` and `CircularQueue` are instances.

### 2.4 How state and steps correspond

One rule decides the grain of a step: *what the code does inside one protected action, or
inside a component between two calls that others can observe, is one step.*

- In `LabeledQueue` a call to the protected object is a step and `Suspend_Until_True` is another.
  `pc` says where a task is in its call: `failed` between the two, `waiting` when asleep, `retry`
  when released. `Clear` is three steps, as it is three calls. A suspension object is a record of its
  flag and of the one task that may wait on it; a second waiter gets the `Program_Error` that the
  code turns into `Error`.
- In `CircularBuffer` and `CircularQueue` a call is a step (the high water marks, which no code but
  a report reads, are left out); `CircularBase` computes what the array
  holds afterwards by the same cuts as the code, so the wrap is in the model and not assumed.
- In `Parameters` a table's handler is a loop of calls into the stores; `task[t]` is the request,
  the phase and what the loop has still to visit. `Copy_From_Staged` and `Copy_Out` are two steps if
  `ByCopy`, since values returned by copy reach the component's variables after the protected action
  has ended.
- In `Heap` a turn of a loop is a step, so the assertions about the number of turns and about the
  indexes can be stated for each turn. In `PriorityQueue` the heap's steps are joined to the calls on
  the pool; nobody else may call in between, because the whole runs inside a protected object.
- In `MemoryCopier` every call into the arbiter or into the synchronization object is a step, as are
  taking a message, copying and the two halves of an answer (store, then release).
- In `Wiring` `doing` says whose turn it is among the files of a load and which step comes next; an
  exception is a step of its own, `failed`, and what was written before it stays written. A connection
  is one step, with each write to either end in it:
  `connect_to` attaches the invoker first, and leaves it attached when the invokee refuses.
- In `EntityIds` a suite is a step of each of the passes over the suites; the dictionary by which
  entities are found is kept beside the ids that they carry, as in the code, so that the two can
  disagree.
- In `ModelCache` and `TypeRanges` a step is what is done while a database is open,
  because the file is locked for that long; between two steps another process runs.
- In `TargetCache` a build lists a directory in one step (`ListDirectory`, from `_setup.py`), stores all it has
  listed in another (`StoreTargets`, the end of `create`) and is copied over the kept database in a third (`EndBuild`); a question
  compares the times, reads or lists, and stores. Any other step may come between two of these, and time passes only by
  `Tick`, so that several may have the same time, as on a file system that does not tell them apart. With each list the
  model keeps when it was listed and when stored; the code keeps neither and no guard reads them.
- `Sessions` has a
  step for each write a target makes to the session's directory, and for each look of the script.
- In `Targets` the rounds are steps; the generators of a file come in any order, since the code keeps
  them in a set.
- Models that are loaded without touching anything shared are functions from what is written to
  what is loaded, or to a refusal. The recursion of the code is recursion there, over types within types
  and rules within rules. The searches that the proofs are about are recursive functions with a bound instead:
  the number of sequences for calls (`Visit` in `CommandSequences`), of types for their order (`Search` in
  `AssemblyLists`), of sources for objects (`Round`), of units for programs (`Reached` in `ObjectSources`). Each search ends before its bound,
  which is proved. In `Loading` the bound is on subassemblies within one another, `Depth`, beyond
  which a load fails, as Python's does at its own limit of recursion.

### 2.5 Constants that choose a build or a use

- `ByCopy`: Ada leaves it to the compiler whether a composite is passed by copy or by reference.
  `OnlyAcceptedIsTaken` and `AcceptedIsFlagged` are proved for both.
  `FetchTellsAccepted` is checked and proved by reference only: by copy there is a moment when a component has
  left the protected action and not written its values yet, and a table that reads them then sees
  the old ones.
- `Paced`: a request of a table starts only when no component still has an update to take over. The
  code does not enforce it. Without it a request that fails discards an earlier accepted value (run
  `parameters_lost`), and an update may reach a component in two parts, which the user
  guide means to exclude (`doc/user_guide/user_guide.tex:4587`). So the properties about loss and about togetherness are
  stated for paced use, and the others for any.
- `ClearsQueued`: whether `Clear` may meet a priority queue with elements on it. No component of the
  repository calls `Clear` of its queue at all.
- `Persistent` and `MayFail` of `ModelCache`: whether the cache outlives the session (off, which is the
  default of the code), and whether a file may be refused (on).
- `Looks` of `Sessions`: seven in the code, three in the run, any number in the proof.

## 3. What TLC checks

Each run says in `PROJECT.json` what it shows. Every property has a mutation of a mapped definition
that TLC finds to violate it, so none holds by the shape of the model alone.

| run | instance | checked |
|---|---|---|
| `labeled_queue` | 2 pushers, 1 popper, room for three short elements, or a long and a short | no lost wake-up, no stranded pusher, no `Error` to a sole task; a sleeping pusher is released in the end |
| `labeled_queue_clearers` | the same and a task that clears | a clear leaves no pusher stranded |
| `labeled_queue_clear` | 1 pusher, 1 popper, 1 clearer | *violation*: a push between the steps of `Clear` is slept through |
| `containers` | a heap of depth 4 with three elements of two priorities and an `Order` of five values; a ring of 3 bytes of two values; a queue in 7 bytes, lengths of two bytes, labels of one | each refines its abstract specification |
| `parameters` | 1 table, 2 components, a grouped entry, 3 values of which 1 out of range, paced | nothing accepted is lost, a dump tells it, it is applied in the end |
| `parameters_tables` | 2 tables with parameters in 1 component, by copy, any pace | only accepted values are taken over |
| `parameters_lost` | 1 table, any pace | *violation*: an accepted value is lost |
| `priority_queue` | depth 3, slots of one byte, data that fits and that does not, two priorities, `Order` of three values | pool and heap agree on what is in use; refines `PriorityFifo` |
| `priority_queue_clear` | the same, `Clear` at any time | *violation*: a slot is handed out twice |
| `memory_copier` | 3 commands, limit 1, queue of 2, 3 identifiers | a success means a copy, the source is held meanwhile, a command ends |
| `generators` | the Python side, see below | 22 invariants and that the directory goes |
| `what_stale` | 2 directories, 1 file, a question at a time, no build | *violation*: `redo what` does not see a new file, because of a question about the other directory |

In `generators` a behaviour is of one machine, chosen in its first state, or gives one function one
input; the others stand still. What is checked of each:

| property | of | instance |
|---|---|---|
| `AttachmentsMatch`, `LoadsIfRight` | `Wiring` | 3 components with five connectors, two of them arrays; an assembly with up to 2 connections and a subassembly with 1; names that clash |
| `IdsLeadBack`, `RefusedForCause` | `EntityIds` | 3 suites of 1 or 2 entities, with bases, ids, both or neither, largest id 20, one dependency |
| `InstancesRun` | `Instances` | every mixture of execution, queue, tasks and subtasks of component and instance |
| `ViewsKeepTheirMeaning` | `Views` | three filters of four kinds, one naming what is not there, combined by `&`, `\|`, `~`, `@` |
| `TypesAreFilled` | `PackedLayout` | records of two fields nested three deep, with arrays; three registers at any of four addresses; memory with room and without |
| `PacketsAreFilled`, `ParametersHaveOnePlace`, `RoutersLead` | `Tables` | up to 3 items, suites of up to 2 packets numbered from three bases; 2 tables of up to 2 entries; 2 routes of up to 2 destinations, up to 3 petters at up to 3 indexes |
| `SequencesEnd` | `CommandSequences` | 3 sequences that call one another and wait, or do not |
| `TypesComeFirst` | `AssemblyLists` | 4 types made of one another in any way |
| `EnumsKeepNumbers` | `Enums` | up to 3 literals with or without number |
| `PathsEndWithProject` | `BuildPath` | two roots, one inside the other, and every setting of the environment |
| `DerivedTypesAreKnown` | `Suites` | 1, 2 or all of 13 kinds of component, one model missing |
| `ProgramsAreWhole` | `ObjectSources` | 4 Ada units, 3 of which may have bodies and one of these a file name that ends as another's, and a C unit |
| `LoadIsCurrent` | `ModelCache` | 3 files, 2 processes, an edit between sessions, loads that fail |
| `SubmodelIsReady` | `Loading` | 2 assemblies with a part in common and a component, any order of loads |
| `RangesAreOwn` | `TypeRanges` | 4 types of one another, 2 processes |
| `SessionIsKept`, `DirectoryGoes` | `Sessions` | 3 targets, one to three at a time, any of them failing anywhere |
| `WhatIsCurrent` | `TargetCache` | 1 directory, 1 file, a build and a question at once, 3 times told apart |
| `DatabasesAreFilled` | `Targets` | every mixture of eight files in one directory and four in another |

### Bounds, and why they are enough

- *Labeled queue*: two pushers are needed for one to take the release of another; a third adds a
  task in a state that one of the two can be in. With six bytes, elements of two and of four, a pop may or may not
  make room for the pusher that waits. The three
  invariants about waiting are proved for any number of tasks.
- *Circular buffer*: three bytes make every relation of head, tail, size and request that the
  branches of the code tell apart (ends before, at and after the end of the array; full; empty).
  *Circular queue*: seven bytes let elements and the length in front of them wrap at each offset.
- *Parameters*: two components are needed for one to refuse what the other accepts, one grouped
  entry for two parameters to change in one, three values for a range check to fail. Two tables share
  a component in `parameters_tables`.
- *Heap*: four nodes give a parent with two children, one and none, and an `Order` of five values
  rolls over within the run. An inversion of two equal priorities two levels apart needs more orders
  than fit there, and that case rests on the theorem `TopComesFirst`.
- *Priority queue*: three slots are the least for a slot to come back while others are out in an
  order that differs from the ring's.
- *Memory copier*: three copies allow a late answer, the one it is taken for, and one after;
  identifiers modulo 3 roll over; a limit of 1 tells "at" from "after" the limit; a queue of two can
  be full. The proofs are for any of these numbers.
- *Wiring*: two connections are needed for one to meet what the other left, and one of them in another
  file for the order of the files to tell. *Ids*: three suites make one that is found a base between
  two that have theirs, and a largest id of 20 leaves bases that run out of room.
- *Cache, loading, ranges*: two processes and a file that rests on two others, one directly and through
  the other, make a load that is stale while its owner is loading, and one that is finished by the other process meanwhile.
- *Sessions*: with three targets one may have ended, one be between two steps and one be about to
  begin. The safety part is proved for any number.
- *Targets*: two directories, since what is found twice is refused or not by where it is; a model whose
  generator makes a model, since the rounds end with the second.
- *Loading*: `Depth` is 2 since parts have no parts in the run; it is any number in the proof.
- *Answers*: a file added after the listing, one added after the storing and one that the file system cannot tell from
  either take three times. Two directories are needed only where one question makes another's answer old, which
  `what_stale` shows. Any directories, files, builds, questions and times are in the proofs.
- *Functions*: the inputs give each condition of the code both outcomes, alone and together with any
  one other; where a definition is recursive the inputs nest at least twice.

`SYMMETRY` is used in `containers` for two elements of one priority, and nowhere else. No state
constraints are used; every bound is a constant in a guard or in the inputs. Deadlock is checked but
in `generators` and `what_stale`, where a load that is done, an input that is given or a clock that has
run out rightly stops.

### Fairness

- `LabeledQueue`: weak fairness of a popper's `Pop_Block` and of the steps within blocking calls. A
  popper is a component's task, whose cycle is nothing but this call
  (`component-name.adb`, `Cycle`), and a task that is released runs on. Nothing is assumed of who
  pushes.
- `Parameters`: weak fairness of the steps of a request that has begun, as no step of a handler
  blocks, and of `Update_Parameters`, which the component's author is told to call periodically
  (each time round). No request is owed.
- `MemoryCopier`: weak fairness of the copier's steps and of the tick. The stuffer is owed nothing:
  `CommandEnds` holds with a stuffer that is stuck for ever.
- `Sessions`: weak fairness of each step of a target and of its script, which are processes that
  the operating system runs; none of failing. That a script's last look comes after the last
  target has begun is a guard (`GapIsOver`), from the comment of `delayed_cleanup.sh` on which it relies.

## 4. What is proved

`tlapm` checks all proofs. The constants are assumed to be what the `ASSUME`s of the modules say
(sets of tasks disjoint, sizes natural, sets of targets finite, tables and components of parameters
given by functions), and nothing of their size. TLC evaluates every `ASSUME` on its instance. Where a
module is also used over variables of another one, what it assumes is a definition
(`HeapAssumption`, `BufferAssumption`, `QueueAssumption`, `RangesAssumption`, `CacheAssumption`, `TargetsAssumption`,
`LoadingAssumption` with `AskedOfNoPart`) that its theorems have as a hypothesis and its MC module assumes.
A theorem about a function has as hypothesis what is known of its input before it is called; section 4 names
it where it is more than a type.

**`LabeledQueueProofs`** — any number of tasks, elements, bytes.
`TypeCorrect`, `NoPushIsSleptThrough` (one popper, no `Clear`),
`NoPusherIsStranded` (with clearers, if every element fits into the empty buffer) and
`SoleTaskSucceeds`. `NoLostWakeup` is not inductive: it needs in
addition that a task asleep is known to its object (`WaitersAreKnown`, which the run-time keeps whatever the queue does), and that a popper which has
found the queue empty and is about to sleep finds its flag open if an element has come since.

**`CircularBufferProofs`** — any size, any bytes. `RingIsByteFifo`: the ring implements `ByteFifo`. The
invariant is small (the head is an index, the count is at most the size, the bytes are bytes); the work is in
the array. What is stored is read byte by byte at the index turned round the end, and what a push writes in two
pieces, or over the oldest bytes, what a peek with an offset reads in two, and what a dump names by two
indices that may be equal is compared with it, byte by byte.

`QueueIsElementFifo`: the queue of elements in that ring implements `ElementFifo`, for any widths of the
serialized lengths and labels. Its invariant (`QueueInv`) is that the ring holds the strings of `Item_Count`
elements, one behind the other, and nothing else (`Stored`); pushes, peeks and pops of the ring are the
lemmas of the first theorem. The mapping (`End`) finds each element by the length that the one before
begins with, a function defined along its argument. That it finds the elements stored is proved without an
induction theorem: if it did not there would be a least place where it differs (`LeastExists`, from the
well-foundedness of the natural numbers), and the definition carries that place over from the one before. The
assumption says that the bytes of lengths up to the size and of labels are bytes of the ring. That
a length read back is the one written is how serialization is modelled, and no part of the result.

**`ParametersProofs`** — any tables, components, grouping, values.
`AcceptedStaysFlagged` and `OnlyAcceptedTakenOver` for either `ByCopy` and any pace;
`PacedLosesNothing` and `PacedTakesTogether` under `Paced`. The inductive invariant `IInv` says that
a staged parameter was staged by its own table, whose request is still at work with that value and
has its component still to visit (`StagedInv`); that a request which has not failed has staged all it
asked for (`CompleteInv`); that a value which waits for its component is the accepted one and the
component's flag is up (`AcceptedIsFlagged`); and, where requests are paced, that what does not wait
has been taken (`Kept`). `PacedFetchTells`, under `Paced` and `~ByCopy`, has one more (`FetchInv`): a
table fetches parameters of its own only, whose accepted values nobody else changes meanwhile, and no
component has values on their way to it, so that what is read is what `Kept` says of it.

**`HeapProofs`** — any depth. `HeapInvariant`: between calls every node comes before its children;
within a push or a pop so does every pair away from the place that the loop is at, and the parent of
that place comes before its children. With it go bounds on the turns taken (`iter + index <= count`
on the way up, `iter <= index` on the way down), from which `NoAssertionFails` follows.
`TopComesFirst`: a path from any node to the root makes the root the first of all; pop and peek answer the root.

`HeapIsPriorityFifo`: the heap implements `PriorityFifo`. The order in which elements
arrived is not in the tree; the model keeps it as history, and the invariant relates the two. Every node stands for a
place of that sequence that holds its element, no two for the same, and of two nodes the older one stands
for the earlier place, unless `Order` has rolled over since the heap was last empty (`Standing`); the element that a pop has in
hand is of the highest priority and the oldest of it (`TakenIsForemost`). After `Order` has rolled over the sequence of
arrival tells nothing more within a priority, in the code as in the abstract queue, and the
theorem covers that part of the behaviour as well.

**`PriorityQueueProofs`** — any depth, size of slot, priorities and inputs. `PriorityQueueInvariant`:
with the slot that a push under way has taken counted in (`Taken`), the two ends tell how much of
the ring is in the pool (`Match`) and which places of it (`Holds`); the slots there, those in the
nodes of the heap and the one in hand are all different (`Apart`). Without the last of these it
would not be inductive: between two steps of a push the slot is neither in the pool nor in a node. A
turn of a loop of the heap moves nodes to places one to one (`MovedApart`), so the order of the heap is
not needed. `NoSlotIsShared` assumes `~ClearsQueued`, which the third finding shows is needed;
`IndexesAlwaysMatch` and `PriorityQueueTypeCorrect` do not.

`QueueIsPriorityFifo`: slots, ring and heap together implement `PriorityFifo`, the elements being
bytes with a priority. The heap's part is the heap's own theorem, lemma by lemma, by `INSTANCE`. What is
added (`Whole`) is that the slot of each element that has arrived and not left holds its bytes, that
those slots are apart, and that a call under way holds the bytes or the room it came with. An element that does not fit
into what the caller brings stays at its place. It assumes `~ClearsQueued` as above, that inputs are sequences and
that rooms are natural numbers.

**`MemoryCopierProofs`** — any modulus, limit, depth of queue, number of copies.
`RegionNeverLost`, `RegionIsExclusive`, `TimeoutComesOnTime`, `SuccessMeansCopied`,
`SourceStaysHeld`. The argument for the last two is that if no earlier copy is under way at
`Reset`, the only copy under way until the command ends is its own, the answer stored is its
answer, and it was stored before the release that ends the wait.

**`GeneratorProofs`**.
*Connections* — any files, components, connectors, connections. `AttachmentsAlwaysMatch`: with the types
of the slots added (`Typed`) `AttachmentsMatch` is inductive. What the argument rests on is that the next
connection to be made is one that is in no slot yet (`Connect` takes the first that `made` calls
"no"; that there is a first is `LeastExists`), so attaching it leaves a sequence without
repetitions, and that an invoker is attached only while its slot is empty. A connection whose second end refuses
leaves the two sides apart, which is why the agreement ends there and `AttachedOnce` does not.
`AssembliesLoadIfRight`: `IsRight` speaks of the files as a whole and the load reads them one after the
other, so the invariant (`Judged`) says at every step what the verdict will rest on. While nothing is refused, the
components taken are those the files name, without clashes, and the connections made are right by themselves and
beside each other (`Sound`); a step that refuses has met what makes the whole wrong.

*Ids* — any suites, bases, ids, dependencies. `IdsAlwaysLeadBack`. The invariant
`Numbering` says what is entered by the turn of each pass (`Entering`), that what the dictionary
holds leads back (`Leads`), that suites are numbered without repetition (`OwnApart`) and completely (`Whole`), and
that no id is too large (`InReach`), by which the dictionary is bounded and an open base exists
(`OpenBaseIsBase`). It is assumed that bases begin at 1, since the code takes an id of 0 for none.
`RefusalsHaveCauses` (`Refusing`): ids follow from bases (`IdsFollow`), and before any base is chosen the bases and
the dictionary hold only what is written (`GivenFirst`), so that what is refused until then is refused for that. That
a chosen base fits whenever there is room needs counting: each id taken keeps a suite of *n* entities from
at most *n* bases (`FewBlock`), so the lowest open one is as low as the room that `RoomForAll` asks for.

*Ranges* — any types packed into each other, any number of processes. `RangesHold`: what the cache keeps
of a name was reported for a type that may share the name, and all that may share it mean the same by
it (`KeptRight`, `SharedAlike`); what a process holds of a field is the field's own range, and a load
that the cache has served in part has told each field it has done with, and depends on a report of it (`ProcessRight`).
Any call of the database may fail.

*Enumerations* — any literals, of which some give an integer. `NumbersAreKept`. The numbering, taken up to a
literal, has every number below the next one in use, so that what it fills in is what is free, in order
(`NumberedUpTo`). That the sort by number then loses none is counted: the place of a literal is how many are not
behind it, and as no two numbers are equal there is one literal at each place (`SortedBy`).

*Sequences* — any number of sequences, any calls, in whatever order the search takes them. `SequencesAlwaysEnd`: of
the suites whose steps resolve, one is refused just when it has a set of sequences each of which waits for another
of the set. What the search has done with waits for nothing that it has not done with, and
what it is on waits for what comes next on the way (`VisitWith`); a way cannot be longer than there are sequences, so
the search is whole within its bound. Names of sequences are taken to differ by more than the case of
their letters (`SequencesOf`), since by these the code finds them.

*Types in order* — any types, of which none is made of itself, however indirectly (`TypesMade`: a part ranks lower
than the whole; the load of a type ends for no others). `TypesAlwaysComeFirst`.
There is a search of each type that goes no deeper than its rank, and it leaves a list that is without repetition and
closed (`Good`).

**`BuildProofs`**.
*Sessions* — any finite set of targets, any number of looks. `SessionAlwaysKept`. The
part that makes it inductive is `LooksAreLast`: a script that has looked for the last time has seen no
sign, so no target uses the directory, and by `GapIsOver` none is to come; and, for targets one at a
time, `OneAtATime`, by which the exit handler of a failed target meets no other.

*Cache of models* — any files and dependencies, any number of generators, loads that fail.
`LoadsAreCurrent`, for a cache of one session (`~Persistent`): what is in the database or was given out is made of
the files as they are, its own and all it rests on (`CacheKept`). A load waits for the one inside it, and has taken in all
that its file rests on but for the models it still wants (`StackRight`).

*Answers* — any directories, files, builds and questions at once, any times. The code promises less than
`build_what.py:70-72` says, and what it does keep is proved. `AnswersAreOld`: an answer that misses a change of its directory,
though nothing happened while it was asked, misses one that came after the directory was listed and before the kept database was
last written, by whomever. `WhatOfOneHolds`: with one directory that is before *its own list* was stored (`WhatIsCurrent`), since
nobody writes the database without storing it. The run `what_stale` shows that of
two directories the second does not hold; section 5 tells the trace for which it makes its exception.

*Databases* — any path, rules, generators and models, any order of the rounds. `DatabasesFill`. Any
two entries that the sources hold fit each other (`SourcesFit`), whatever order they came in; while the
generators of a directory run, all that is made of its files and of the models found so far is known but for what is
pending (`Generating`), and when nothing is, these models are closed under the generators and so hold all that lies
between a file and a product (`RoundsReachAll`); a directory that is behind is listed whole (`Listed`).

*Loading* — any assemblies in one another, components, submodels, any depth, loads that fail anywhere.
`SubmodelsAreReady`. The invariant (`Sound`) is about the cache: an assembly in it is as loaded whole, or as a part,
and then it is a part of some other; a submodel in it was told nothing, or told by its component, or told and finished
by an assembly that holds it. Loads nest, so it is proved of a load of depth *d* from that of depth *d - 1*. It
is assumed that nothing is generated from a submodel of an assembly that is a part of another (`AskedOfNoPart`):
without that the assembly that is cached before its load is complete would be found (see section 5).

*Build path* — any roots, walks and settings of the environment. `ProjectComesLast`: a directory is in the path when it
is found or given and not taken out, and once. What is kept of a path are the places where a
directory comes first; the roots are put after one another, so that an earlier place is of an earlier root.
`EnvironmentOf` says that a walk and a setting are sequences of directories, if any.

*Tables* — any assembly, tables, routers, petters. `EachParameterIsOnce` and `IndexesLead`. The first is assumed of
tables whose names are ordered by integers (`rank`) and of connectors indexed by natural numbers. For
watchdogs, and for the numbers of the tables, the argument is the counting of places again (`PlacedBy`).

*Objects and programs* — any finite project. `ProgramsAreAlwaysWhole`. A body is found for an open spec by how its file name ends
(`build_object.py:164`), and names that end as others are there in the repository: `labeled_queue.adb` and `priority_queue.adb` as
`queue.adb`, `protected_circular_buffer.adb` as `circular_buffer.adb`. So an object may depend on a body that is not the spec's. The
theorem bounds its dependencies from both sides: they have all that is reached over the bodies of open specs (`Reaches` with
`p.open`), and nothing that is not reached when each body named as one counts (`Reaches` with `NamedAsOpen`); of names only
that each ends as itself is assumed. Where no name ends as another the two are the same. A search has done with all but what it looks
at next and takes nothing from beyond the second bound; every round but the last finds a spec, so it ends, and what it has then is
closed over the bodies of open specs. All else is said of what can be reached (`Reached`): a batch reaches what each of its objects
does, and what a unit of a program with's is linked. `ProjectOf` assumes that the Ada sources of the
project with units that have a spec if they have anything to compile, which the search of `build_object.py` goes by (a
library subprogram with a body alone is outside).

### Only model-checked

- Liveness (`SleepingPusherReleased`, `AcceptedIsApplied`, `CommandEnds`, `DirectoryGoes`) and anything
  under fairness, which is outside what the prover decides.
- `InstancesRun` and `PacketsAreFilled`: what the code sorts and selects is `SetToSortSeq`, `SortSeq` and
  `SelectSeq` here, whose definitions (one of them recursive, one a `CHOOSE` over all orders with an operator as
  argument) the prover cannot expand.
- `ViewsKeepTheirMeaning`, `TypesAreFilled`, `DerivedTypesAreKnown`: rules within rules, types within types and
  models that have models generated are recursive operators, which are computed by induction over the data. The prover
  loses its arithmetic in modules that have them, and has no induction over what they go through.

### Translated, and used by no property

Some definitions say what the code hands on to templates or to other generators, which are not
modelled, so that there is nothing yet to relate them to: the packages a type, a suite or a
component includes (`TypeIncludes` and those beside it, `CommandsGive` and the six like it,
`BaseAdb`), the lists an assembly keeps of its parts (`ComponentKinds`, `ArrayedConnections`,
`IdBases`, `Additional`), the attributes of a type or an item (`Descriptor`, `Aspect`,
`RequiredAlignment`), what a sequence or a fault response is compiled to (`MayContinue`, `Timeout`,
`ResponseIds`, `LocalId`), and checks of single inputs (`SlotsTaken`, `ApidsTaken`, `MappingTaken`,
`ViewLoads`, `ReportTaken`, `UnitTests`). TLC evaluates them on no run.

## 5. What came out

Four runs end in a violation; each is a finding of `PROJECT.json` with the line it contradicts.

1. `Clear` of a labeled queue empties the queue and then resets the suspension objects, outside the
   protected action; a push in between has its signal undone. No component of the repository
   calls it.
2. `Discard_Staged` does not return a parameter to where it was before staging, if before staging it
   waited for its component: an accepted update is dropped though its command succeeded.
3. `Clear` of a priority queue resets both ends of the ring of free slots but not the ring: after a
   clear with elements queued a slot may be handed out twice.
4. The database of targets that is kept over sessions has one time for all directories. A question
   about one directory writes it, and what was added to another before that is then never looked for
   (`what_stale`).

Limits of what is promised, which the properties state as conditions because the code is
written so:

- Answers to the memory copier carry nothing that tells which copy they answer. After a timeout the
  answer of the earlier copy may be taken for the next one's (`clean` in `FinishedCopyWasMade`).
- After a timeout the copier gives the region back while the stuffer may be yet to read it, and
  `Force_Release` gives it to others by design (`timedOut`, `forced`). `Force_Release` starts the
  identifiers over, so the identifier of a loan that was forced back can fit a later one.
- The directories are listed at the beginning of `create`, and the database of targets is stored at its end
  (`create.py:615`). What is added to a directory in between is older than the database, which does not have it; so
  `redo what` answers without it until the directory changes again or a build lists it anew. No second directory is needed.
  `WhatIsCurrent` excepts the changes between a listing and its storing for this reason (the conjuncts with `listed` and
  `stored`): with `listed` in place of `stored`, TLC answers with a file that is added after `ListDirectory` and before
  `StoreTargets` and missed after `EndBuild`. The text at `build_what.py:70-72` makes no such exception.
- Two tables that validate related parameters of one component at the same time each validate
  against values the other has not accepted yet; together they may accept a pair that neither would.

Smaller differences between text and code that no run is about: `Make_Full` does not raise the high
water mark; `Pop` of more bytes than stored answers `Success` with fewer; `Clear` resets the heap's
high water mark, which is described as the highest ever. A memory map whose last item ends with the
memory is refused with the words that it "exceeds the last memory address", although it ends there
(`src/gen/models/memory_map.py:117`).

Met while modelling the generators and the build, where no text contradicts the code or the models
of the repository do not reach the case, and therefore recorded here and not as findings:

- *Ids and connections.* An id of 0 counts as none, so it is entered in no dictionary
  (`assembly.py:1080`); every model of the repository counts from 1, as do the Ada types of most bases. `connect_to` makes an exception for an index out of range and does not raise
  it. A subassembly is cached although its load is not complete (`assembly.py:547`); `SubmodelIsReady` is
  stated of models that are not asked for a part alone. `additional_types` loops over a stale `model`
  (`assembly.py:1287`).
- *Views.* Rules are parsed without `parseAll`, so that what follows a rule is ignored; the kinds
  of connectors that can be filtered lack `provide` and `modify`; `~(f & g)` is not `~f | ~g`, because each
  operand is pruned.
- *Types.* A field of variable length may name itself as its length; `memory_map` is one short in a
  comparison; `flattened_names` of an array drops the separator.
- *Tables and sequences.* The check for duplicates of extracted products is one for substrings; the
  watchdog counts slots that are not connected; a cycle of calls through two suites is not found.
- *Build.* A source of the project does not take the place of one of the same name, as the comment at `_setup.py:31-34` has it: it
  comes later in the path (`PathsEndWithProject`), and the databases refuse it (`Fits` in `Targets`). Of files whose names differ in case only, the last is meant. With a cache that outlives the
  session a model is marked before it is loaded. A target that fails removes the directory under targets that run
  beside it, so `SessionIsKept` speaks of sessions without failures or of one job. Two savers of the kept
  database share a temporary file. `_add_target` of `create.py` compares prefixes. In fast mode
  the bodies without a specification are missed, and headers of C sources are not followed.

## 6. Plan

The plan of the Python side is carried out. What is left, in this order; each entry names module, what
it composes, what it is checked against.

1. `ActiveComponent` — the generated base: `Enqueue` (drop, or wait with at most five retries),
   `Dispatch_Block`, `Dispatch_N`, `Dispatch_All`, `Stop_Task` and its quit element, and the task loop
   of `component.adb`, composed with `LabeledQueue`. Abstract specification: each message accepted is
   handled once and in order. It takes the place of the two passing `labeled_queue` runs.
2. `DoubleBufferStore` — two copies, the writes of a save and of `Init`, reboots between any
   two and clocks that start over. To prove: a reboot within a save leaves the other copy valid; to
   check: what is restored is what was saved last, with a clock that does not go back.
3. `CommandRouter` with a source and a destination — each command that was received gets one
   response, at whichever of the three queues is full.
4. `CommandSequencer` — engines, responses, loads and timeouts, against a router that may drop or
   delay. No response of one engine moves another; a late response is not taken for another command's,
   or where it is.
5. `ParameterTableRouter` — several destinations over the wait of `ProtectedObjects` and the abstract side of
   `Parameters`: the stored table changes only after all others took it.
6. `ArmedState` of the command protector and the two stuffers; `SequenceStore`; `EventLimiter`;
   `TaskWatchdog`; `FaultCorrection`; `TickDivider`.

7. The crash of a generator under a cache that outlives the session (`Persistent`), and failures
   beside running targets in `Sessions`: both are hazards without a property, since what should hold then
   is nowhere said.

Proofs planned: the laws of `Prune` in `Views`, on which `ViewsKeepTheirMeaning` rests; the
invariants of 2 and 5, and the step simulation of `ActiveComponent` by its abstract specification.

Modules to be proved about keep the present conventions: constants with named assumptions, one
action for a call, invariants that are conjunctions of named parts, no `RECURSIVE` operator.
