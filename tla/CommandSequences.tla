-------------------------- MODULE CommandSequences --------------------------
(***************************************************************************)
(* The suites of command sequences of the simple command sequencer, as     *)
(* they are loaded and resolved in an assembly (command_sequences.py and   *)
(* the suites of commands and packets of the component).  A sequence is a  *)
(* command of the sequencer itself, so one sequence may call another; a    *)
(* call that is answered when the callee completes holds the frame of the  *)
(* caller, and a cycle of such calls must be refused.                      *)
(***************************************************************************)
EXTENDS Integers, Sequences, SequencesExt, FiniteSets, Functions

CONSTANTS None, Lower(_), DefaultTimeout

\* A sequence is [name, steps, waits, onFailure, timeout, response, argType],
\* where onFailure, timeout, response and argType may be None.  A step is
\* [command, sleep, ms, arg]: its command <<component, name>> or None, its
\* sleep and its arg each "none", "static" or "dynamic", the arg perhaps
\* "mixed".

MaxSleep == 2147483647

StepTaken(step, argType) ==
    /\ (step.command = None) # (step.sleep = "none")
    /\ step.sleep # "none" => step.arg = "none"
    /\ step.sleep = "static" => step.ms \in 0 .. MaxSleep
    /\ step.arg # "mixed"
    /\ "dynamic" \in {step.sleep, step.arg} => argType # None

MayContinue(seq) == seq.onFailure = TRUE

\* An abort that was asked for and could never be made is refused.
PromiseKept(seq) ==
    ~(/\ seq.onFailure = FALSE
      /\ ~seq.waits
      /\ \E i \in DOMAIN seq.steps : seq.steps[i].command # None)

SequenceTaken(seq) ==
    /\ Len(seq.steps) \in 1 .. 65535
    /\ seq.response \in {None, "start", "completion"}
    /\ \A i \in DOMAIN seq.steps : StepTaken(seq.steps[i], seq.argType)
    /\ PromiseKept(seq)

Timeout(suite, seq) ==
    CASE seq.timeout # None -> seq.timeout
      [] seq.timeout = None /\ suite.timeout # None -> suite.timeout
      [] OTHER -> DefaultTimeout

Deferred(seq) == seq.response = "completion"

SequenceNames(suite) == {suite.sequences[i].name : i \in DOMAIN suite.sequences}

Sequence(suite, name) ==
    suite.sequences[CHOOSE i \in DOMAIN suite.sequences : suite.sequences[i].name = name]

\* A sequence runs on a frame of the pool of its kind: a pool has frames
\* just when the suite has sequences of that kind.
PoolsFit(suite) ==
    LET Users(waits) == \E i \in DOMAIN suite.sequences : suite.sequences[i].waits = waits
    IN  /\ Users(TRUE) <=> suite.waitingFrames # 0
        /\ Users(FALSE) <=> suite.otherFrames # 0

Frames(suite) == suite.waitingFrames + suite.otherFrames

\* The summaries of all frames go in one packet.
MaxFrames(packetBytes, summaryBytes) == packetBytes \div summaryBytes

SuiteTaken(suite, maxFrames) ==
    /\ Frames(suite) \in 1 .. maxFrames
    /\ suite.sequences # <<>>
    /\ \A i \in DOMAIN suite.sequences : SequenceTaken(suite.sequences[i])
    /\ IsInjective([i \in DOMAIN suite.sequences |-> suite.sequences[i].name])
    /\ PoolsFit(suite)

-----------------------------------------------------------------------------
(* In an assembly, whose instances are [type, config, commands]: config the *)
(* name of the suite it was initialized with or None, commands a function   *)
(* to the type of their argument or None.                                   *)

SequencerType == "Simple_Command_Sequencer"

Configured(instance, suite) ==
    /\ instance.type = SequencerType
    /\ instance.config # None
    /\ Lower(instance.config) = Lower(suite.name)

\* Each sequence becomes a command of the sequencer, beside those built in.
Injected(instance, suite) ==
    [c \in DOMAIN instance.commands \cup SequenceNames(suite) |->
        IF c \in DOMAIN instance.commands THEN instance.commands[c]
        ELSE Sequence(suite, c).argType]
NamesFree(instance, suite) == DOMAIN instance.commands \cap SequenceNames(suite) = {}

\* A command that is given an arg has a type for it; without, resolve_arg_type
\* fails as resolve_dynamic_arg_type does.
StepResolves(assembly, step) ==
    step.command # None =>
        /\ step.command[1] \in DOMAIN assembly
        /\ DOMAIN assembly[step.command[1]].commands # {}
        /\ step.command[2] \in DOMAIN assembly[step.command[1]].commands
        /\ step.arg # "none" => assembly[step.command[1]].commands[step.command[2]] # None

\* The sequence of this suite that a command names, if any: letters may
\* differ in case, and of two names that do only in case the last is meant.
Called(suite, name) ==
    LET same == {i \in DOMAIN suite.sequences : Lower(suite.sequences[i].name) = Lower(name)}
    IN  IF same = {} THEN None
        ELSE suite.sequences[CHOOSE i \in same : \A j \in same : j <= i].name

\* Faulty: only the first step of a sequence is looked at.
CallsOfFirst(assembly, suite, name) ==
    LET step == Sequence(suite, name).steps[1]
    IN  IF step.command # None /\ Configured(assembly[step.command[1]], suite)
        THEN <<Called(suite, step.command[2])>>
        ELSE <<>>

\* What each step of a sequence calls that holds its frame until it is
\* answered, or None.
Calls(assembly, suite, name) ==
    LET seq == Sequence(suite, name)
    IN  [i \in DOMAIN seq.steps |->
            LET command == seq.steps[i].command
            IN  IF command # None /\ seq.waits /\ Configured(assembly[command[1]], suite)
                THEN Called(suite, command[2])
                ELSE None]

-----------------------------------------------------------------------------
(* The search for a cycle: depth first over the deferred sequences, with    *)
(* the sequences on the path and those that are finished.  The result tells *)
(* whether a cycle was closed and what has been finished.                   *)

ClosesCycle(callee, path) == callee \in Range(path)

\* What one call adds to what is found on the path to here.
Follow(visit, calls, here, found, callee) ==
    IF found.cycle \/ callee \notin DOMAIN calls THEN found
    ELSE IF ClosesCycle(callee, here) THEN [found EXCEPT !.cycle = TRUE]
    ELSE IF callee \in found.finished THEN found
    ELSE visit[callee][here][found.finished]

\* The calls of a sequence are followed in turn, and it is finished.
VisitWith(visit, calls, name, path, finished) ==
    LET here == Append(path, name)
        after[k \in 0 .. Len(calls[name])] ==
            IF k = 0 THEN [cycle |-> FALSE, finished |-> finished]
            ELSE Follow(visit, calls, here, after[k - 1], calls[name][k])
    IN  [after[Len(calls[name])] EXCEPT !.finished = @ \cup {name}]

\* No path is longer than there are sequences.
Visit(calls) ==
    LET visit[deeper \in 0 .. Cardinality(DOMAIN calls)] ==
            [name \in DOMAIN calls |-> [path \in Seq(DOMAIN calls) |->
                [finished \in SUBSET DOMAIN calls |->
                    IF deeper = 0 THEN [cycle |-> FALSE, finished |-> finished]
                    ELSE VisitWith(visit[deeper - 1], calls, name, path, finished)]]]
    IN  visit[Cardinality(DOMAIN calls)]

DeferredNames(suite) == {name \in SequenceNames(suite) : Deferred(Sequence(suite, name))}

DeferredCalls(assembly, suite) ==
    [name \in DeferredNames(suite) |-> Calls(assembly, suite, name)]

\* The search begins anew with each sequence that it has not come to.
Search(calls, names) ==
    LET after[k \in 0 .. Len(names)] ==
            IF k = 0 THEN [cycle |-> FALSE, finished |-> {}]
            ELSE LET found == after[k - 1]
                 IN  IF found.cycle \/ names[k] \in found.finished THEN found
                     ELSE Visit(calls)[names[k]][<<>>][found.finished]
    IN  after[Len(names)]

CycleFound(assembly, suite) ==
    Search(DeferredCalls(assembly, suite), SetToSeq(DeferredNames(suite))).cycle

StepsResolve(assembly, suite) ==
    \A i \in DOMAIN suite.sequences :
        \A j \in DOMAIN suite.sequences[i].steps : StepResolves(assembly, suite.sequences[i].steps[j])

SuiteResolves(assembly, suite) == StepsResolve(assembly, suite) /\ ~CycleFound(assembly, suite)

\* The sequences for whose end another waits, by the commands of its steps.
Awaited(assembly, suite, name) ==
    {callee \in DeferredNames(suite) :
        /\ Sequence(suite, name).waits
        /\ \E i \in DOMAIN Sequence(suite, name).steps :
              LET command == Sequence(suite, name).steps[i].command
              IN  /\ command # None
                  /\ Configured(assembly[command[1]], suite)
                  /\ Lower(command[2]) = Lower(callee)}

\* Of any sequences of a suite that resolves there is one that waits for the
\* end of none of them, so that each can come to its end; and when the suite
\* is refused although its steps resolve, some do wait for each other.
SequencesEnd(assembly, suite) ==
    StepsResolve(assembly, suite) =>
        (SuiteResolves(assembly, suite) <=>
            \A names \in SUBSET SequenceNames(suite) : names # {} =>
                \E name \in names : Awaited(assembly, suite, name) \cap names = {})

\* A sequencer whose frames are more or fewer than the connections that the
\* answers come by is told of, and loads.
EnginesWarned(instance, suite, responses) ==
    Configured(instance, suite) /\ Len(SelectSeq(responses, LAMBDA r : r # None)) # Frames(suite)

-----------------------------------------------------------------------------
(* The slots of the sequence store: a slot is a length in bytes or a name   *)
(* of one that is not known here.                                           *)

SlotsTaken(slots, headerBytes, summaryBytes, packetBytes) ==
    /\ \A i \in DOMAIN slots : slots[i] # None => slots[i] >= headerBytes
    /\ Len(slots) * summaryBytes <= packetBytes
=============================================================================
