-------------------------- MODULE GeneratorFunctions --------------------------
(***************************************************************************)
(* What is true of the models that are functions of what they are given,   *)
(* whatever that is: `given` holds what one of them is given, and its kind *)
(* says which.  TLC takes each through the inputs of MCGenerators; the     *)
(* theorems are about any input.  Here are those of literals, sequences    *)
(* and types.                                                              *)
(***************************************************************************)

CONSTANTS
    None,                       \* nothing
    Lower(_), DefaultTimeout    \* CommandSequences

VARIABLE given

Literals == INSTANCE Enums
Calling == INSTANCE CommandSequences
Ordering == INSTANCE AssemblyLists

\* The literals of an enumeration keep the numbers they are given, and the
\* others get the lowest that are left, in their order (enums.py).
EnumsKeepNumbers == given.kind = "enum" => Literals!EnumsKeepNumbers(given.literals)

\* No sequence of a suite that resolves waits for its own end, over whatever
\* others, and a suite is refused for a cycle only when one does
\* (command_sequences.py, _check_deferred_call_cycles).
SequencesEnd == given.kind = "sequences" => Calling!SequencesEnd(given.assembly, given.suite)

\* The complex types of an assembly are listed, each once, before whatever is
\* made of them, since the ground system "must not ever load a type that
\* includes a type that hasn't yet been loaded" (assembly.py:1302).
TypesComeFirst == given.kind = "types" => Ordering!TypesComeFirst(given.madeOf, given.types)

===============================================================================
