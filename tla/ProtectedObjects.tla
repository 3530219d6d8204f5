--------------------------- MODULE ProtectedObjects --------------------------
(***************************************************************************)
(* The two protected objects between the tasks that copy memory.  Each     *)
(* operator is one protected action on the record of its object.           *)
(***************************************************************************)
EXTENDS Integers

-----------------------------------------------------------------------------
(* Protected_Memory_Arbiter of the Memory Manager                           *)
(* (src/components/memory_manager): whether the one memory region is on     *)
(* loan, and the identifier that the next loan is given.                    *)

CONSTANT Modulus    \* identifiers wrap here: 2^16 for an Unsigned_16

ASSUME ModulusAssumption == Modulus \in Nat \ {0}

Ids == 0 .. Modulus - 1

Arbiters == [state : {"Available", "In_Use"}, id : Ids]

NewArbiter == [state |-> "Available", id |-> 0]

\* Unsigned_16 addition and subtraction of one.
NextId(i) == IF i = Modulus - 1 THEN 0 ELSE i + 1
PreviousId(i) == IF i = 0 THEN Modulus - 1 ELSE i - 1

CanRequest(a) == a.state = "Available"

\* Request when the region is available; the loan is identified by a.id.
Requested(a) == [state |-> "In_Use", id |-> NextId(a.id)]

\* The identifier that takes the region back.
ExpectedId(a) == PreviousId(a.id)

\* Release: an unexpected identifier, or a region already back, changes nothing.
Released(a, id) ==
    IF a.state = "In_Use" /\ id = ExpectedId(a)
    THEN [a EXCEPT !.state = "Available"]
    ELSE a

\* Force_Release: available, no questions asked, and identifiers start over.
ForceReleased(a) == NewArbiter

-----------------------------------------------------------------------------
(* Wait_Release_Timeout_Counter_Object (src/core/task): one task waits on   *)
(* the entry, a second one releases it and a third one counts ticks and     *)
(* releases it with a timeout.  A protected action that opens the entry's   *)
(* barrier serves the waiting task before it ends, so a release met by a    *)
(* waiting task is spent at once: `waiting' is Wait'Count > 0.              *)

CONSTANT Limit      \* Timeout_Limit, set once by Init

ASSUME LimitAssumption == Limit \in Nat

SyncObjects == [doTimeout : BOOLEAN, doRelease : BOOLEAN, count : 0 .. Limit]

NewSync == [doTimeout |-> FALSE, doRelease |-> FALSE, count |-> 0]

\* Faulty: a release that came earlier is kept.
ResetCountOnly(s) == [s EXCEPT !.count = 0]

\* Reset forgets every release that came while nobody listened.
Reset(s) == [doTimeout |-> FALSE, doRelease |-> FALSE, count |-> 0]

\* The body of the entry Wait, once its barrier is open.
Served(s) == [s EXCEPT !.doRelease = FALSE]

Release(s, waiting) ==
    [doTimeout |-> FALSE, doRelease |-> ~waiting, count |-> 0]

\* Increment_Timeout_If_Waiting meets the limit.
TimesOut(s, waiting) == waiting /\ s.count >= Limit

\* Increment_Timeout_If_Waiting; a timeout serves the waiting task.
Ticked(s, waiting) ==
    IF TimesOut(s, waiting) THEN [s EXCEPT !.doTimeout = TRUE, !.count = 0]
    ELSE [s EXCEPT !.count = IF waiting THEN s.count + 1 ELSE 0]
==============================================================================
