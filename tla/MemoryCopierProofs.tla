-------------------------- MODULE MemoryCopierProofs -------------------------
(***************************************************************************)
(* The region that two components borrow, the answer that the copier waits *)
(* for and its timeout, whatever the timeout's limit, the depth of the     *)
(* stuffer's queue, the number of copies and the width of the identifiers. *)
(***************************************************************************)
EXTENDS MemoryCopier, TLAPS, SequenceTheorems

Actions ==
    {"granted", "reset", "sent", "waiting", "woken", "return"}

\* The copier has the region to give back in the middle of a command only.
CopierBorrows == pc \in Actions <=> held[Copier] # NoId

-----------------------------------------------------------------------------
(* The arbiter.                                                            *)

\* Identifiers stay in their range, and after a request the expected one is
\* the one that was lent.
LEMMA IdFacts ==
    ASSUME NEW i \in Ids
    PROVE  /\ NextId(i) \in Ids
           /\ PreviousId(i) \in Ids
           /\ PreviousId(NextId(i)) = i
BY ModulusAssumption DEF Ids, NextId, PreviousId

LEMMA NewArbiterFacts == NewArbiter \in Arbiters
BY ModulusAssumption DEF NewArbiter, Arbiters, Ids

\* What a request does to the arbiter.
LEMMA RequestedFacts ==
    ASSUME NEW a \in Arbiters
    PROVE  /\ Requested(a) \in Arbiters
           /\ Requested(a).state = "In_Use"
           /\ ExpectedId(Requested(a)) = a.id
           /\ a.id \in Ids
BY IdFacts DEF Arbiters, Requested, ExpectedId

\* What a release does to the arbiter.
LEMMA ReleasedFacts ==
    ASSUME NEW a \in Arbiters, NEW id
    PROVE  /\ Released(a, id) \in Arbiters
           /\ ExpectedId(Released(a, id)) = ExpectedId(a)
           /\ ExpectedId(a) \in Ids
           /\ a.state = "Available" => Released(a, id) = a
           /\ a.state = "In_Use" =>
                (Released(a, id).state = "Available" <=> id = ExpectedId(a))
           /\ a.state \in {"Available", "In_Use"}
BY IdFacts DEF Arbiters, Released, ExpectedId

\* The synchronization object keeps its type.
LEMMA SyncFacts ==
    ASSUME NEW s \in SyncObjects, NEW w \in BOOLEAN
    PROVE  /\ NewSync \in SyncObjects
           /\ Reset(s) \in SyncObjects
           /\ Served(s) \in SyncObjects
           /\ Release(s, w) \in SyncObjects
           /\ Ticked(s, w) \in SyncObjects
<1>1. PICK dt, dr \in BOOLEAN, n \in 0 .. Limit :
        s = [doTimeout |-> dt, doRelease |-> dr, count |-> n]
  BY DEF SyncObjects
<1>2. NewSync \in SyncObjects /\ Reset(s) \in SyncObjects
  BY LimitAssumption DEF SyncObjects, NewSync, Reset
<1>3. Served(s) \in SyncObjects
  BY <1>1 DEF SyncObjects, Served
<1>4. Release(s, w) \in SyncObjects
  BY LimitAssumption DEF SyncObjects, Release
<1>5. Ticked(s, w) \in SyncObjects
  <2>1. CASE TimesOut(s, w)
    <3>1. Ticked(s, w) = [doTimeout |-> TRUE, doRelease |-> dr, count |-> 0]
      BY <1>1, <2>1 DEF Ticked
    <3> QED BY <3>1, LimitAssumption DEF SyncObjects
  <2>2. CASE ~TimesOut(s, w)
    <3>1. PICK m : m = IF w THEN n + 1 ELSE 0
      OBVIOUS
    <3>2. m \in 0 .. Limit
      BY <1>1, <2>2, <3>1, LimitAssumption DEF TimesOut
    <3>3. Ticked(s, w) = [doTimeout |-> dt, doRelease |-> dr, count |-> m]
      BY <1>1, <2>2, <3>1 DEF Ticked
    <3> QED BY <3>2, <3>3 DEF SyncObjects
  <2> QED BY <2>1, <2>2
<1> QED BY <1>2, <1>3, <1>4, <1>5

-----------------------------------------------------------------------------
(* Types.                                                                  *)

\* Borrowing and giving back keep the type of the region's state.
LEMMA BorrowType ==
    ASSUME TypeOK, NEW b \in Borrowers, Borrow(b)
    PROVE  /\ arbiter' \in Arbiters
           /\ held' \in [Borrowers -> Ids \cup {NoId}]
BY RequestedFacts DEF TypeOK, Borrow

LEMMA GiveBackType ==
    ASSUME TypeOK, NEW b \in Borrowers, GiveBack(b)
    PROVE  /\ arbiter' \in Arbiters
           /\ held' \in [Borrowers -> Ids \cup {NoId}]
BY ReleasedFacts DEF TypeOK, GiveBack

LEMMA WaitingType == Waiting \in BOOLEAN
BY DEF Waiting

\* Initially every variable has its type.
LEMMA InitType == ASSUME Init PROVE TypeOK
<1>1. arbiter \in Arbiters
  BY NewArbiterFacts DEF Init
<1>2. sync \in SyncObjects
  BY LimitAssumption DEF Init, NewSync, SyncObjects
<1>3. inbox \in Seq(Copies \cup {Other}) /\ Len(inbox) <= Depth
  BY BoundsAssumption DEF Init
<1>4. /\ serial \in 0 .. MaxCopies
      /\ waited \in 0 .. Limit + 1
  BY BoundsAssumption, LimitAssumption DEF Init
<1> QED BY <1>1, <1>2, <1>3, <1>4 DEF Init, TypeOK, Statuses

\* Every step keeps the types; a copier that waits has waited Limit ticks at
\* most, so that one more is in range.
LEMMA TypeStep ==
    ASSUME TypeOK, TimeoutOnTime, [Next]_vars
    PROVE  TypeOK'
<1> USE DEF TypeOK
<1>1. Copier \in Borrowers /\ Manager \in Borrowers
  BY DEF Borrowers
<1>2. CASE RegionUnavailable
  BY <1>2, BoundsAssumption DEF RegionUnavailable, Commanded, Statuses, stufferVars
<1>3. CASE RequestRegion
  BY <1>1, <1>3, BorrowType, BoundsAssumption DEF RequestRegion, Commanded, Statuses, stufferVars
<1>4. CASE ResetSync
  <2>1. sync' \in SyncObjects
    BY <1>4, SyncFacts DEF ResetSync
  <2>2. clean' \in BOOLEAN /\ waited' \in 0 .. Limit + 1
    BY <1>4, LimitAssumption DEF ResetSync, NoneUnderWay
  <2> QED BY <1>4, <2>1, <2>2 DEF ResetSync, stufferVars
<1>5. CASE SendCopy
  <2>1. PICK q : q = inbox /\ q \in Seq(Copies \cup {Other}) /\ Len(q) <= Depth
    OBVIOUS
  <2>2. serial \in Copies \cup {Other}
    BY BoundsAssumption DEF Copies, Other
  <2>3. inbox' \in Seq(Copies \cup {Other}) /\ Len(inbox') <= Depth
    BY <1>5, <2>1, <2>2, BoundsAssumption DEF SendCopy
  <2> QED BY <1>5, <2>3 DEF SendCopy
<1>6. CASE Wait
  <2>1. sync' \in SyncObjects
    BY <1>6, SyncFacts DEF Wait
  <2>2. timedOut' \in BOOLEAN
    BY <1>6 DEF Wait, SyncObjects
  <2> QED BY <1>6, <2>1, <2>2 DEF Wait, stufferVars
<1>7. CASE CheckResponse
  BY <1>7 DEF CheckResponse, stufferVars, Statuses
<1>8. CASE ReturnRegion
  BY <1>1, <1>8, GiveBackType DEF ReturnRegion, stufferVars
<1>9. CASE Tick
  <2>1. sync' \in SyncObjects
    BY <1>9, SyncFacts, WaitingType DEF Tick
  <2>2. waited' \in 0 .. Limit + 1
    BY <1>9, LimitAssumption DEF Tick, TimeoutOnTime
  <2> QED BY <1>9, <2>1, <2>2 DEF Tick, stufferVars
<1>10. CASE WriteBegin
  BY <1>1, <1>10, BorrowType DEF WriteBegin, stufferVars, copierVars
<1>11. CASE WriteEnd
  BY <1>1, <1>11, GiveBackType DEF WriteEnd, stufferVars, copierVars
<1>12. CASE ForceRelease
  BY <1>12, NewArbiterFacts DEF ForceRelease, ForceReleased, stufferVars, copierVars
<1>13. CASE OtherArrives
  <2>1. inbox' \in Seq(Copies \cup {Other}) /\ Len(inbox') <= Depth
    BY <1>13, BoundsAssumption DEF OtherArrives
  <2> QED BY <1>13, <2>1 DEF OtherArrives, copierVars
<1>14. CASE TakeMessage
  <2>1. PICK q : q = inbox /\ q \in Seq(Copies \cup {Other}) /\ Len(q) <= Depth
    OBVIOUS
  <2>2. /\ inbox' \in Seq(Copies \cup {Other}) /\ Len(inbox') <= Depth
        /\ Head(inbox) \in Copies \cup {Other}
    BY <1>14, <2>1, HeadTailProperties, BoundsAssumption DEF TakeMessage
  <2>3. stuffer' \in {Idle} \cup Jobs
    BY <1>14, <2>2 DEF TakeMessage, Jobs, Statuses
  <2> QED BY <1>14, <2>2, <2>3 DEF TakeMessage, copierVars
<1>15. CASE MakeCopy
  <2>1. stuffer \in Jobs
    BY <1>15 DEF MakeCopy, Idle
  <2>2. stuffer' \in Jobs /\ copied' \in SUBSET Copies
    BY <1>15, <2>1 DEF MakeCopy, Jobs, Statuses
  <2> QED BY <1>15, <2>2 DEF MakeCopy, copierVars
<1>16. CASE SetResponse
  <2>1. stuffer \in Jobs
    BY <1>16 DEF SetResponse, Idle
  <2>2. stuffer' \in Jobs /\ response' \in Statuses
    BY <1>16, <2>1 DEF SetResponse, Jobs
  <2> QED BY <1>16, <2>2 DEF SetResponse, copierVars
<1>17. CASE Signal
  <2>1. sync' \in SyncObjects
    BY <1>17, SyncFacts, WaitingType DEF Signal
  <2>2. timedOut' \in BOOLEAN
    BY <1>17 DEF Signal
  <2>3. pc' \in {"idle", "granted", "reset", "sent", "waiting", "woken", "return"}
    BY <1>17 DEF Signal
  <2> QED BY <1>17, <2>1, <2>2, <2>3 DEF Signal
<1>18. CASE UNCHANGED vars
  BY <1>18 DEF vars
<1> QED
  BY <1>2, <1>3, <1>4, <1>5, <1>6, <1>7, <1>8, <1>9, <1>10, <1>11, <1>12,
     <1>13, <1>14, <1>15, <1>16, <1>17, <1>18 DEF Next, CopierStep

-----------------------------------------------------------------------------
(* The timeout.                                                            *)

\* From Reset to the wait the object is as Reset left it, a release apart;
\* in the wait its count is the number of ticks that the wait has lasted.
TimeoutInv ==
    /\ pc \in {"reset", "sent"} =>
            waited = 0 /\ ~timedOut /\ sync.count = 0 /\ ~sync.doTimeout
    /\ Waiting => waited = sync.count /\ ~timedOut
    /\ timedOut => waited = Limit + 1

\* The invariant holds at first, every step keeps it, and it is enough.
LEMMA TimeoutInit == ASSUME Init PROVE TimeoutInv
BY DEF Init, TimeoutInv, Waiting

LEMMA TimeoutImplied ==
    ASSUME TypeOK, TimeoutInv PROVE TimeoutOnTime
BY LimitAssumption DEF TypeOK, TimeoutInv, TimeoutOnTime, SyncObjects, Waiting

LEMMA TimeoutStep ==
    ASSUME TypeOK, TimeoutInv, [Next]_vars
    PROVE  TimeoutInv'
<1> USE DEF TimeoutInv, Waiting
<1>1. sync \in SyncObjects
  BY DEF TypeOK
<1>2. CASE RegionUnavailable \/ RequestRegion
  BY <1>2 DEF RegionUnavailable, RequestRegion, Commanded
<1>3. CASE ResetSync
  BY <1>3 DEF ResetSync, Reset
<1>4. CASE SendCopy \/ CheckResponse \/ ReturnRegion
  BY <1>4 DEF SendCopy, CheckResponse, ReturnRegion
<1>5. CASE Wait
  <2>1. sync'.count = sync.count
    BY <1>1, <1>5 DEF Wait, Served, SyncObjects
  <2>2. ~timedOut'
    BY <1>5 DEF Wait
  <2> QED BY <1>5, <2>1, <2>2 DEF Wait
<1>6. CASE Tick
  <2>1. CASE TimesOut(sync, Waiting)
    <3>1. waited = sync.count /\ pc = "waiting" /\ sync.count = Limit
      BY <1>1, <2>1, LimitAssumption DEF TimesOut, SyncObjects
    <3> QED BY <1>6, <2>1, <3>1 DEF Tick
  <2>2. CASE ~TimesOut(sync, Waiting) /\ pc = "waiting"
    <3>1. sync'.count = sync.count + 1
      BY <1>1, <1>6, <2>2 DEF Tick, Ticked, SyncObjects
    <3> QED BY <1>6, <2>2, <3>1 DEF Tick
  <2>3. CASE ~TimesOut(sync, Waiting) /\ pc # "waiting"
    <3>1. sync'.count = 0 /\ sync'.doTimeout = sync.doTimeout
      BY <1>1, <1>6, <2>3 DEF Tick, Ticked, SyncObjects
    <3> QED BY <1>6, <2>3, <3>1 DEF Tick
  <2> QED BY <2>1, <2>2, <2>3
<1>7. CASE WriteBegin \/ WriteEnd \/ ForceRelease
  BY <1>7 DEF WriteBegin, WriteEnd, ForceRelease, copierVars
<1>8. CASE OtherArrives \/ TakeMessage \/ MakeCopy \/ SetResponse
  BY <1>8 DEF OtherArrives, TakeMessage, MakeCopy, SetResponse, copierVars
<1>9. CASE Signal
  <2>1. sync'.count = 0 /\ ~sync'.doTimeout
    BY <1>9 DEF Signal, Release
  <2> QED BY <1>9, <2>1 DEF Signal
<1>10. CASE UNCHANGED vars
  BY <1>10 DEF vars
<1> QED
  BY <1>2, <1>3, <1>4, <1>5, <1>6, <1>7, <1>8, <1>9, <1>10 DEF Next, CopierStep

-----------------------------------------------------------------------------
(* The region.                                                             *)

\* Initially nobody has the region.
LEMMA RegionInit == ASSUME Init PROVE CopierBorrows /\ InUseHasOwner /\ OneBorrower
<1>1. Copier \in Borrowers /\ \A b \in Borrowers : held[b] = NoId
  BY DEF Init, Borrowers
<1>2. arbiter.state = "Available"
  BY DEF Init, NewArbiter
<1> QED
  BY <1>1, <1>2 DEF Init, CopierBorrows, Actions, InUseHasOwner, OneBorrower, Holders

\* Borrowing an available region keeps one borrower and makes it the owner.
LEMMA BorrowRegion ==
    ASSUME TypeOK, InUseHasOwner, OneBorrower, UNCHANGED forced,
           NEW b \in Borrowers, Borrow(b)
    PROVE  /\ InUseHasOwner'
           /\ OneBorrower'
           /\ held'[b] # NoId
           /\ \A c \in Borrowers : c # b => held'[c] = held[c]
<1>1. /\ arbiter.state = "Available"
      /\ arbiter'.state = "In_Use"
      /\ ExpectedId(arbiter') = arbiter.id
      /\ arbiter.id \in Ids
  BY RequestedFacts DEF TypeOK, Borrow, CanRequest
<1>2. /\ held'[b] = arbiter.id
      /\ \A c \in Borrowers : c # b => held'[c] = held[c]
  BY DEF TypeOK, Borrow
<1>3. InUseHasOwner'
  BY <1>1, <1>2 DEF InUseHasOwner
<1>4. OneBorrower'
  BY <1>1, <1>2 DEF OneBorrower, Holders
<1> QED BY <1>1, <1>2, <1>3, <1>4, BorrowersAssumption

\* Giving back leaves the region to the owner of its identifier, if that is
\* another borrower.
LEMMA GiveBackRegion ==
    ASSUME TypeOK, InUseHasOwner, OneBorrower, UNCHANGED forced,
           NEW b \in Borrowers, held[b] # NoId, GiveBack(b)
    PROVE  /\ InUseHasOwner'
           /\ OneBorrower'
           /\ held'[b] = NoId
           /\ \A c \in Borrowers : c # b => held'[c] = held[c]
<1>1. /\ ExpectedId(arbiter') = ExpectedId(arbiter)
      /\ ExpectedId(arbiter) \in Ids
      /\ arbiter.state \in {"Available", "In_Use"}
      /\ arbiter.state = "Available" => arbiter' = arbiter
      /\ arbiter.state = "In_Use" =>
            (arbiter'.state = "Available" <=> held[b] = ExpectedId(arbiter))
  BY ReleasedFacts DEF TypeOK, GiveBack
<1>2. /\ held'[b] = NoId
      /\ \A c \in Borrowers : c # b => held'[c] = held[c]
  BY DEF TypeOK, GiveBack
<1>3. InUseHasOwner'
  <2> SUFFICES ASSUME arbiter'.state = "In_Use"
               PROVE  \E c \in Borrowers : held'[c] = ExpectedId(arbiter')
    BY DEF InUseHasOwner
  <2>1. arbiter.state = "In_Use" /\ held[b] # ExpectedId(arbiter)
    BY <1>1
  <2>2. PICK c \in Borrowers : held[c] = ExpectedId(arbiter)
    BY <2>1 DEF InUseHasOwner
  <2>3. c # b
    BY <2>1, <2>2
  <2> QED BY <1>1, <1>2, <2>2, <2>3
<1>4. OneBorrower'
  BY <1>1, <1>2 DEF OneBorrower, Holders
<1> QED BY <1>2, <1>3, <1>4

\* Every step keeps the account of the region.
LEMMA RegionStep ==
    ASSUME TypeOK, CopierBorrows, InUseHasOwner, OneBorrower, [Next]_vars
    PROVE  CopierBorrows' /\ InUseHasOwner' /\ OneBorrower'
<1>1. Copier \in Borrowers /\ Manager \in Borrowers /\ Copier # Manager
  BY BorrowersAssumption DEF Borrowers
<1>2. CASE RequestRegion
  <2>1. Borrow(Copier) /\ pc' \in Actions /\ UNCHANGED forced
    BY <1>2 DEF RequestRegion, Actions
  <2> QED BY <1>1, <2>1, BorrowRegion DEF CopierBorrows
<1>3. CASE ReturnRegion
  <2>1. /\ GiveBack(Copier) /\ pc' \notin Actions /\ UNCHANGED forced
        /\ held[Copier] # NoId
    BY <1>3 DEF ReturnRegion, Actions, CopierBorrows
  <2> QED BY <1>1, <2>1, GiveBackRegion DEF CopierBorrows
<1>4. CASE WriteBegin
  <2>1. Borrow(Manager) /\ UNCHANGED <<forced, pc>>
    BY <1>4 DEF WriteBegin, copierVars
  <2> QED BY <1>1, <2>1, BorrowRegion DEF CopierBorrows
<1>5. CASE WriteEnd
  <2>1. GiveBack(Manager) /\ held[Manager] # NoId /\ UNCHANGED <<forced, pc>>
    BY <1>5 DEF WriteEnd, copierVars
  <2> QED BY <1>1, <2>1, GiveBackRegion DEF CopierBorrows
<1>6. CASE ForceRelease
  BY <1>6 DEF ForceRelease, ForceReleased, NewArbiter, copierVars, CopierBorrows,
              InUseHasOwner, OneBorrower
<1>7. CASE /\ UNCHANGED <<arbiter, held, forced>>
           /\ (pc \in Actions <=> pc' \in Actions)
  BY <1>7 DEF CopierBorrows, InUseHasOwner, OneBorrower, Holders
<1>8. CASE RegionUnavailable
  BY <1>7, <1>8 DEF RegionUnavailable
<1>9. CASE ResetSync \/ SendCopy \/ Wait \/ CheckResponse
  BY <1>7, <1>9 DEF ResetSync, SendCopy, Wait, CheckResponse, Actions
<1>10. CASE Tick
  BY <1>7, <1>10 DEF Tick, TimesOut, Waiting, Actions
<1>11. CASE OtherArrives \/ TakeMessage \/ MakeCopy \/ SetResponse
  BY <1>7, <1>11 DEF OtherArrives, TakeMessage, MakeCopy, SetResponse, copierVars
<1>12. CASE Signal
  BY <1>7, <1>12 DEF Signal, Waiting, Actions
<1>13. CASE UNCHANGED vars
  BY <1>7, <1>13 DEF vars
<1> QED
  BY <1>2, <1>3, <1>4, <1>5, <1>6, <1>8, <1>9, <1>10, <1>11, <1>12, <1>13
     DEF Next, CopierStep

-----------------------------------------------------------------------------
(* The answer.                                                             *)

\* The copies under way are at most one, and it is the one being waited for.
OnlyThisUnderWay ==
    /\ \A i \in DOMAIN inbox :
            inbox[i] # Other => inbox[i] = serial /\ stuffer.phase = "idle"
    /\ \A i, j \in DOMAIN inbox :
            inbox[i] # Other /\ inbox[j] # Other => i = j
    /\ stuffer.phase # "idle" => stuffer.copy = serial

\* The last answer was to this copy, and it does not lie.
Answered == NoneUnderWay /\ (response = "Success" => serial \in copied)

\* The stuffer answers Success for copies that it made.
StufferHonest ==
    /\ stuffer.phase \in {"answer", "signal"} /\ stuffer.status = "Success" =>
            stuffer.copy \in copied
    /\ stuffer.phase = "signal" => response = stuffer.status

\* What a copier that began to listen with no copy under way may rely on.
CleanInv ==
    clean =>
        /\ pc = "reset" => NoneUnderWay /\ ~sync.doRelease
        /\ pc \in {"sent", "waiting"} => OnlyThisUnderWay
        /\ pc = "sent" /\ sync.doRelease => Answered
        /\ pc = "woken" /\ ~timedOut => Answered
        /\ pc \in {"idle", "granted", "return"} /\ ~timedOut => NoneUnderWay
        /\ pc = "return" /\ result = "Success" => serial \in copied

CopyInv == StufferHonest /\ CleanInv

LEMMA CopyInit == ASSUME Init PROVE CopyInv
<1>1. stuffer.phase = "idle" /\ DOMAIN inbox = {}
  BY DEF Init, Idle
<1> QED BY <1>1 DEF Init, CopyInv, StufferHonest, CleanInv, NoneUnderWay

\* The invariant gives both properties.
LEMMA CopyImplied ==
    ASSUME CopyInv, TypeOK, TimeoutInv, CopierBorrows
    PROVE  FinishedCopyWasMade /\ SourceHeldWhileCopied
<1>1. FinishedCopyWasMade
  BY DEF CopyInv, CleanInv, FinishedCopyWasMade
<1>2. SourceHeldWhileCopied
  <2> SUFFICES ASSUME clean, stuffer.phase = "copying", ~timedOut
               PROVE  /\ held[Copier] # NoId /\ stuffer.copy = serial
                      /\ pc \in {"sent", "waiting"}
    BY DEF SourceHeldWhileCopied
  <2>1. ~NoneUnderWay
    BY DEF NoneUnderWay
  <2>2. pc \in {"sent", "waiting"}
    BY <2>1 DEF CopyInv, CleanInv, Answered, TypeOK
  <2>3. held[Copier] # NoId
    BY <2>2 DEF CopierBorrows, Actions
  <2>4. stuffer.copy = serial
    BY <2>2 DEF CopyInv, CleanInv, OnlyThisUnderWay
  <2> QED BY <2>2, <2>3, <2>4
<1> QED BY <1>1, <1>2

\* Another message on the queue is not a copy under way.
LEMMA OtherArrivesFacts ==
    ASSUME TypeOK, OtherArrives
    PROVE  /\ NoneUnderWay => NoneUnderWay'
           /\ OnlyThisUnderWay => OnlyThisUnderWay'
<1>1. PICK q : q = inbox /\ q \in Seq(Copies \cup {Other})
  BY DEF TypeOK
<1>2. /\ DOMAIN inbox' = DOMAIN q \cup {Len(q) + 1}
      /\ \A i \in DOMAIN inbox' : inbox'[i] # Other => i \in DOMAIN q /\ inbox'[i] = q[i]
      /\ UNCHANGED <<stuffer, serial>>
  BY <1>1 DEF OtherArrives, copierVars, Other
<1> QED BY <1>1, <1>2 DEF NoneUnderWay, OnlyThisUnderWay

\* Taking a message from the queue brings no copy under way that was not.
LEMMA TakeMessageFacts ==
    ASSUME TypeOK, TakeMessage
    PROVE  /\ NoneUnderWay => NoneUnderWay'
           /\ OnlyThisUnderWay => OnlyThisUnderWay'
           /\ StufferHonest => StufferHonest'
<1>1. PICK q : q = inbox /\ q \in Seq(Copies \cup {Other}) /\ q # <<>>
  BY DEF TypeOK, TakeMessage
<1>2. /\ stuffer.phase = "idle"
      /\ 1 \in DOMAIN q /\ Head(q) = q[1]
      /\ \A i \in DOMAIN inbox' : i + 1 \in DOMAIN q /\ i + 1 # 1 /\ inbox'[i] = q[i + 1]
      /\ \A i, j \in DOMAIN inbox' : i + 1 = j + 1 => i = j
      /\ UNCHANGED serial
  BY <1>1, HeadTailProperties DEF TakeMessage, copierVars
<1>3. CASE Head(q) = Other
  <2>1. UNCHANGED <<stuffer, copied, response>>
    BY <1>1, <1>3 DEF TakeMessage
  <2> QED BY <1>1, <1>2, <2>1 DEF NoneUnderWay, OnlyThisUnderWay, StufferHonest
<1>4. CASE Head(q) # Other
  <2>1. /\ stuffer'.phase # "idle" /\ stuffer'.phase # "signal"
        /\ stuffer'.copy = q[1] /\ stuffer'.status = "Failure"
    BY <1>1, <1>2, <1>4 DEF TakeMessage
  <2>2. ~NoneUnderWay
    BY <1>1, <1>2, <1>4 DEF NoneUnderWay
  <2>3. ASSUME OnlyThisUnderWay PROVE OnlyThisUnderWay'
    <3>1. \A i \in DOMAIN inbox' : inbox'[i] = Other
      BY <1>1, <1>2, <1>4, <2>3 DEF OnlyThisUnderWay
    <3>2. q[1] = serial
      BY <1>1, <1>2, <1>4, <2>3 DEF OnlyThisUnderWay
    <3> QED BY <1>2, <2>1, <3>1, <3>2 DEF OnlyThisUnderWay, Other
  <2> QED BY <2>1, <2>2, <2>3 DEF StufferHonest
<1> QED BY <1>3, <1>4

\* Sending is what puts this copy, and no other, under way.
LEMMA SendCopyFacts ==
    ASSUME TypeOK, SendCopy, NoneUnderWay PROVE OnlyThisUnderWay'
<1>1. PICK q : q = inbox /\ q \in Seq(Copies \cup {Other})
  BY DEF TypeOK
<1>2. /\ \A i \in DOMAIN inbox' :
            inbox'[i] # Other => i = Len(q) + 1 /\ inbox'[i] = serial
      /\ UNCHANGED <<stuffer, serial>>
      /\ stuffer.phase = "idle"
  BY <1>1 DEF SendCopy, NoneUnderWay
<1> QED BY <1>2 DEF OnlyThisUnderWay, Other

\* Every step keeps what the copier may rely on.
LEMMA CopyStep ==
    ASSUME TypeOK, TimeoutInv, CopyInv, [Next]_vars
    PROVE  CopyInv'
<1> USE DEF CopyInv, CleanInv
<1>1. CASE RegionUnavailable
  BY <1>1 DEF RegionUnavailable, Commanded, stufferVars, StufferHonest, NoneUnderWay
<1>2. CASE RequestRegion
  BY <1>2 DEF RequestRegion, Commanded, stufferVars, StufferHonest, NoneUnderWay
<1>3. CASE ResetSync
  BY <1>3 DEF ResetSync, Reset, stufferVars, StufferHonest, NoneUnderWay
<1>4. CASE SendCopy
  <2>1. StufferHonest'
    BY <1>4 DEF SendCopy, StufferHonest
  <2>2. clean' => OnlyThisUnderWay' /\ ~sync'.doRelease /\ pc' = "sent"
    BY <1>4, SendCopyFacts DEF SendCopy
  <2>3. pc' = "sent"
    BY <1>4 DEF SendCopy
  <2> QED BY <2>1, <2>2, <2>3
<1>5. CASE Wait
  <2>1. /\ UNCHANGED <<clean, response, serial, copied, inbox, stuffer, result>>
        /\ pc = "sent"
    BY <1>5 DEF Wait, stufferVars
  <2>2. /\ NoneUnderWay' = NoneUnderWay /\ OnlyThisUnderWay' = OnlyThisUnderWay
        /\ Answered' = Answered
        /\ StufferHonest'
    BY <2>1 DEF StufferHonest, NoneUnderWay, OnlyThisUnderWay, Answered
  <2>3. \/ sync.doRelease /\ pc' = "woken"
        \/ pc' = "waiting"
    BY <1>5 DEF Wait
  <2> QED BY <2>1, <2>2, <2>3
<1>6. CASE CheckResponse
  <2>1. /\ UNCHANGED <<clean, response, serial, copied, inbox, stuffer, timedOut>>
        /\ pc = "woken" /\ pc' = "return"
        /\ result' = "Success" => ~timedOut /\ response = "Success"
    BY <1>6 DEF CheckResponse, stufferVars
  <2> QED BY <2>1 DEF StufferHonest, NoneUnderWay, Answered
<1>7. CASE ReturnRegion
  BY <1>7 DEF ReturnRegion, stufferVars, StufferHonest, NoneUnderWay
<1>8. CASE Tick
  <2>1. /\ UNCHANGED <<clean, response, serial, copied, inbox, stuffer, result>>
        /\ sync'.doRelease = sync.doRelease
        /\ \/ UNCHANGED <<pc, timedOut>>
           \/ pc' = "woken" /\ timedOut'
    <3>1. sync \in SyncObjects
      BY DEF TypeOK
    <3> QED BY <1>8, <3>1 DEF Tick, Ticked, SyncObjects, stufferVars
  <2>2. /\ NoneUnderWay' = NoneUnderWay /\ OnlyThisUnderWay' = OnlyThisUnderWay
        /\ Answered' = Answered
        /\ StufferHonest'
    BY <2>1 DEF StufferHonest, NoneUnderWay, OnlyThisUnderWay, Answered
  <2>3. CASE UNCHANGED <<pc, timedOut>>
    BY <2>1, <2>2, <2>3
  <2>4. CASE pc' = "woken" /\ timedOut'
    BY <2>2, <2>4
  <2> QED BY <2>1, <2>3, <2>4
<1>9. CASE WriteBegin \/ WriteEnd \/ ForceRelease \/ UNCHANGED vars
  <2>1. UNCHANGED <<clean, response, serial, copied, inbox, stuffer, result, pc, timedOut, sync>>
    BY <1>9 DEF WriteBegin, WriteEnd, ForceRelease, copierVars, stufferVars, vars
  <2> QED BY <2>1 DEF StufferHonest, NoneUnderWay, OnlyThisUnderWay, Answered
<1>10. CASE OtherArrives \/ TakeMessage
  <2>1. UNCHANGED <<clean, response, serial, copied, result, pc, timedOut, sync>>
    BY <1>10 DEF OtherArrives, TakeMessage, copierVars
  <2>2. /\ NoneUnderWay => NoneUnderWay'
        /\ OnlyThisUnderWay => OnlyThisUnderWay'
        /\ StufferHonest'
    BY <1>10, OtherArrivesFacts, TakeMessageFacts DEF OtherArrives, StufferHonest
  <2>3. Answered => Answered'
    BY <2>1, <2>2 DEF Answered
  <2> QED BY <2>1, <2>2, <2>3
<1>11. CASE MakeCopy \/ SetResponse
  <2>1. /\ stuffer \in Jobs
        /\ stuffer'.phase # "idle" /\ stuffer'.copy = stuffer.copy
        /\ UNCHANGED <<clean, serial, result, pc, timedOut, sync, inbox>>
        /\ copied \subseteq copied'
    <3>1. stuffer.phase # "idle"
      BY <1>11 DEF MakeCopy, SetResponse
    <3>2. stuffer \in Jobs
      BY <3>1 DEF TypeOK, Idle
    <3>3. stuffer'.phase # "idle" /\ stuffer'.copy = stuffer.copy
      BY <1>11, <3>2 DEF MakeCopy, SetResponse, Jobs
    <3>4. /\ UNCHANGED <<clean, serial, result, pc, timedOut, sync, inbox>>
          /\ copied \subseteq copied'
      BY <1>11 DEF MakeCopy, SetResponse, copierVars
    <3> QED BY <3>2, <3>3, <3>4
  <2>2. ~NoneUnderWay
    BY <1>11 DEF MakeCopy, SetResponse, NoneUnderWay
  <2>3. OnlyThisUnderWay => OnlyThisUnderWay'
    BY <2>1, <2>2 DEF OnlyThisUnderWay, Jobs
  <2>4. StufferHonest'
    BY <1>11, <2>1 DEF MakeCopy, SetResponse, StufferHonest, Jobs
  <2> QED BY <2>1, <2>2, <2>3, <2>4 DEF Answered
<1>12. CASE Signal
  <2>1. /\ stuffer.phase = "signal" /\ stuffer' = Idle
        /\ UNCHANGED <<clean, response, serial, copied, inbox, result>>
        /\ \/ pc = "waiting" /\ pc' = "woken" /\ ~timedOut'
           \/ pc # "waiting" /\ UNCHANGED <<pc, timedOut>>
    BY <1>12 DEF Signal, Waiting
  <2>2. ~NoneUnderWay
    BY <2>1 DEF NoneUnderWay
  <2>3. StufferHonest'
    BY <2>1 DEF StufferHonest, Idle
  <2>4. ASSUME OnlyThisUnderWay PROVE OnlyThisUnderWay' /\ Answered'
    BY <2>1, <2>4 DEF OnlyThisUnderWay, Answered, NoneUnderWay, Idle, StufferHonest
  <2>5. CASE pc = "waiting" /\ pc' = "woken" /\ ~timedOut'
    BY <2>1, <2>3, <2>4, <2>5
  <2>6. CASE pc = "sent" /\ UNCHANGED <<pc, timedOut>>
    BY <2>1, <2>3, <2>4, <2>6
  <2>7. CASE pc \notin {"sent", "waiting"} /\ UNCHANGED <<pc, timedOut>>
    BY <2>1, <2>2, <2>3, <2>7 DEF Answered
  <2> QED BY <2>1, <2>5, <2>6, <2>7
<1> QED
  BY <1>1, <1>2, <1>3, <1>4, <1>5, <1>6, <1>7, <1>8, <1>9, <1>10, <1>11, <1>12
     DEF Next, CopierStep

-----------------------------------------------------------------------------
(* The theorems.                                                           *)

IInv ==
    /\ TypeOK
    /\ TimeoutInv
    /\ CopierBorrows /\ InUseHasOwner /\ OneBorrower
    /\ CopyInv

LEMMA Invariance == Spec => []IInv
<1>1. Init => IInv
  BY InitType, TimeoutInit, RegionInit, CopyInit DEF IInv
<1>2. IInv /\ [Next]_vars => IInv'
  BY TimeoutImplied, TypeStep, TimeoutStep, RegionStep, CopyStep DEF IInv
<1> QED BY <1>1, <1>2, PTL DEF Spec

\* Every variable of the three components keeps its type.
THEOREM TypeCorrect == Spec => []TypeOK
<1>1. IInv => TypeOK
  BY DEF IInv
<1> QED BY <1>1, Invariance, PTL

\* The manager's region, once on loan, can always be given back, whatever was
\* forced or timed out before.
THEOREM RegionNeverLost == Spec => []InUseHasOwner
<1>1. IInv => InUseHasOwner
  BY DEF IInv
<1> QED BY <1>1, Invariance, PTL

\* The manager lends its region to one borrower at a time until it is forced.
THEOREM RegionIsExclusive == Spec => []OneBorrower
<1>1. IInv => OneBorrower
  BY DEF IInv
<1> QED BY <1>1, Invariance, PTL

\* The copier's timeout comes at the tick after its limit and no other.
THEOREM TimeoutComesOnTime == Spec => []TimeoutOnTime
<1>1. IInv => TimeoutOnTime
  BY TimeoutImplied DEF IInv
<1> QED BY <1>1, Invariance, PTL

\* A command of the copier that ends well has copied, unless it began with
\* an earlier copy under way.
THEOREM SuccessMeansCopied == Spec => []FinishedCopyWasMade
<1>1. IInv => FinishedCopyWasMade
  BY CopyImplied DEF IInv
<1> QED BY <1>1, Invariance, PTL

\* The copier holds the region that the stuffer reads, unless the copy timed
\* out or began with an earlier one under way.
THEOREM SourceStaysHeld == Spec => []SourceHeldWhileCopied
<1>1. IInv => SourceHeldWhileCopied
  BY CopyImplied DEF IInv
<1> QED BY <1>1, Invariance, PTL
=============================================================================
