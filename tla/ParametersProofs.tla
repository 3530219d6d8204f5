--------------------------- MODULE ParametersProofs --------------------------
(***************************************************************************)
(* What the staging protocol of the parameters guarantees for any number   *)
(* of tables, components, parameters and values, for any grouping of the   *)
(* parameters into entries and whatever the components find valid.         *)
(***************************************************************************)
EXTENDS Parameters, TLAPS

PartialData == UNION {[S -> Values] : S \in SUBSET Entries}

Ops == {"Idle", "Set", "Validate", "Update_Parameter"}
Phases == {"idle", "stage", "validate", "update", "discard", "fetch"}

TaskRecords ==
    [op : Ops, phase : Phases, data : PartialData, params : SUBSET Params,
     comps : SUBSET Components, touched : SUBSET Components, failed : BOOLEAN,
     before : {NoValue} \cup (Params \X InRange), seen : PartialValues]

\* The type invariant, with the fields that TypeOK does not mention.
TypeInv ==
    /\ state \in [Params -> {"Staged", "Ready_To_Update", "Updated"}]
    /\ stagedBy \in [Params -> Tables \cup {NoValue}]
    /\ staged \in [Params -> InRange]
    /\ ready \in [Components -> BOOLEAN]
    /\ active \in [Params -> InRange]
    /\ accepted \in [Params -> InRange]
    /\ copying \in [Components -> PartialValues]
    /\ \A c \in Components :
            copying[c] = NotCopying \/ copying[c] \in [Of(c) -> InRange]
    /\ task \in [Tables -> TaskRecords]
    /\ \A t \in Tables : task[t].params \subseteq In(t)

\* A task that has staged a parameter is still at work on it, with the value
\* that its request asked for, and has its component still to visit.
AtWork(k, p) ==
    /\ k.phase \in {"stage", "validate", "update", "discard"}
    /\ EntryOf[p] \in DOMAIN k.data
    /\ staged[p] = k.data[EntryOf[p]]
    /\ k.phase = "stage" => p \notin k.params
    /\ k.phase \in {"update", "discard"} => Home[p] \in k.comps
    /\ Home[p] \in k.touched

StagedInv ==
    \A p \in Params : state[p] = "Staged" =>
        stagedBy[p] = Table[p] /\ AtWork(task[Table[p]], p)

\* A request that has not failed has staged all it asked for, and has marked
\* it in the components it has visited again.
Complete(k, p) ==
    EntryOf[p] \in DOMAIN k.data =>
        /\ k.phase = "stage" /\ ~k.failed /\ p \notin k.params => state[p] = "Staged"
        /\ k.phase = "validate" /\ ~k.failed => state[p] = "Staged"
        /\ k.phase = "update" /\ Home[p] \in k.comps => state[p] = "Staged"

CompleteInv == \A p \in Params : Complete(task[Table[p]], p)

\* The parameters still to be staged are in the request and, where requests
\* are paced, nothing that was accepted for them waits in the store.
Requested ==
    \A t \in Tables : task[t].phase = "stage" =>
        \A p \in task[t].params :
            EntryOf[p] \in DOMAIN task[t].data /\ (Paced => state[p] = "Updated")

\* Where requests are paced, what does not wait to be taken over has been.
Kept ==
    Paced => \A p \in Params : state[p] # "Ready_To_Update" => Taken(p) = accepted[p]

IInv ==
    /\ TypeInv
    /\ StagedInv
    /\ CompleteInv
    /\ Requested
    /\ Kept
    /\ AcceptedIsFlagged

-----------------------------------------------------------------------------
(* The record of a task.                                                   *)

LEMMA EmptyFacts ==
    /\ NotCopying \in PartialValues
    /\ NotCopying \in PartialData
<1>1. NotCopying \in [{} -> Values]
  BY DEF NotCopying
<1>2. {} \in SUBSET Params /\ {} \in SUBSET Entries
  OBVIOUS
<1> QED BY <1>1, <1>2 DEF PartialValues, PartialData

LEMMA IdleFacts ==
    /\ Idle \in TaskRecords
    /\ Idle.phase = "idle" /\ Idle.op = "Idle" /\ Idle.params = {}
BY EmptyFacts DEF Idle, TaskRecords, Ops, Phases

\* A task that goes on to a loop over components.
LEMMA GoFacts ==
    ASSUME NEW t, task[t] \in TaskRecords,
           NEW phase \in Phases, NEW comps \in SUBSET Components
    PROVE  /\ Go(t, phase, comps) \in TaskRecords
           /\ Go(t, phase, comps).phase = phase
           /\ Go(t, phase, comps).comps = comps
           /\ Go(t, phase, comps).op = task[t].op
           /\ Go(t, phase, comps).data = task[t].data
           /\ Go(t, phase, comps).params = task[t].params
           /\ Go(t, phase, comps).touched = task[t].touched
           /\ Go(t, phase, comps).failed = task[t].failed
BY EmptyFacts DEF Go, TaskRecords

LEMMA GoDiscardFacts ==
    ASSUME NEW t, task[t] \in TaskRecords, NEW comps \in SUBSET Components
    PROVE  /\ GoDiscard(t, comps) \in TaskRecords
           /\ comps = {} => GoDiscard(t, comps) = Idle
           /\ comps # {} => GoDiscard(t, comps) = Go(t, "discard", comps)
BY GoFacts, IdleFacts DEF GoDiscard, Phases

LEMMA GoFetchFacts ==
    ASSUME NEW t \in Tables, task[t] \in TaskRecords, NEW wanted \in BOOLEAN
    PROVE  /\ GoFetch(t, wanted) \in TaskRecords
           /\ GoFetch(t, wanted).phase \in {"idle", "fetch"}
           /\ GoFetch(t, wanted).params \subseteq In(t)
<1>1. CASE wanted
  <2>1. PICK x \in TaskRecords : x = Go(t, "fetch", {}) /\ x.phase = "fetch"
    BY GoFacts DEF Phases
  <2>2. GoFetch(t, wanted) = [x EXCEPT !.params = In(t)]
    BY <1>1, <2>1 DEF GoFetch
  <2>3. In(t) \in SUBSET Params
    BY DEF In
  <2> QED BY <2>1, <2>2, <2>3 DEF TaskRecords
<1>2. CASE ~wanted
  BY <1>2, IdleFacts DEF GoFetch
<1> QED BY <1>1, <1>2

\* The step of a task changes its own record.
LEMMA ToFacts ==
    ASSUME TypeInv, NEW t \in Tables, NEW x \in TaskRecords, To(t, x)
    PROVE  /\ task' \in [Tables -> TaskRecords]
           /\ task'[t] = x
           /\ \A u \in Tables : u # t => task'[u] = task[u]
BY DEF To, TypeInv

\* What the assumption on the constants says of one parameter.
LEMMA ParamFacts ==
    ASSUME NEW p \in Params
    PROVE  /\ Table[p] \in Tables /\ Home[p] \in Components
           /\ EntryOf[p] \in Entries
           /\ p \in In(Table[p]) /\ p \in Of(Home[p])
           /\ Home[p] \in Connected(Table[p])
BY ParametersAssumption DEF In, Of, Connected

LEMMA ScopeFacts ==
    ASSUME TypeInv, NEW t \in Tables
    PROVE  /\ Scope(t) \in SUBSET Components
           /\ \A p \in In(t) : Home[p] \in task[t].touched => Home[p] \in Scope(t)
<1>1. task[t] \in TaskRecords
  BY DEF TypeInv
<1>2. task[t].touched \in SUBSET Components
  BY <1>1 DEF TaskRecords
<1> QED BY <1>2, ParametersAssumption DEF Scope, Connected, In

-----------------------------------------------------------------------------
(* The steps.                                                              *)

LEMMA InitIInv == ASSUME Init PROVE IInv
<1>1. TypeInv
  <2>1. copying \in [Components -> PartialValues]
    BY EmptyFacts DEF Init
  <2>2. task \in [Tables -> TaskRecords]
    BY IdleFacts DEF Init
  <2>3. \A t \in Tables : task[t].params \subseteq In(t)
    BY IdleFacts DEF Init
  <2> QED BY <2>1, <2>2, <2>3 DEF Init, TypeInv
<1>2. \A p \in Params : state[p] = "Updated" /\ task[Table[p]] = Idle
  BY ParamFacts DEF Init
<1>3. Kept
  BY ParamFacts DEF Init, Kept, Taken
<1>4. Requested
  BY IdleFacts DEF Init, Requested
<1> QED
  BY <1>1, <1>2, <1>3, <1>4, IdleFacts
     DEF IInv, StagedInv, CompleteInv, Complete, AcceptedIsFlagged

\* A step of a table's task that changes its own record only.
LEMMA TaskStep ==
    ASSUME IInv, NEW t \in Tables, NEW k \in TaskRecords, To(t, k),
           UNCHANGED <<store, active, copying, accepted>>,
           k.params \subseteq In(t),
           \A p \in In(t) : state[p] = "Staged" /\ AtWork(task[t], p) => AtWork(k, p),
           \A p \in In(t) : Complete(task[t], p) => Complete(k, p),
           k.phase = "stage" => \A p \in k.params :
                EntryOf[p] \in DOMAIN k.data /\ (Paced => state[p] = "Updated")
    PROVE  IInv'
<1>1. /\ task' \in [Tables -> TaskRecords]
      /\ task'[t] = k
      /\ \A u \in Tables : u # t => task'[u] = task[u]
  BY ToFacts DEF IInv
<1>2. UNCHANGED <<state, stagedBy, staged, ready, active, copying, accepted>>
  BY DEF store
<1>3. TypeInv'
  BY <1>1, <1>2 DEF IInv, TypeInv
<1>4. StagedInv'
  <2> SUFFICES ASSUME NEW p \in Params, state[p] = "Staged"
               PROVE  stagedBy[p] = Table[p] /\ AtWork(task[Table[p]], p)'
    BY <1>2 DEF StagedInv
  <2>1. stagedBy[p] = Table[p] /\ AtWork(task[Table[p]], p)
    BY DEF IInv, StagedInv
  <2>2. CASE Table[p] = t
    <3>1. AtWork(k, p)
      BY <2>1, <2>2, ParamFacts
    <3> QED BY <1>1, <1>2, <2>1, <2>2, <3>1 DEF AtWork
  <2>3. CASE Table[p] # t
    <3>1. task'[Table[p]] = task[Table[p]]
      BY <1>1, <2>3, ParamFacts
    <3> QED BY <1>2, <2>1, <3>1 DEF AtWork
  <2> QED BY <2>2, <2>3
<1>5. CompleteInv'
  <2> SUFFICES ASSUME NEW p \in Params PROVE Complete(task[Table[p]], p)'
    BY DEF CompleteInv
  <2>1. Complete(task[Table[p]], p)
    BY DEF IInv, CompleteInv
  <2>2. CASE Table[p] = t
    <3>1. Complete(k, p)
      BY <2>1, <2>2, ParamFacts
    <3> QED BY <1>1, <1>2, <2>2, <3>1 DEF Complete
  <2>3. CASE Table[p] # t
    <3>1. task'[Table[p]] = task[Table[p]]
      BY <1>1, <2>3, ParamFacts
    <3> QED BY <1>2, <2>1, <3>1 DEF Complete
  <2> QED BY <2>2, <2>3
<1>6. AcceptedIsFlagged' /\ Requested' /\ Kept'
  BY <1>1, <1>2 DEF IInv, AcceptedIsFlagged, Requested, Kept, Taken
<1> QED BY <1>3, <1>4, <1>5, <1>6 DEF IInv

\* A request that begins finds nothing staged by its table.
LEMMA BeginStep ==
    ASSUME IInv, NEW t \in Tables, NEW data \in PartialData, NEW op,
           op \in {"Set", "Validate", "Update_Parameter", "Fetch"}, Begin(t, op, data)
    PROVE  IInv'
<1>1. task[t] \in TaskRecords /\ task[t].phase = "idle"
  BY DEF IInv, TypeInv, Begin
<1>2. UNCHANGED <<store, active, copying, accepted>>
  BY DEF Begin
<1>3. \A p \in In(t) : ~AtWork(task[t], p)
  BY <1>1 DEF AtWork
<1>4. CASE op = "Fetch"
  <2>1. PICK k : k = GoFetch(t, TRUE)
    OBVIOUS
  <2>2. /\ k \in TaskRecords /\ k.params \subseteq In(t) /\ To(t, k)
        /\ k.phase \in {"idle", "fetch"}
    BY <1>1, <1>4, <2>1, GoFetchFacts DEF Begin
  <2> QED BY <1>2, <1>3, <2>2, TaskStep DEF Complete
<1>5. CASE op # "Fetch"
  <2>1. PICK k : k = [Idle EXCEPT !.op = op, !.phase = "stage", !.data = data,
                        !.params = {p \in In(t) : EntryOf[p] \in DOMAIN data}]
    OBVIOUS
  <2>2. {p \in In(t) : EntryOf[p] \in DOMAIN data} \in SUBSET Params
    BY DEF In
  <2>3. /\ k \in TaskRecords
        /\ k.phase = "stage" /\ k.data = data
        /\ k.params = {p \in In(t) : EntryOf[p] \in DOMAIN data}
    BY <1>5, <2>1, <2>2, IdleFacts DEF TaskRecords, Ops, Phases
  <2>4. To(t, k)
    BY <1>5, <2>1 DEF Begin
  <2>5. ASSUME NEW p \in In(t), Paced PROVE state[p] = "Updated"
    <3>1. p \in Params /\ Table[p] = t
      BY DEF In
    <3>2. state[p] # "Staged"
      BY <1>3, <3>1 DEF IInv, StagedInv
    <3>3. ~ready[Home[p]]
      BY <2>5, <3>1, ParamFacts DEF Begin
    <3>4. state[p] # "Ready_To_Update"
      BY <3>1, <3>3 DEF IInv, AcceptedIsFlagged
    <3> QED BY <3>1, <3>2, <3>4 DEF IInv, TypeInv
  <2> QED BY <1>2, <1>3, <2>3, <2>4, <2>5, TaskStep DEF Complete
<1> QED BY <1>4, <1>5

LEMMA RequestStep ==
    ASSUME IInv, NEW t \in Tables, Request(t) PROVE IInv'
<1>1. \A e \in EntriesOf(t) : e \in Entries
  BY ParamFacts DEF EntriesOf, In
<1>2. ASSUME NEW data \in [EntriesOf(t) -> Values] PROVE data \in PartialData
  BY <1>1 DEF PartialData
<1>3. ASSUME NEW e \in EntriesOf(t), NEW v \in Values
      PROVE  [x \in {e} |-> v] \in PartialData
  <2>1. {e} \in SUBSET Entries /\ [x \in {e} |-> v] \in [{e} -> Values]
    BY <1>1
  <2> QED BY <2>1 DEF PartialData
<1> QED BY <1>2, <1>3, EmptyFacts, BeginStep DEF Request

\* A value read for a call is a value of a parameter.
LEMMA SeeFacts ==
    ASSUME NEW t, task[t] \in TaskRecords, NEW p \in Params, NEW v \in Values
    PROVE  /\ See(t, p, v) \in TaskRecords
           /\ See(t, p, v).phase = task[t].phase
           /\ See(t, p, v).comps = task[t].comps
           /\ See(t, p, v).data = task[t].data
           /\ See(t, p, v).params = task[t].params
           /\ See(t, p, v).touched = task[t].touched
           /\ See(t, p, v).failed = task[t].failed
<1>1. PICK s : s = task[t].seen
  OBVIOUS
<1>2. PICK D \in SUBSET Params : s \in [D -> Values]
  BY <1>1 DEF TaskRecords, PartialValues
<1>3. PICK n : n = [q \in DOMAIN s \cup {p} |-> IF q = p THEN v ELSE s[q]]
  OBVIOUS
<1>4. n \in [D \cup {p} -> Values] /\ D \cup {p} \in SUBSET Params
  BY <1>2, <1>3
<1>5. n \in PartialValues
  BY <1>4 DEF PartialValues
<1>6. See(t, p, v) = [task[t] EXCEPT !.before = NoValue, !.seen = n]
  BY <1>1, <1>3 DEF See
<1> QED BY <1>5, <1>6 DEF TaskRecords

LEMMA ActiveForType ==
    ASSUME TypeInv, NEW t \in Tables, NEW p \in Params, CanCall(t, p)
    PROVE  ActiveFor(t, p) \in InRange
<1>1. task[t].before \in {NoValue} \cup (Params \X InRange)
  BY DEF TypeInv, TaskRecords
<1> QED BY <1>1 DEF CanCall, ActiveFor, TypeInv

\* The steps that read, validate and fetch, and the turns between the loops.
LEMMA ReadSteps ==
    ASSUME IInv, NEW t \in Tables, NEW p \in Params,
           ReadActive(t, p) \/ GetForValidate(t, p) \/ Fetch(t, p)
    PROVE  IInv'
<1>1. task[t] \in TaskRecords /\ task[t].params \subseteq In(t) /\ InRange \subseteq Values
  BY ParametersAssumption DEF IInv, TypeInv
<1>2. UNCHANGED <<store, active, copying, accepted>>
  BY DEF ReadActive, GetForValidate, Fetch
<1>3. CASE ReadActive(t, p)
  <2>1. PICK k : k = [task[t] EXCEPT !.before = <<p, active[p]>>]
    OBVIOUS
  <2>2. <<p, active[p]>> \in Params \X InRange
    BY DEF IInv, TypeInv
  <2>3. /\ k \in TaskRecords
        /\ k.phase = task[t].phase /\ k.data = task[t].data /\ k.comps = task[t].comps
        /\ k.params = task[t].params /\ k.touched = task[t].touched
        /\ k.failed = task[t].failed
    BY <1>1, <2>1, <2>2 DEF TaskRecords
  <2>4. To(t, k)
    BY <1>3, <2>1 DEF ReadActive
  <2>5. k.phase = "stage" => \A q \in k.params :
            EntryOf[q] \in DOMAIN k.data /\ (Paced => state[q] = "Updated")
    BY <2>3 DEF IInv, Requested
  <2> QED BY <1>1, <1>2, <2>3, <2>4, <2>5, TaskStep DEF AtWork, Complete
<1>4. CASE GetForValidate(t, p)
  <2>1. PICK k : k = See(t, p, ForValidate(t, p))
    OBVIOUS
  <2>2. ForValidate(t, p) \in Values
    BY <1>1, <1>4, ActiveForType DEF GetForValidate, ForValidate, IInv, TypeInv
  <2>3. To(t, k)
    BY <1>4, <2>1 DEF GetForValidate
  <2>4. k.phase = "validate"
    BY <1>1, <1>4, <2>1, <2>2, SeeFacts DEF GetForValidate
  <2> QED
    BY <1>1, <1>2, <2>1, <2>2, <2>3, <2>4, SeeFacts, TaskStep DEF AtWork, Complete
<1>5. CASE Fetch(t, p)
  <2>1. PICK s : s = See(t, p, ForFetch(t, p))
    OBVIOUS
  <2>2. ForFetch(t, p) \in Values
    BY <1>1, <1>5, ActiveForType DEF Fetch, ForFetch, IInv, TypeInv
  <2>3. s \in TaskRecords /\ s.phase = "fetch" /\ s.params = task[t].params
    BY <1>1, <1>5, <2>1, <2>2, SeeFacts DEF Fetch
  <2>4. PICK k : k = [s EXCEPT !.params = @ \ {p}]
    OBVIOUS
  <2>5. k \in TaskRecords /\ k.phase = "fetch" /\ k.params \subseteq In(t)
    BY <1>1, <2>3, <2>4 DEF TaskRecords
  <2>6. To(t, k)
    BY <1>5, <2>1, <2>4 DEF Fetch
  <2>7. task[t].phase = "fetch"
    BY <1>5 DEF Fetch
  <2> QED BY <1>2, <2>5, <2>6, <2>7, TaskStep DEF AtWork, Complete
<1> QED BY <1>3, <1>4, <1>5

LEMMA ValidateStep ==
    ASSUME IInv, NEW t \in Tables, NEW c \in Components, Validate(t, c)
    PROVE  IInv'
<1>1. /\ task[t] \in TaskRecords /\ task[t].params \subseteq In(t)
      /\ task[t].phase = "validate" /\ task[t].comps \ {c} \in SUBSET Components
  BY DEF IInv, TypeInv, Validate, TaskRecords
<1>2. UNCHANGED <<store, active, copying, accepted>>
  BY DEF Validate
<1>3. PICK g : g = Go(t, "validate", task[t].comps \ {c})
  OBVIOUS
<1>4. /\ g \in TaskRecords /\ g.phase = "validate"
      /\ g.data = task[t].data /\ g.params = task[t].params
      /\ g.touched = task[t].touched /\ g.failed = task[t].failed
  BY <1>1, <1>3, GoFacts DEF Phases
<1>5. PICK f \in BOOLEAN : f = (g.failed \/ ~Valid(c, task[t].seen))
  OBVIOUS
<1>6. PICK k : k = [g EXCEPT !.failed = f]
  OBVIOUS
<1>7. To(t, k)
  BY <1>3, <1>5, <1>6 DEF Validate
<1>8. /\ k \in TaskRecords /\ k.phase = "validate" /\ k.data = task[t].data
      /\ k.params = task[t].params /\ k.touched = task[t].touched /\ k.failed = f
  BY <1>4, <1>6 DEF TaskRecords
<1>9. ~f => ~task[t].failed
  BY <1>4, <1>5
<1> QED BY <1>1, <1>2, <1>7, <1>8, <1>9, TaskStep DEF AtWork, Complete

\* The end of a loop of a handler.
LEMMA EndSteps ==
    ASSUME IInv, NEW t \in Tables,
           StageEnd(t) \/ ValidateEnd(t) \/ UpdateEnd(t) \/ FetchEnd(t)
    PROVE  IInv'
<1>1. task[t] \in TaskRecords /\ task[t].params \subseteq In(t)
  BY DEF IInv, TypeInv
<1>2. UNCHANGED <<store, active, copying, accepted>>
  BY DEF StageEnd, ValidateEnd, UpdateEnd, FetchEnd
<1>3. /\ Scope(t) \in SUBSET Components
      /\ \A p \in In(t) : Home[p] \in task[t].touched => Home[p] \in Scope(t)
  BY ScopeFacts DEF IInv
<1>4. CASE StageEnd(t)
  <2>1. PICK k : k = Go(t, "validate", Scope(t))
    OBVIOUS
  <2>2. To(t, k) /\ task[t].phase = "stage" /\ task[t].params = {}
    BY <1>4, <2>1 DEF StageEnd
  <2> QED BY <1>1, <1>2, <1>3, <2>1, <2>2, GoFacts, TaskStep DEF AtWork, Complete, Phases
<1>5. CASE ValidateEnd(t) /\ Passed(t)
  <2>1. PICK k : k = Go(t, "update", Scope(t))
    OBVIOUS
  <2>2. To(t, k) /\ task[t].phase = "validate" /\ ~task[t].failed
    BY <1>5, <2>1 DEF ValidateEnd, Passed
  <2> QED BY <1>1, <1>2, <1>3, <2>1, <2>2, GoFacts, TaskStep DEF AtWork, Complete, Phases
<1>6. CASE ValidateEnd(t) /\ ~Passed(t)
  <2>1. PICK k : k = GoDiscard(t, Scope(t))
    OBVIOUS
  <2>2. To(t, k) /\ task[t].phase = "validate"
    BY <1>6, <2>1 DEF ValidateEnd
  <2>3. CASE Scope(t) = {}
    <3>1. k = Idle
      BY <1>1, <1>3, <2>1, <2>3, GoDiscardFacts
    <3>2. \A p \in In(t) : ~AtWork(task[t], p)
      BY <1>3, <2>3 DEF AtWork
    <3> QED BY <1>2, <2>2, <3>1, <3>2, IdleFacts, TaskStep DEF Complete
  <2>4. CASE Scope(t) # {}
    <3>1. k = Go(t, "discard", Scope(t))
      BY <1>1, <1>3, <2>1, <2>4, GoDiscardFacts
    <3> QED
      BY <1>1, <1>2, <1>3, <2>2, <3>1, GoFacts, TaskStep DEF AtWork, Complete, Phases
  <2> QED BY <2>3, <2>4
<1>7. CASE UpdateEnd(t)
  <2>1. PICK k : k = GoFetch(t, DumpOnChange)
    OBVIOUS
  <2>2. To(t, k) /\ task[t].phase = "update" /\ task[t].comps = {}
    BY <1>7, <2>1 DEF UpdateEnd
  <2>3. k \in TaskRecords /\ k.phase \in {"idle", "fetch"} /\ k.params \subseteq In(t)
    BY <1>1, <2>1, GoFetchFacts, ParametersAssumption
  <2> QED BY <1>2, <2>2, <2>3, TaskStep DEF AtWork, Complete
<1>8. CASE FetchEnd(t)
  <2>1. To(t, Idle) /\ task[t].phase = "fetch"
    BY <1>8 DEF FetchEnd
  <2> QED BY <1>2, <2>1, IdleFacts, TaskStep DEF AtWork, Complete
<1> QED BY <1>4, <1>5, <1>6, <1>7, <1>8

\* The values that a component takes over are those accepted last.
LEMMA CopyFromStagedStep ==
    ASSUME IInv, NEW c \in Components, CopyFromStaged(c)
    PROVE  /\ IInv'
           /\ \A p \in Params : Taken(p)' # Taken(p) => Taken(p)' = accepted[p]
           /\ \A p \in Of(c) :
                Taken(p)' = IF state[p] = "Ready_To_Update" THEN accepted[p] ELSE Taken(p)
<1> DEFINE taken == {p \in Of(c) : Takes(p)}
<1>1. /\ UNCHANGED <<stagedBy, staged, task, accepted>>
      /\ state' = [p \in Params |-> IF p \in taken THEN "Updated" ELSE state[p]]
      /\ ready' = [ready EXCEPT ![c] = FALSE]
      /\ copying[c] = NotCopying
  BY DEF CopyFromStaged
<1>2. \A p \in Params : p \in taken <=> Home[p] = c /\ state[p] = "Ready_To_Update"
  BY DEF Takes, Of
<1>3. \A p \in taken : p \in Params /\ staged[p] = accepted[p]
  BY <1>2 DEF IInv, AcceptedIsFlagged, Of
<1>4. /\ active' \in [Params -> InRange]
      /\ copying' \in [Components -> PartialValues]
      /\ \A d \in Components :
            copying'[d] = NotCopying \/ copying'[d] \in [Of(d) -> InRange]
      /\ \A p \in Params : Home[p] # c => Taken(p)' = Taken(p)
      /\ \A p \in Of(c) : Taken(p)' = IF p \in taken THEN staged[p] ELSE Taken(p)
  <2>1. /\ active \in [Params -> InRange] /\ staged \in [Params -> InRange]
        /\ copying \in [Components -> PartialValues]
        /\ \A d \in Components :
              copying[d] = NotCopying \/ copying[d] \in [Of(d) -> InRange]
        /\ \A p \in Params : Home[p] \in Components
        /\ Of(c) \in SUBSET Params
        /\ \A p \in Of(c) : Home[p] = c
    BY ParametersAssumption DEF IInv, TypeInv, Of
  <2>2. CASE ByCopy
    <3>1. PICK v : v = [p \in Of(c) |-> IF p \in taken THEN staged[p] ELSE active[p]]
      OBVIOUS
    <3>2. copying' = [copying EXCEPT ![c] = v] /\ UNCHANGED active
      BY <2>2, <3>1 DEF CopyFromStaged
    <3>3. v \in [Of(c) -> InRange] /\ v \in [Of(c) -> Values]
      BY <2>1, <3>1, ParametersAssumption
    <3>4. v \in PartialValues
      BY <2>1, <3>3 DEF PartialValues
    <3>5. Of(c) # {} => v # NotCopying
      BY <3>3 DEF NotCopying
    <3> QED BY <1>1, <2>1, <3>1, <3>2, <3>3, <3>4, <3>5 DEF Taken
  <2>3. CASE ~ByCopy
    <3>1. /\ active' = [p \in Params |-> IF p \in taken THEN staged[p] ELSE active[p]]
          /\ UNCHANGED copying
      BY <2>3 DEF CopyFromStaged
    <3> HIDE DEF taken
    <3>2. \A p \in Params : Home[p] # c => p \notin taken
      BY <1>2
    <3> QED BY <1>1, <2>1, <3>1, <3>2 DEF Taken
  <2> QED BY <2>2, <2>3
<1> HIDE DEF taken
<1>5. TypeInv'
  BY <1>1, <1>4 DEF IInv, TypeInv
<1>6. \A p \in Params : state'[p] = "Staged" <=> state[p] = "Staged"
  BY <1>1, <1>2
<1>7. StagedInv' /\ CompleteInv'
  BY <1>1, <1>6 DEF IInv, StagedInv, AtWork, CompleteInv, Complete
<1>11. \A p \in Params : state[p] = "Updated" => state'[p] = "Updated"
  BY <1>1
<1>12. Requested'
  <2>1. \A t \in Tables : task[t].params \subseteq Params
    BY DEF IInv, TypeInv, In
  <2> QED BY <1>1, <1>11, <2>1 DEF IInv, Requested
<1>8. AcceptedIsFlagged'
  BY <1>1, <1>2 DEF IInv, AcceptedIsFlagged, TypeInv
<1>9. \A p \in Params : Taken(p)' # Taken(p) => Taken(p)' = accepted[p]
  BY <1>3, <1>4 DEF Of
<1>10. \A p \in Of(c) :
          Taken(p)' = IF state[p] = "Ready_To_Update" THEN accepted[p] ELSE Taken(p)
  BY <1>2, <1>3, <1>4 DEF Of
<1>13. Kept'
  <2> SUFFICES ASSUME Paced, NEW p \in Params, state'[p] # "Ready_To_Update"
               PROVE  Taken(p)' = accepted[p]
    BY <1>1 DEF Kept
  <2>1. CASE p \in taken
    BY <1>3, <1>4, <2>1, <1>2 DEF Of
  <2>2. CASE p \notin taken
    <3>1. Taken(p)' = Taken(p) /\ state[p] # "Ready_To_Update"
      BY <1>1, <1>4, <2>2 DEF Of
    <3> QED BY <3>1 DEF IInv, Kept
  <2> QED BY <2>1, <2>2
<1> QED BY <1>5, <1>7, <1>8, <1>9, <1>10, <1>12, <1>13 DEF IInv

\* Writing the copy out changes nothing that a component has taken over.
LEMMA CopyOutStep ==
    ASSUME IInv, NEW c \in Components, CopyOut(c)
    PROVE  IInv' /\ \A p \in Params : Taken(p)' = Taken(p)
<1>1. /\ UNCHANGED <<state, stagedBy, staged, ready, task, accepted>>
      /\ active' = [p \in Params |-> IF p \in Of(c) THEN copying[c][p] ELSE active[p]]
      /\ copying' = [copying EXCEPT ![c] = NotCopying]
      /\ copying[c] \in [Of(c) -> InRange] /\ copying[c] # NotCopying
  BY DEF CopyOut, store, IInv, TypeInv
<1>2. active' \in [Params -> InRange] /\ copying' \in [Components -> PartialValues]
  BY <1>1, EmptyFacts DEF IInv, TypeInv
<1>3. TypeInv'
  BY <1>1, <1>2 DEF IInv, TypeInv
<1>4. StagedInv' /\ CompleteInv' /\ Requested' /\ AcceptedIsFlagged'
  BY <1>1 DEF IInv, StagedInv, AtWork, CompleteInv, Complete, Requested, AcceptedIsFlagged
<1>5. \A p \in Params : Taken(p)' = Taken(p)
  BY <1>1, ParamFacts DEF Taken, Of, IInv, TypeInv
<1>6. Kept'
  BY <1>1, <1>5 DEF IInv, Kept
<1> QED BY <1>3, <1>4, <1>5, <1>6 DEF IInv

\* What one table does leaves the work of the others alone.
LEMMA OthersKept ==
    ASSUME IInv, NEW t \in Tables, NEW p \in Params, Table[p] # t,
           \A u \in Tables : u # t => task'[u] = task[u],
           state'[p] = state[p], stagedBy'[p] = stagedBy[p], staged'[p] = staged[p]
    PROVE  /\ state'[p] = "Staged" =>
                stagedBy'[p] = Table[p] /\ AtWork(task[Table[p]], p)'
           /\ Complete(task[Table[p]], p)'
<1>1. task'[Table[p]] = task[Table[p]]
  BY ParamFacts
<1>2. /\ state[p] = "Staged" => stagedBy[p] = Table[p] /\ AtWork(task[Table[p]], p)
      /\ Complete(task[Table[p]], p)
  BY DEF IInv, StagedInv, CompleteInv
<1> QED BY <1>1, <1>2 DEF AtWork, Complete

\* A parameter is staged, or refused because it is out of range.
LEMMA StageStep ==
    ASSUME IInv, NEW t \in Tables, NEW p \in Params, Stage(t, p)
    PROVE  IInv'
<1>1. /\ task[t] \in TaskRecords /\ task[t].params \subseteq In(t)
      /\ task[t].phase = "stage" /\ p \in task[t].params
      /\ Table[p] = t
      /\ UNCHANGED <<ready, active, copying, accepted>>
  BY DEF IInv, TypeInv, Stage, In
<1>2. PICK r : r = [task[t] EXCEPT !.params = @ \ {p}]
  OBVIOUS
<1>3. /\ r \in TaskRecords /\ r.phase = "stage" /\ r.params = task[t].params \ {p}
      /\ r.data = task[t].data /\ r.touched = task[t].touched
      /\ r.failed = task[t].failed
  BY <1>1, <1>2 DEF TaskRecords
<1>4. PICK v : v = task[t].data[EntryOf[p]]
  OBVIOUS
<1>5. CASE Accepts(v)
  <2>1. PICK k : k = [r EXCEPT !.touched = @ \cup {Home[p]}]
    OBVIOUS
  <2>2. /\ k \in TaskRecords /\ k.phase = "stage" /\ k.params = task[t].params \ {p}
        /\ k.data = task[t].data /\ k.touched = task[t].touched \cup {Home[p]}
        /\ k.failed = task[t].failed
    BY <1>3, <2>1, ParamFacts DEF TaskRecords
  <2>3. /\ staged' = [staged EXCEPT ![p] = v]
        /\ state' = [state EXCEPT ![p] = "Staged"]
        /\ stagedBy' = [stagedBy EXCEPT ![p] = t]
        /\ To(t, k)
    BY <1>2, <1>4, <1>5, <2>1 DEF Stage
  <2>4. /\ task' \in [Tables -> TaskRecords] /\ task'[t] = k
        /\ \A u \in Tables : u # t => task'[u] = task[u]
    BY <2>2, <2>3, ToFacts DEF IInv
  <2>5. v \in InRange
    BY <1>5 DEF Accepts
  <2>6. TypeInv'
    BY <1>1, <2>2, <2>3, <2>4, <2>5 DEF IInv, TypeInv
  <2>7. /\ \A q \in Params : q # p =>
              state'[q] = state[q] /\ stagedBy'[q] = stagedBy[q] /\ staged'[q] = staged[q]
        /\ state'[p] = "Staged" /\ stagedBy'[p] = t /\ staged'[p] = v
    <3>1. /\ state \in [Params -> {"Staged", "Ready_To_Update", "Updated"}]
          /\ stagedBy \in [Params -> Tables \cup {NoValue}]
          /\ staged \in [Params -> InRange]
      BY DEF IInv, TypeInv
    <3> QED BY <2>3, <3>1
  <2>8. EntryOf[p] \in DOMAIN task[t].data
    BY <1>1 DEF IInv, Requested
  <2>9. ASSUME NEW q \in Params
        PROVE  /\ state'[q] = "Staged" =>
                    stagedBy'[q] = Table[q] /\ AtWork(task[Table[q]], q)'
               /\ Complete(task[Table[q]], q)'
    <3>1. CASE Table[q] # t
      BY <1>1, <2>4, <2>7, <3>1, OthersKept
    <3>2. CASE q = p
      BY <1>1, <1>4, <2>2, <2>4, <2>7, <2>8, <3>2 DEF AtWork, Complete
    <3>3. CASE Table[q] = t /\ q # p
      <4>1. /\ state[q] = "Staged" => stagedBy[q] = t /\ AtWork(task[t], q)
            /\ Complete(task[t], q)
        BY <3>3 DEF IInv, StagedInv, CompleteInv
      <4> QED BY <1>1, <2>2, <2>4, <2>7, <3>3, <4>1 DEF AtWork, Complete
    <3> QED BY <3>1, <3>2, <3>3
  <2>10. AcceptedIsFlagged'
    BY <1>1, <2>7 DEF IInv, AcceptedIsFlagged
  <2>11. Requested'
    <3> SUFFICES ASSUME NEW u \in Tables, task'[u].phase = "stage", NEW q \in task'[u].params
                 PROVE  EntryOf[q] \in DOMAIN task'[u].data /\ (Paced => state'[q] = "Updated")
      BY DEF Requested
    <3>1. task[u].phase = "stage" /\ q \in task[u].params /\ task'[u].data = task[u].data
      BY <1>1, <2>2, <2>4
    <3>2. q \in Params /\ Table[q] = u
      BY <3>1 DEF IInv, TypeInv, In
    <3>3. q # p
      BY <1>1, <2>2, <2>4, <3>2
    <3> QED BY <2>7, <3>1, <3>2, <3>3 DEF IInv, Requested
  <2>12. Kept'
    <3>1. \A q \in Params : Taken(q)' = Taken(q)
      BY <1>1 DEF Taken
    <3>2. Paced => state[p] = "Updated"
      BY <1>1 DEF IInv, Requested
    <3> QED BY <1>1, <2>7, <3>1, <3>2 DEF IInv, Kept
  <2> QED BY <2>6, <2>9, <2>10, <2>11, <2>12 DEF IInv, StagedInv, CompleteInv
<1>6. CASE ~Accepts(v) /\ task[t].op = "Update_Parameter"
  <2>1. PICK k : k = GoDiscard(t, task[t].touched)
    OBVIOUS
  <2>2. To(t, k) /\ UNCHANGED <<store, active, copying, accepted>>
    BY <1>1, <1>4, <1>6, <2>1 DEF Stage, store
  <2>3. task[t].touched \in SUBSET Components
    BY <1>1 DEF TaskRecords
  <2>4. CASE task[t].touched = {}
    <3>1. k = Idle
      BY <1>1, <2>1, <2>3, <2>4, GoDiscardFacts
    <3>2. \A q \in In(t) : ~AtWork(task[t], q)
      BY <2>4 DEF AtWork
    <3> QED BY <2>2, <3>1, <3>2, IdleFacts, TaskStep DEF Complete
  <2>5. CASE task[t].touched # {}
    <3>1. k = Go(t, "discard", task[t].touched)
      BY <1>1, <2>1, <2>3, <2>5, GoDiscardFacts
    <3> QED BY <1>1, <2>2, <2>3, <3>1, GoFacts, TaskStep DEF AtWork, Complete, Phases
  <2> QED BY <2>4, <2>5
<1>7. CASE ~Accepts(v) /\ task[t].op # "Update_Parameter"
  <2>1. PICK k : k = [r EXCEPT !.failed = TRUE]
    OBVIOUS
  <2>2. /\ k \in TaskRecords /\ k.phase = "stage" /\ k.params = task[t].params \ {p}
        /\ k.data = task[t].data /\ k.touched = task[t].touched /\ k.failed
    BY <1>3, <2>1 DEF TaskRecords
  <2>3. To(t, k) /\ UNCHANGED <<store, active, copying, accepted>>
    BY <1>1, <1>2, <1>4, <1>7, <2>1 DEF Stage, store
  <2>4. \A q \in k.params :
            EntryOf[q] \in DOMAIN k.data /\ (Paced => state[q] = "Updated")
    BY <1>1, <2>2 DEF IInv, Requested
  <2> QED BY <1>1, <2>2, <2>3, <2>4, TaskStep DEF AtWork, Complete
<1> QED BY <1>5, <1>6, <1>7

\* What a table has staged in a component is its own, and all it staged there
\* is of this component.
LEMMA MarkedFacts ==
    ASSUME IInv, NEW t \in Tables, NEW p \in Params, StagedByThisTable(t, p)
    PROVE  state[p] = "Staged" /\ Table[p] = t /\ AtWork(task[t], p)
BY DEF IInv, StagedInv, StagedByThisTable

\* What a request staged in a component is marked, and accepted, as a whole.
LEMMA UpdateStep ==
    ASSUME IInv, NEW t \in Tables, NEW c \in Components, Update(t, c)
    PROVE  /\ IInv'
           /\ UNCHANGED <<active, copying>>
           /\ \A p \in Params : state'[p] # "Ready_To_Update" =>
                    state'[p] = state[p] /\ accepted'[p] = accepted[p]
<1> DEFINE marked == {p \in Of(c) : StagedByThisTable(t, p)}
<1>1. /\ task[t] \in TaskRecords /\ task[t].params \subseteq In(t)
      /\ task[t].phase = "update" /\ c \in task[t].comps
      /\ UNCHANGED <<staged, active, copying>>
      /\ task[t].comps \ {c} \in SUBSET Components
  BY DEF IInv, TypeInv, Update, TaskRecords
<1>2. PICK k : k = Go(t, "update", task[t].comps \ {c})
  OBVIOUS
<1>3. /\ k \in TaskRecords /\ k.phase = "update" /\ k.comps = task[t].comps \ {c}
      /\ k.data = task[t].data /\ k.params = task[t].params
      /\ k.touched = task[t].touched
  BY <1>1, <1>2, GoFacts DEF Phases
<1>4. /\ state' = [p \in Params |-> IF p \in marked THEN "Ready_To_Update" ELSE state[p]]
      /\ stagedBy' = [p \in Params |-> IF p \in marked THEN NoValue ELSE stagedBy[p]]
      /\ ready' = [ready EXCEPT ![c] = TRUE]
      /\ accepted' = [p \in Params |->
            IF p \in Of(c) \cap In(t) /\ EntryOf[p] \in DOMAIN task[t].data
            THEN task[t].data[EntryOf[p]] ELSE accepted[p]]
      /\ To(t, k)
  BY <1>2 DEF Update, Mark, Accept
<1>5. /\ task' \in [Tables -> TaskRecords] /\ task'[t] = k
      /\ \A u \in Tables : u # t => task'[u] = task[u]
  BY <1>3, <1>4, ToFacts DEF IInv
<1>6. \A p \in Params : p \in marked <=>
            Home[p] = c /\ state[p] = "Staged" /\ stagedBy[p] = t
  BY DEF Of, StagedByThisTable
<1>7. \A p \in marked : /\ p \in Params /\ Table[p] = t
                        /\ EntryOf[p] \in DOMAIN task[t].data
                        /\ staged[p] = task[t].data[EntryOf[p]]
  BY MarkedFacts DEF AtWork, Of
<1>8. \A p \in Params :
        Home[p] = c /\ Table[p] = t /\ EntryOf[p] \in DOMAIN task[t].data => p \in marked
  <2> SUFFICES ASSUME NEW p \in Params, Home[p] = c, Table[p] = t,
                      EntryOf[p] \in DOMAIN task[t].data
               PROVE  p \in marked
    OBVIOUS
  <2>1. state[p] = "Staged"
    BY <1>1 DEF IInv, CompleteInv, Complete
  <2> QED BY <1>6, <2>1 DEF IInv, StagedInv
<1> HIDE DEF marked
<1>9. \A p \in Params :
        accepted'[p] = IF p \in marked THEN staged[p] ELSE accepted[p]
  BY <1>4, <1>6, <1>7, <1>8 DEF Of, In
<1>10. TypeInv'
  <2>1. accepted' \in [Params -> InRange]
    BY <1>4, <1>9 DEF IInv, TypeInv
  <2>2. /\ state' \in [Params -> {"Staged", "Ready_To_Update", "Updated"}]
        /\ stagedBy' \in [Params -> Tables \cup {NoValue}]
        /\ ready' \in [Components -> BOOLEAN]
    BY <1>4 DEF IInv, TypeInv
  <2> QED BY <1>1, <1>3, <1>5, <2>1, <2>2 DEF IInv, TypeInv
<1>11. ASSUME NEW p \in Params
       PROVE  /\ state'[p] = "Staged" =>
                    stagedBy'[p] = Table[p] /\ AtWork(task[Table[p]], p)'
              /\ Complete(task[Table[p]], p)'
  <2>1. /\ state'[p] = IF p \in marked THEN "Ready_To_Update" ELSE state[p]
        /\ stagedBy'[p] = IF p \in marked THEN NoValue ELSE stagedBy[p]
        /\ staged'[p] = staged[p]
    BY <1>1, <1>4
  <2>2. CASE Table[p] # t
    <3>1. p \notin marked
      BY <1>7, <2>2
    <3> QED BY <1>5, <2>1, <2>2, <3>1, OthersKept
  <2>3. CASE Table[p] = t
    <3>1. state[p] = "Staged" => stagedBy[p] = t /\ AtWork(task[t], p)
      BY <2>3 DEF IInv, StagedInv
    <3>2. Complete(task[t], p)
      BY <2>3 DEF IInv, CompleteInv
    <3>3. state'[p] = "Staged" => stagedBy'[p] = Table[p] /\ AtWork(task[Table[p]], p)'
      BY <1>1, <1>3, <1>5, <1>6, <2>1, <2>3, <3>1 DEF AtWork
    <3>4. Complete(task[Table[p]], p)'
      BY <1>1, <1>3, <1>5, <1>6, <2>1, <2>3, <3>2 DEF Complete
    <3> QED BY <3>3, <3>4
  <2> QED BY <2>2, <2>3
<1>12. AcceptedIsFlagged'
  <2> SUFFICES ASSUME NEW p \in Params, state'[p] = "Ready_To_Update"
               PROVE  staged'[p] = accepted'[p] /\ ready'[Home[p]]
    BY DEF AcceptedIsFlagged
  <2>1. ready \in [Components -> BOOLEAN] /\ Home[p] \in Components
    BY ParamFacts DEF IInv, TypeInv
  <2>2. CASE p \in marked
    BY <1>1, <1>4, <1>6, <1>9, <2>1, <2>2
  <2>3. CASE p \notin marked
    <3>1. state[p] = "Ready_To_Update"
      BY <1>4, <2>3
    <3>2. staged[p] = accepted[p] /\ ready[Home[p]]
      BY <3>1 DEF IInv, AcceptedIsFlagged
    <3> QED BY <1>1, <1>4, <1>9, <2>1, <2>3, <3>2
  <2> QED BY <2>2, <2>3
<1>13. Requested'
  <2>1. \A p \in Params : state[p] = "Updated" => state'[p] = "Updated"
    BY <1>4, <1>6
  <2>2. \A u \in Tables : task[u].params \subseteq Params
    BY DEF IInv, TypeInv, In
  <2> QED BY <1>3, <1>5, <2>1, <2>2 DEF IInv, Requested
<1>15. Kept'
  <2>1. \A p \in Params : Taken(p)' = Taken(p)
    BY <1>1 DEF Taken
  <2> QED BY <1>4, <1>9, <2>1 DEF IInv, Kept
<1>14. \A p \in Params : state'[p] # "Ready_To_Update" =>
                    state'[p] = state[p] /\ accepted'[p] = accepted[p]
  BY <1>4, <1>9
<1> QED BY <1>1, <1>10, <1>11, <1>12, <1>13, <1>14, <1>15 DEF IInv, StagedInv, CompleteInv

\* What a request staged in a component is dropped.
LEMMA DiscardStep ==
    ASSUME IInv, NEW t \in Tables, NEW c \in Components, Discard(t, c)
    PROVE  /\ IInv'
           /\ UNCHANGED <<active, copying, accepted>>
           /\ \A p \in Params : (state'[p] = "Ready_To_Update") <=>
                                (state[p] = "Ready_To_Update")
<1> DEFINE dropped == {p \in Of(c) : StagedByThisTable(t, p)}
<1>1. /\ task[t] \in TaskRecords /\ task[t].params \subseteq In(t)
      /\ task[t].phase = "discard" /\ c \in task[t].comps
      /\ UNCHANGED <<staged, ready, active, copying, accepted>>
      /\ task[t].comps \ {c} \in SUBSET Components
  BY DEF IInv, TypeInv, Discard, TaskRecords
<1>2. PICK k : k = GoDiscard(t, task[t].comps \ {c})
  OBVIOUS
<1>3. /\ k \in TaskRecords /\ k.params \subseteq In(t)
      /\ \/ k.phase = "idle" /\ task[t].comps \ {c} = {}
         \/ /\ k.phase = "discard" /\ k.comps = task[t].comps \ {c}
            /\ k.data = task[t].data /\ k.touched = task[t].touched
  BY <1>1, <1>2, GoFacts, GoDiscardFacts, IdleFacts DEF Phases
<1>4. /\ state' = [p \in Params |-> IF p \in dropped THEN "Updated" ELSE state[p]]
      /\ stagedBy' = [p \in Params |-> IF p \in dropped THEN NoValue ELSE stagedBy[p]]
      /\ To(t, k)
  BY <1>2 DEF Discard
<1>5. /\ task' \in [Tables -> TaskRecords] /\ task'[t] = k
      /\ \A u \in Tables : u # t => task'[u] = task[u]
  BY <1>3, <1>4, ToFacts DEF IInv
<1>6. \A p \in Params : p \in dropped <=>
            Home[p] = c /\ state[p] = "Staged" /\ stagedBy[p] = t
  BY DEF Of, StagedByThisTable
<1>7. \A p \in dropped : p \in Params /\ Table[p] = t
  BY MarkedFacts DEF Of
<1> HIDE DEF dropped
<1>8. TypeInv'
  BY <1>1, <1>3, <1>4, <1>5 DEF IInv, TypeInv
<1>9. ASSUME NEW p \in Params
      PROVE  /\ state'[p] = "Staged" =>
                    stagedBy'[p] = Table[p] /\ AtWork(task[Table[p]], p)'
             /\ Complete(task[Table[p]], p)'
  <2>1. /\ state'[p] = IF p \in dropped THEN "Updated" ELSE state[p]
        /\ stagedBy'[p] = IF p \in dropped THEN NoValue ELSE stagedBy[p]
        /\ staged'[p] = staged[p]
    BY <1>1, <1>4
  <2>2. CASE Table[p] # t
    <3>1. p \notin dropped
      BY <1>7, <2>2
    <3> QED BY <1>5, <2>1, <2>2, <3>1, OthersKept
  <2>3. CASE Table[p] = t
    <3>1. state[p] = "Staged" => stagedBy[p] = t /\ AtWork(task[t], p)
      BY <2>3 DEF IInv, StagedInv
    <3>2. state'[p] = "Staged" => stagedBy'[p] = Table[p] /\ AtWork(task[Table[p]], p)'
      BY <1>1, <1>3, <1>5, <1>6, <2>1, <2>3, <3>1 DEF AtWork
    <3>3. Complete(task[Table[p]], p)'
      BY <1>3, <1>5, <2>3 DEF Complete
    <3> QED BY <3>2, <3>3
  <2> QED BY <2>2, <2>3
<1>10. \A p \in Params : (state'[p] = "Ready_To_Update") <=>
                         (state[p] = "Ready_To_Update")
  BY <1>4, <1>6
<1>11. AcceptedIsFlagged'
  BY <1>1, <1>10 DEF IInv, AcceptedIsFlagged
<1>12. Requested'
  <2>1. \A p \in Params : state[p] = "Updated" => state'[p] = "Updated"
    BY <1>4
  <2>2. \A u \in Tables : task[u].params \subseteq Params
    BY DEF IInv, TypeInv, In
  <2> QED BY <1>3, <1>5, <2>1, <2>2 DEF IInv, Requested
<1>13. Kept'
  <2>1. \A p \in Params : Taken(p)' = Taken(p)
    BY <1>1 DEF Taken
  <2> QED BY <1>1, <1>10, <2>1 DEF IInv, Kept
<1> QED BY <1>1, <1>8, <1>9, <1>10, <1>11, <1>12, <1>13 DEF IInv, StagedInv, CompleteInv

-----------------------------------------------------------------------------
(* The theorems.                                                           *)

\* A step that leaves what components have taken over alone.
Untaken == UNCHANGED <<active, copying>>

LEMMA UntakenFacts ==
    ASSUME Untaken PROVE \A p \in Params : Taken(p)' = Taken(p)
BY DEF Untaken, Taken

LEMMA StepOfTable ==
    ASSUME IInv, NEW t \in Tables, Request(t) \/ Step(t)
    PROVE  IInv' /\ Untaken
<1>1. CASE Request(t)
  BY <1>1, RequestStep DEF Request, Begin, Untaken
<1>2. ASSUME NEW p \in Params, Stage(t, p)
      PROVE  IInv' /\ Untaken
  BY <1>2, StageStep DEF Stage, Untaken
<1>3. ASSUME NEW p \in Params, ReadActive(t, p) \/ GetForValidate(t, p) \/ Fetch(t, p)
      PROVE  IInv' /\ Untaken
  BY <1>3, ReadSteps DEF ReadActive, GetForValidate, Fetch, Untaken
<1>4. ASSUME NEW c \in Components, Validate(t, c)
      PROVE  IInv' /\ Untaken
  BY <1>4, ValidateStep DEF Validate, Untaken
<1>5. ASSUME NEW c \in Components, Update(t, c)
      PROVE  IInv' /\ Untaken
  BY <1>5, UpdateStep DEF Untaken
<1>6. ASSUME NEW c \in Components, Discard(t, c)
      PROVE  IInv' /\ Untaken
  BY <1>6, DiscardStep DEF Untaken
<1>7. CASE StageEnd(t) \/ ValidateEnd(t) \/ UpdateEnd(t) \/ FetchEnd(t)
  BY <1>7, EndSteps DEF StageEnd, ValidateEnd, UpdateEnd, FetchEnd, Untaken
<1> QED BY <1>1, <1>2, <1>3, <1>4, <1>5, <1>6, <1>7 DEF Step

LEMMA NextStep ==
    ASSUME IInv, [Next]_vars
    PROVE  /\ IInv'
           /\ \/ Untaken
              \/ \E c \in Components : CopyFromStaged(c) \/ CopyOut(c)
<1>1. CASE UNCHANGED vars
  <2>1. UNCHANGED <<state, stagedBy, staged, ready, active, copying, task, accepted>>
    BY <1>1 DEF vars, store
  <2> QED
    BY <2>1 DEF IInv, TypeInv, StagedInv, AtWork, CompleteInv, Complete, Requested,
                Kept, Taken, AcceptedIsFlagged, Untaken
<1>2. ASSUME NEW t \in Tables, Request(t) \/ Step(t) PROVE IInv' /\ Untaken
  BY <1>2, StepOfTable
<1>3. ASSUME NEW c \in Components, UpdateParameters(c)
      PROVE  IInv' /\ (CopyFromStaged(c) \/ CopyOut(c))
  BY <1>3, CopyFromStagedStep, CopyOutStep DEF UpdateParameters
<1> QED BY <1>1, <1>2, <1>3 DEF Next

\* Nothing but taking an update makes a component not ready for it.
LEMMA ReadyKept ==
    ASSUME IInv, [Next]_vars, NEW c \in Components, ready[c], ~ready'[c]
    PROVE  CopyFromStaged(c)
<1>1. ready \in [Components -> BOOLEAN]
  BY DEF IInv, TypeInv
<1>2. ASSUME NEW t \in Tables, Request(t) PROVE UNCHANGED ready
  BY <1>2 DEF Request, Begin, store
<1>3. ASSUME NEW t \in Tables, Step(t), UNCHANGED ready \/ \E d \in Components : Update(t, d)
      PROVE  FALSE
  BY <1>1, <1>3 DEF Update
<1>4. ASSUME NEW t \in Tables, Step(t)
      PROVE  UNCHANGED ready \/ \E d \in Components : Update(t, d)
  BY <1>4 DEF Step, Stage, ReadActive, GetForValidate, Fetch, Validate, Discard,
              StageEnd, ValidateEnd, UpdateEnd, FetchEnd, store
<1>5. ASSUME NEW d \in Components, UpdateParameters(d) PROVE CopyFromStaged(c)
  <2>1. CASE CopyOut(d)
    BY <2>1 DEF CopyOut, store
  <2>2. CASE CopyFromStaged(d)
    <3>1. ready' = [ready EXCEPT ![d] = FALSE]
      BY <2>2 DEF CopyFromStaged
    <3> QED BY <1>1, <2>2, <3>1
  <2> QED BY <1>5, <2>1, <2>2 DEF UpdateParameters
<1>6. ~UNCHANGED vars
  BY DEF vars, store
<1> QED BY <1>2, <1>3, <1>4, <1>5, <1>6 DEF Next

LEMMA Invariance == Spec => []IInv
<1>1. Init => IInv
  BY InitIInv
<1>2. IInv /\ [Next]_vars => IInv'
  BY NextStep
<1> QED BY <1>1, <1>2, PTL DEF Spec

\* Every variable of the parameters keeps its type.
THEOREM TypeCorrect == Spec => []TypeOK
<1>1. IInv => TypeOK
  <2> SUFFICES ASSUME IInv PROVE TypeOK
    OBVIOUS
  <2>1. \A t \in Tables : task[t] \in TaskRecords
    BY DEF IInv, TypeInv
  <2> QED BY <2>1 DEF IInv, TypeInv, TypeOK, TaskRecords, Phases
<1> QED BY <1>1, Invariance, PTL

\* Set_Ready_To_Update leaves no accepted value behind that the component is
\* not told of, and none that is not the one accepted last.
THEOREM AcceptedStaysFlagged == Spec => []AcceptedIsFlagged
<1>1. IInv => AcceptedIsFlagged
  BY DEF IInv
<1> QED BY <1>1, Invariance, PTL

\* Update_Parameters takes over what passed validation and nothing else,
\* whatever other requests are at work in the meantime.
THEOREM OnlyAcceptedTakenOver == Spec => OnlyAcceptedIsTaken
<1>1. IInv /\ [Next]_vars =>
        [\A p \in Params : Taken(p)' # Taken(p) => Taken(p)' = accepted[p]]_vars
  <2> SUFFICES ASSUME IInv, [Next]_vars, NEW p \in Params, Taken(p)' # Taken(p)
               PROVE  Taken(p)' = accepted[p]
    OBVIOUS
  <2>1. ~Untaken
    BY UntakenFacts
  <2>2. PICK c \in Components : CopyFromStaged(c) \/ CopyOut(c)
    BY <2>1, NextStep
  <2> QED BY <2>2, CopyFromStagedStep, CopyOutStep
<1> QED BY <1>1, Invariance, PTL DEF Spec, OnlyAcceptedIsTaken

\* Where requests are paced, a value that was accepted is never lost to a
\* staging sequence that is given up later.
THEOREM PacedLosesNothing == ASSUME Paced PROVE Spec => []NothingAcceptedIsLost
<1>1. IInv => NothingAcceptedIsLost
  BY DEF IInv, Kept, NothingAcceptedIsLost
<1> QED BY <1>1, Invariance, PTL

\* Where requests are paced, a component that takes an update has all that was
\* accepted for it, from whichever tables.
THEOREM PacedTakesTogether == ASSUME Paced PROVE Spec => TakenTogether
<1>1. IInv /\ [Next]_vars =>
        [\A c \in Components : ready[c] /\ ~ready'[c] =>
            \A p \in Of(c) : Taken(p)' = accepted[p]]_vars
  <2> SUFFICES ASSUME IInv, [Next]_vars, NEW c \in Components, ready[c], ~ready'[c],
                      NEW p \in Of(c)
               PROVE  Taken(p)' = accepted[p]
    OBVIOUS
  <2>1. CopyFromStaged(c)
    BY ReadyKept
  <2>2. Taken(p)' = IF state[p] = "Ready_To_Update" THEN accepted[p] ELSE Taken(p)
    BY <2>1, CopyFromStagedStep
  <2>3. p \in Params
    BY DEF Of
  <2> QED BY <2>2, <2>3 DEF IInv, Kept
<1> QED BY <1>1, Invariance, PTL DEF Spec, TakenTogether

-----------------------------------------------------------------------------
(* What a fetch tells.                                                     *)

\* The values fetched are those of parameters of the table, and a component
\* that is given references to its values has none on their way to them.
FetchInv ==
    /\ \A t \in Tables : task[t].phase = "fetch" => DOMAIN task[t].seen \subseteq In(t)
    /\ \A c \in Components : copying[c] = NotCopying
    /\ FetchTellsAccepted

\* A step of a table's task, after which the task fetches nothing or what it
\* has fetched was accepted, and no other table's values are accepted.
LEMMA FetchStep ==
    ASSUME IInv, FetchInv, NEW t \in Tables, NEW k, To(t, k),
           k.phase = "fetch" =>
               DOMAIN k.seen \subseteq In(t) /\ \A p \in DOMAIN k.seen : k.seen[p] = accepted'[p],
           \A p \in Params : Table[p] # t => accepted'[p] = accepted[p],
           UNCHANGED copying
    PROVE  FetchInv'
<1>1. task' = [u \in Tables |-> IF u = t THEN k ELSE task[u]]
  BY DEF IInv, TypeInv, To
<1>2. ASSUME NEW u \in Tables, u # t, task[u].phase = "fetch", NEW p \in DOMAIN task[u].seen
      PROVE  task[u].seen[p] = accepted'[p]
  <2>1. p \in Params /\ Table[p] # t
    BY <1>2 DEF FetchInv, In
  <2> QED BY <1>2, <2>1 DEF FetchInv, FetchTellsAccepted
<1>3. FetchTellsAccepted'
  BY <1>1, <1>2 DEF FetchTellsAccepted
<1> QED BY <1>1, <1>3 DEF FetchInv

\* A task that turns to fetch has fetched nothing.
LEMMA GoFetchTells ==
    ASSUME NEW t \in Tables, task[t] \in TaskRecords, NEW wanted \in BOOLEAN,
           GoFetch(t, wanted).phase = "fetch"
    PROVE  DOMAIN GoFetch(t, wanted).seen = {}
<1>1. wanted
  BY IdleFacts DEF GoFetch
<1>2. GoFetch(t, wanted).seen = NotCopying
  BY <1>1 DEF GoFetch, Go, TaskRecords
<1> QED BY <1>2 DEF NotCopying

\* A value that is fetched is what was accepted last.
LEMMA FetchTells ==
    ASSUME Paced, ~ByCopy, IInv, FetchInv, NEW t \in Tables, NEW p \in Params, Fetch(t, p)
    PROVE  FetchInv'
<1> DEFINE s == See(t, p, ForFetch(t, p))
           k == [s EXCEPT !.params = @ \ {p}]
<1>1. /\ task[t] \in TaskRecords /\ task[t].phase = "fetch" /\ p \in task[t].params
      /\ task[t].params \subseteq In(t) /\ To(t, k) /\ UNCHANGED <<copying, accepted>>
  BY DEF Fetch, IInv, TypeInv
<1>2. ForFetch(t, p) = accepted[p]
  <2>1. CASE state[p] = "Ready_To_Update"
    BY <2>1 DEF ForFetch, IInv, AcceptedIsFlagged
  <2>2. CASE state[p] # "Ready_To_Update"
    <3>1. Taken(p) = accepted[p]
      BY <2>2 DEF IInv, Kept
    <3>2. Taken(p) = active[p]
      BY ParamFacts DEF FetchInv, Taken
    <3> QED BY <2>2, <3>1, <3>2 DEF ForFetch, ActiveFor
  <2> QED BY <2>1, <2>2
<1>3. k.seen = [q \in DOMAIN task[t].seen \cup {p} |->
                   IF q = p THEN accepted[p] ELSE task[t].seen[q]]
  BY <1>1, <1>2 DEF See, TaskRecords
<1>4. DOMAIN k.seen \subseteq In(t)
  BY <1>1, <1>3 DEF FetchInv
<1>5. \A q \in DOMAIN k.seen : k.seen[q] = accepted'[q]
  BY <1>1, <1>3 DEF FetchInv, FetchTellsAccepted
<1> HIDE DEF k
<1> QED BY <1>1, <1>4, <1>5, FetchStep

LEMMA StepFetches ==
    ASSUME Paced, ~ByCopy, IInv, FetchInv, NEW t \in Tables, Request(t) \/ Step(t)
    PROVE  FetchInv'
<1>1. task[t] \in TaskRecords
  BY DEF IInv, TypeInv
<1>2. ASSUME NEW op, NEW data, Begin(t, op, data) PROVE FetchInv'
  <2>1. UNCHANGED <<copying, accepted>>
    BY <1>2 DEF Begin
  <2>2. CASE op = "Fetch"
    <3>1. PICK k : k = GoFetch(t, TRUE)
      OBVIOUS
    <3>2. To(t, k) /\ (k.phase = "fetch" => DOMAIN k.seen = {})
      BY <1>1, <1>2, <2>2, <3>1, GoFetchTells DEF Begin
    <3> QED BY <2>1, <3>2, FetchStep
  <2>3. CASE op # "Fetch"
    <3>1. PICK k : k = [Idle EXCEPT !.op = op, !.phase = "stage", !.data = data,
                          !.params = {p \in In(t) : EntryOf[p] \in DOMAIN data}]
      OBVIOUS
    <3>2. To(t, k) /\ k.phase = "stage"
      BY <1>2, <2>3, <3>1 DEF Begin, Idle
    <3> QED BY <2>1, <3>2, FetchStep
  <2> QED BY <2>2, <2>3
<1>3. ASSUME Request(t) PROVE FetchInv'
  BY <1>2, <1>3 DEF Request
<1>4. ASSUME NEW p \in Params, Stage(t, p) PROVE FetchInv'
  <2> DEFINE rest == [task[t] EXCEPT !.params = @ \ {p}]
  <2>1. UNCHANGED <<copying, accepted>> /\ task[t].phase = "stage"
    BY <1>4 DEF Stage
  <2>2. PICK k : /\ To(t, k)
                 /\ \/ k = [rest EXCEPT !.touched = @ \cup {Home[p]}]
                    \/ k = GoDiscard(t, task[t].touched)
                    \/ k = [rest EXCEPT !.failed = TRUE]
    BY <1>4 DEF Stage
  <2>3. task[t].touched \in SUBSET Components
    BY <1>1 DEF TaskRecords
  <2>4. GoDiscard(t, task[t].touched).phase # "fetch"
    BY <1>1, <2>3, GoDiscardFacts, GoFacts, IdleFacts DEF Phases
  <2>5. k.phase # "fetch"
    BY <1>1, <2>1, <2>2, <2>4 DEF TaskRecords
  <2> QED BY <2>1, <2>2, <2>5, FetchStep
<1>5. ASSUME NEW p \in Params, ReadActive(t, p) PROVE FetchInv'
  BY <1>5 DEF ReadActive
<1>6. ASSUME NEW p \in Params, GetForValidate(t, p) PROVE FetchInv'
  <2>1. PICK k : k = See(t, p, ForValidate(t, p))
    OBVIOUS
  <2>2. k.phase = "validate"
    BY <1>1, <1>6, <2>1 DEF GetForValidate, See, TaskRecords
  <2> QED BY <1>6, <2>1, <2>2, FetchStep DEF GetForValidate
<1>7. ASSUME NEW p \in Params, Fetch(t, p) PROVE FetchInv'
  BY <1>7, FetchTells
<1>8. ASSUME NEW c \in Components, Validate(t, c) PROVE FetchInv'
  <2>1. PICK k : /\ k = [Go(t, "validate", task[t].comps \ {c}) EXCEPT
                           !.failed = @ \/ ~Valid(c, task[t].seen)]
    OBVIOUS
  <2>2. k.phase = "validate"
    BY <1>1, <2>1 DEF Go, TaskRecords
  <2> QED BY <1>8, <2>1, <2>2, FetchStep DEF Validate
<1>9. ASSUME NEW c \in Components, Update(t, c) PROVE FetchInv'
  <2>1. PICK k : k = Go(t, "update", task[t].comps \ {c})
    OBVIOUS
  <2>2. k.phase = "update"
    BY <1>1, <2>1 DEF Go, TaskRecords
  <2>3. \A p \in Params : Table[p] # t => accepted'[p] = accepted[p]
    BY <1>9 DEF Update, Accept, In
  <2> QED BY <1>9, <2>1, <2>2, <2>3, FetchStep DEF Update
<1>10. ASSUME NEW c \in Components, Discard(t, c) PROVE FetchInv'
  <2>1. PICK k : k = GoDiscard(t, task[t].comps \ {c})
    OBVIOUS
  <2>2. k.phase # "fetch"
    <3>1. task[t].comps \ {c} \in SUBSET Components
      BY <1>1 DEF TaskRecords
    <3> QED BY <1>1, <2>1, <3>1, GoDiscardFacts, GoFacts, IdleFacts DEF Phases
  <2> QED BY <1>10, <2>1, <2>2, FetchStep DEF Discard
<1>11. ASSUME StageEnd(t) PROVE FetchInv'
  <2>1. PICK k : k = Go(t, "validate", Scope(t))
    OBVIOUS
  <2>2. k.phase = "validate"
    BY <1>1, <2>1 DEF Go, TaskRecords
  <2> QED BY <1>11, <2>1, <2>2, FetchStep DEF StageEnd
<1>12. ASSUME ValidateEnd(t) PROVE FetchInv'
  <2>1. PICK k : k = IF Passed(t) THEN Go(t, "update", Scope(t)) ELSE GoDiscard(t, Scope(t))
    OBVIOUS
  <2>2. k.phase # "fetch"
    BY <1>1, <2>1, ScopeFacts, GoDiscardFacts, GoFacts, IdleFacts DEF Phases, IInv
  <2> QED BY <1>12, <2>1, <2>2, FetchStep DEF ValidateEnd
<1>13. ASSUME UpdateEnd(t) PROVE FetchInv'
  <2>1. PICK k : k = GoFetch(t, DumpOnChange)
    OBVIOUS
  <2>2. k.phase = "fetch" => DOMAIN k.seen = {}
    BY <1>1, <2>1, GoFetchTells, ParametersAssumption
  <2> QED BY <1>13, <2>1, <2>2, FetchStep DEF UpdateEnd
<1>14. ASSUME FetchEnd(t) PROVE FetchInv'
  BY <1>14, FetchStep, IdleFacts DEF FetchEnd
<1> QED BY <1>3, <1>4, <1>5, <1>6, <1>7, <1>8, <1>9, <1>10, <1>11, <1>12, <1>13, <1>14 DEF Step

\* Where requests are paced and the compiler passes parameters by reference,
\* a fetch and the dump after an update tell what was accepted last
\* (Fetch_Parameters, component-parameters-implementation.adb).
THEOREM PacedFetchTells ==
    ASSUME Paced, ~ByCopy PROVE Spec => []FetchTellsAccepted
<1>1. Init => FetchInv
  BY IdleFacts DEF Init, FetchInv, FetchTellsAccepted
<1>2. IInv /\ FetchInv /\ [Next]_vars => FetchInv'
  <2> SUFFICES ASSUME IInv, FetchInv, [Next]_vars PROVE FetchInv'
    OBVIOUS
  <2>1. CASE UNCHANGED vars
    BY <2>1 DEF vars, FetchInv, FetchTellsAccepted
  <2>2. ASSUME NEW t \in Tables, Request(t) \/ Step(t) PROVE FetchInv'
    BY <2>2, StepFetches
  <2>3. ASSUME NEW c \in Components, UpdateParameters(c) PROVE FetchInv'
    <3>1. UNCHANGED <<task, copying, accepted>>
      BY <2>3 DEF UpdateParameters, CopyFromStaged, CopyOut, FetchInv
    <3> QED BY <3>1 DEF FetchInv, FetchTellsAccepted
  <2> QED BY <2>1, <2>2, <2>3 DEF Next
<1>3. FetchInv => FetchTellsAccepted
  BY DEF FetchInv
<1> QED BY <1>1, <1>2, <1>3, Invariance, PTL DEF Spec
=============================================================================
