------------------------------ MODULE Parameters ----------------------------
(***************************************************************************)
(* Updating the parameters of running components.  A table is managed by a *)
(* Parameters component, whose task stages new values in the components    *)
(* that use them, has the components validate what they would then run     *)
(* with, and only then tells them to update or to discard what is staged.  *)
(* A component keeps its working values to its own task, which takes the   *)
(* staged values over whenever it calls Update_Parameters; between the two *)
(* tasks stands the generated protected object Protected_Staged_Parameters.*)
(*                                                                         *)
(* A handler of a Parameters component is a sequence of calls on protected *)
(* objects, and each of those is one step here.  Tables, entries and       *)
(* components are visited in any order.  Requests of the wrong length or   *)
(* with a bad CRC change nothing and are left out, as are the events.      *)
(***************************************************************************)
EXTENDS Naturals, FiniteSets

CONSTANTS
    Tables,         \* the tables, each with a Parameters component
    Components,     \* the components with parameters
    Params,         \* the parameters of all of them
    Entries,        \* the entries of all tables
    Values,         \* the values uploaded
    InRange,        \* those that are in the range of their type
    NoValue,        \* not a value
    Table,          \* the table that manages a parameter
    Home,           \* the component a parameter belongs to
    EntryOf,        \* its entry, that grouped parameters share
    Valid(_, _),    \* Validate_Parameters of a component, of all its values
    DumpOnChange,   \* Dump_Parameters_On_Change
    ByCopy,         \* the compiler passes parameter values by copy
    Paced           \* requests come after the last update was taken over

ASSUME ParametersAssumption ==
    /\ Table \in [Params -> Tables]
    /\ Home \in [Params -> Components]
    /\ EntryOf \in [Params -> Entries]
    /\ \A p, q \in Params : EntryOf[p] = EntryOf[q] => Table[p] = Table[q]
    /\ InRange \subseteq Values
    /\ NoValue \notin Values
    /\ DumpOnChange \in BOOLEAN /\ ByCopy \in BOOLEAN /\ Paced \in BOOLEAN

Of(c) == {p \in Params : Home[p] = c}
In(t) == {p \in Params : Table[p] = t}
Connected(t) == {Home[p] : p \in In(t)}

VARIABLES
    state, stagedBy,    \* the status of every parameter
    staged,             \* the value staged for it
    ready,              \* Params_Ready_To_Update of every component
    active,             \* the working value of every parameter
    copying,            \* the values a component is about to write to them
    task,               \* what the task of every table is at
    accepted            \* history: the last value accepted for a parameter

store == <<state, stagedBy, staged, ready>>
vars == <<store, active, copying, task, accepted>>

NotCopying == [p \in {} |-> NoValue]

Idle == [op      |-> "Idle",        \* the request
         phase   |-> "idle",        \* the loop of its handler
         data    |-> NotCopying,    \* the values it carries
         params  |-> {},            \* the parameters the loop has to visit
         comps   |-> {},            \* the components the loop has to visit
         touched |-> {},            \* Components_To_Update
         failed  |-> FALSE,         \* the status is not Success
         before  |-> NoValue,       \* a working value read for a call
         seen    |-> NotCopying]    \* the values validated or fetched

Init ==
    /\ active \in [Params -> InRange]
    /\ \A c \in Components : Valid(c, [p \in Of(c) |-> active[p]])
    /\ staged = active
    /\ state = [p \in Params |-> "Updated"]
    /\ stagedBy = [p \in Params |-> NoValue]
    /\ ready = [c \in Components |-> FALSE]
    /\ copying = [c \in Components |-> NotCopying]
    /\ task = [t \in Tables |-> Idle]
    /\ accepted = active

-----------------------------------------------------------------------------
(* The task of a component.                                                *)

\* Copy_From_Staged takes over what is ready.
Takes(p) == state[p] = "Ready_To_Update"

\* Copy_From_Staged, a protected procedure that Update_Parameters calls when
\* Params_Ready_To_Update is set.  Where its parameters are passed by copy
\* they reach the working values only after it has returned.
CopyFromStaged(c) ==
    /\ ready[c]
    /\ copying[c] = NotCopying
    /\ LET taken == {p \in Of(c) : Takes(p)} IN
       /\ state' = [p \in Params |-> IF p \in taken THEN "Updated" ELSE state[p]]
       /\ IF ByCopy
          THEN /\ copying' = [copying EXCEPT ![c] =
                     [p \in Of(c) |-> IF p \in taken THEN staged[p] ELSE active[p]]]
               /\ UNCHANGED active
          ELSE /\ active' = [p \in Params |-> IF p \in taken THEN staged[p]
                                              ELSE active[p]]
               /\ UNCHANGED copying
    /\ ready' = [ready EXCEPT ![c] = FALSE]
    /\ UNCHANGED <<stagedBy, staged, task, accepted>>

CopyOut(c) ==
    /\ copying[c] # NotCopying
    /\ active' = [p \in Params |-> IF p \in Of(c) THEN copying[c][p] ELSE active[p]]
    /\ copying' = [copying EXCEPT ![c] = NotCopying]
    /\ UNCHANGED <<store, task, accepted>>

UpdateParameters(c) == CopyFromStaged(c) \/ CopyOut(c)

-----------------------------------------------------------------------------
(* The task of a table.                                                    *)

\* The components the handler of the request deals with.
Scope(t) == IF task[t].op = "Update_Parameter" THEN task[t].touched
            ELSE Connected(t)

To(t, changes) == task' = [task EXCEPT ![t] = changes]

Go(t, phase, comps) ==
    [task[t] EXCEPT !.phase = phase, !.comps = comps,
                    !.before = NoValue, !.seen = NotCopying]

\* The loop that fetches all parameters of the table, or the end.
GoFetch(t, wanted) ==
    IF wanted THEN [Go(t, "fetch", {}) EXCEPT !.params = In(t)] ELSE Idle

\* The loop that discards what is staged, or the end where nothing is.
GoDiscard(t, comps) ==
    IF comps = {} THEN Idle ELSE Go(t, "discard", comps)

\* A request: a table to set or to validate, one entry to update, or the
\* values to fetch.
Begin(t, op, data) ==
    /\ task[t].phase = "idle"
    /\ Paced => \A c \in Connected(t) : ~ready[c]
    /\ To(t, IF op = "Fetch" THEN GoFetch(t, TRUE)
             ELSE [Idle EXCEPT !.op = op, !.phase = "stage", !.data = data,
                               !.params = {p \in In(t) : EntryOf[p] \in DOMAIN data}])
    /\ UNCHANGED <<store, active, copying, accepted>>

\* The generated stage procedure validates the bytes of the value.
Accepts(value) == value \in InRange

\* Stage_Parameter: a value out of range is refused.  Update_Parameter then
\* gives up; a table is staged to its end.
Stage(t, p) ==
    /\ task[t].phase = "stage"
    /\ p \in task[t].params
    /\ LET value == task[t].data[EntryOf[p]]
           rest  == [task[t] EXCEPT !.params = @ \ {p}]
       IN  IF Accepts(value)
           THEN /\ staged' = [staged EXCEPT ![p] = value]
                /\ state' = [state EXCEPT ![p] = "Staged"]
                /\ stagedBy' = [stagedBy EXCEPT ![p] = t]
                /\ To(t, [rest EXCEPT !.touched = @ \cup {Home[p]}])
           ELSE /\ To(t, IF task[t].op = "Update_Parameter"
                         THEN GoDiscard(t, task[t].touched)
                         ELSE [rest EXCEPT !.failed = TRUE])
                /\ UNCHANGED <<state, stagedBy, staged>>
    /\ UNCHANGED <<ready, active, copying, accepted>>

StageEnd(t) ==
    /\ task[t].phase = "stage"
    /\ task[t].params = {}
    /\ To(t, Go(t, "validate", Scope(t)))
    /\ UNCHANGED <<store, active, copying, accepted>>

\* The working value of a parameter, evaluated for a call of the protected
\* object before the call where it is passed by copy, and within it if not.
ReadActive(t, p) ==
    /\ ByCopy
    /\ \/ /\ task[t].phase = "validate"
          /\ Home[p] \in task[t].comps
          /\ \A q \in DOMAIN task[t].seen : Home[q] = Home[p]
       \/ task[t].phase = "fetch" /\ p \in task[t].params
    /\ p \notin DOMAIN task[t].seen
    /\ task[t].before = NoValue
    /\ To(t, [task[t] EXCEPT !.before = <<p, active[p]>>])
    /\ UNCHANGED <<store, active, copying, accepted>>

ActiveFor(t, p) == IF ByCopy THEN task[t].before[2] ELSE active[p]

CanCall(t, p) ==
    /\ p \notin DOMAIN task[t].seen
    /\ ByCopy => task[t].before # NoValue /\ task[t].before[1] = p

See(t, p, value) ==
    [task[t] EXCEPT !.before = NoValue,
                    !.seen = [q \in DOMAIN @ \cup {p} |->
                                 IF q = p THEN value ELSE @[q]]]

\* Get_For_Validate: what is staged by this table or waits to be taken over,
\* or else the working value.
ForValidate(t, p) ==
    IF \/ state[p] = "Staged" /\ stagedBy[p] = t
       \/ state[p] = "Ready_To_Update"
    THEN staged[p] ELSE ActiveFor(t, p)

\* One argument of the call of a component's Validate_Parameters.
GetForValidate(t, p) ==
    /\ task[t].phase = "validate"
    /\ Home[p] \in task[t].comps
    /\ \A q \in DOMAIN task[t].seen : Home[q] = Home[p]
    /\ CanCall(t, p)
    /\ To(t, See(t, p, ForValidate(t, p)))
    /\ UNCHANGED <<store, active, copying, accepted>>

Validate(t, c) ==
    /\ task[t].phase = "validate"
    /\ c \in task[t].comps
    /\ DOMAIN task[t].seen = Of(c)
    /\ To(t, [Go(t, "validate", task[t].comps \ {c}) EXCEPT
                 !.failed = @ \/ ~Valid(c, task[t].seen)])
    /\ UNCHANGED <<store, active, copying, accepted>>

\* Whether what is staged is to be applied.
Passed(t) == task[t].op # "Validate" /\ ~task[t].failed

ValidateEnd(t) ==
    /\ task[t].phase = "validate"
    /\ task[t].comps = {}
    /\ To(t, IF Passed(t) THEN Go(t, "update", Scope(t))
             ELSE GoDiscard(t, Scope(t)))
    /\ UNCHANGED <<store, active, copying, accepted>>

\* Faulty: Set_Ready_To_Update marks what any table staged.
StagedByAny(t, p) == state[p] = "Staged"

StagedByThisTable(t, p) == state[p] = "Staged" /\ stagedBy[p] = t

\* The parameters marked, and the history of what the request asked for.
Mark(marked) ==
    /\ state' = [p \in Params |-> IF p \in marked THEN "Ready_To_Update" ELSE state[p]]
    /\ stagedBy' = [p \in Params |-> IF p \in marked THEN NoValue ELSE stagedBy[p]]

Accept(t, c) ==
    accepted' = [p \in Params |->
        IF p \in Of(c) \cap In(t) /\ EntryOf[p] \in DOMAIN task[t].data
        THEN task[t].data[EntryOf[p]] ELSE accepted[p]]

\* Faulty: the parameters are marked, and the component is not told.
UpdateUnflagged(t, c) ==
    /\ task[t].phase = "update"
    /\ c \in task[t].comps
    /\ Mark({p \in Of(c) : StagedByThisTable(t, p)})
    /\ Accept(t, c)
    /\ To(t, Go(t, "update", task[t].comps \ {c}))
    /\ UNCHANGED <<staged, ready, active, copying>>

\* Set_Ready_To_Update, in one protected call.
Update(t, c) ==
    /\ task[t].phase = "update"
    /\ c \in task[t].comps
    /\ Mark({p \in Of(c) : StagedByThisTable(t, p)})
    /\ Accept(t, c)
    /\ ready' = [ready EXCEPT ![c] = TRUE]
    /\ To(t, Go(t, "update", task[t].comps \ {c}))
    /\ UNCHANGED <<staged, active, copying>>

UpdateEnd(t) ==
    /\ task[t].phase = "update"
    /\ task[t].comps = {}
    /\ To(t, GoFetch(t, DumpOnChange))
    /\ UNCHANGED <<store, active, copying, accepted>>

\* Discard_Staged.
Discard(t, c) ==
    /\ task[t].phase = "discard"
    /\ c \in task[t].comps
    /\ LET dropped == {p \in Of(c) : StagedByThisTable(t, p)} IN
       /\ state' = [p \in Params |-> IF p \in dropped THEN "Updated" ELSE state[p]]
       /\ stagedBy' = [p \in Params |-> IF p \in dropped THEN NoValue ELSE stagedBy[p]]
    /\ To(t, GoDiscard(t, task[t].comps \ {c}))
    /\ UNCHANGED <<staged, ready, active, copying, accepted>>

\* Faulty: a fetch always returns the working value.
ForFetchActive(t, p) == ActiveFor(t, p)

\* Get_For_Fetch: what waits to be taken over, or else the working value.
ForFetch(t, p) ==
    IF state[p] = "Ready_To_Update" THEN staged[p] ELSE ActiveFor(t, p)

Fetch(t, p) ==
    /\ task[t].phase = "fetch"
    /\ p \in task[t].params
    /\ CanCall(t, p)
    /\ To(t, [See(t, p, ForFetch(t, p)) EXCEPT !.params = @ \ {p}])
    /\ UNCHANGED <<store, active, copying, accepted>>

FetchEnd(t) ==
    /\ task[t].phase = "fetch"
    /\ task[t].params = {}
    /\ To(t, Idle)
    /\ UNCHANGED <<store, active, copying, accepted>>

-----------------------------------------------------------------------------
EntriesOf(t) == {EntryOf[p] : p \in In(t)}

Request(t) ==
    \/ \E data \in [EntriesOf(t) -> Values] :
          Begin(t, "Set", data) \/ Begin(t, "Validate", data)
    \/ \E e \in EntriesOf(t), v \in Values :
          Begin(t, "Update_Parameter", [x \in {e} |-> v])
    \/ Begin(t, "Fetch", NotCopying)

Step(t) ==
    \/ \E p \in Params : \/ Stage(t, p)
                         \/ ReadActive(t, p)
                         \/ GetForValidate(t, p)
                         \/ Fetch(t, p)
    \/ \E c \in Components : Validate(t, c) \/ Update(t, c) \/ Discard(t, c)
    \/ StageEnd(t)
    \/ ValidateEnd(t)
    \/ UpdateEnd(t)
    \/ FetchEnd(t)

Next ==
    \/ \E t \in Tables : Request(t) \/ Step(t)
    \/ \E c \in Components : UpdateParameters(c)

Spec == Init /\ [][Next]_vars

\* A handler runs to its end, and a component calls Update_Parameters each
\* time round its loop.
FairSpec ==
    /\ Spec
    /\ \A t \in Tables : WF_vars(Step(t))
    /\ \A c \in Components : WF_vars(UpdateParameters(c))

-----------------------------------------------------------------------------
(* Properties.                                                             *)

PartialValues == UNION {[S -> Values] : S \in SUBSET Params}

TypeOK ==
    /\ state \in [Params -> {"Staged", "Ready_To_Update", "Updated"}]
    /\ stagedBy \in [Params -> Tables \cup {NoValue}]
    /\ staged \in [Params -> InRange]
    /\ ready \in [Components -> BOOLEAN]
    /\ active \in [Params -> InRange]
    /\ copying \in [Components -> PartialValues]
    /\ accepted \in [Params -> InRange]
    /\ \A t \in Tables :
        /\ task[t].phase \in {"idle", "stage", "validate", "update", "discard", "fetch"}
        /\ task[t].params \subseteq In(t)
        /\ task[t].comps \subseteq Components
        /\ task[t].touched \subseteq Components
        /\ task[t].failed \in BOOLEAN
        /\ task[t].seen \in PartialValues

\* The value a component has taken over, if it has yet to write it or not.
Taken(p) == IF copying[Home[p]] = NotCopying THEN active[p]
            ELSE copying[Home[p]][p]

\* A component only ever takes over the value that the last request to pass
\* validation asked for, and never what a request that failed, or is still at
\* work, staged, of this table or of another.
OnlyAcceptedIsTaken ==
    [][\A p \in Params : Taken(p)' # Taken(p) => Taken(p)' = accepted[p]]_vars

\* What was accepted and not taken over yet, the component knows of.
AcceptedIsFlagged ==
    \A p \in Params : state[p] = "Ready_To_Update" =>
        staged[p] = accepted[p] /\ ready[Home[p]]

\* Of all that was accepted for a component nothing is left behind when it
\* takes an update: "all parameters are updated together".
TakenTogether ==
    [][\A c \in Components : ready[c] /\ ~ready'[c] =>
          \A p \in Of(c) : Taken(p)' = accepted[p]]_vars

\* A value that was accepted is in use, or waits in the store: a staging
\* sequence that is given up returns the store to where it was before.
NothingAcceptedIsLost ==
    \A p \in Params : state[p] = "Updated" => Taken(p) = accepted[p]

\* A fetch, and the dump that follows an update, tell what was accepted last,
\* whether the component has taken it over by then or not.
FetchTellsAccepted ==
    \A t \in Tables : task[t].phase = "fetch" =>
        \A p \in DOMAIN task[t].seen : task[t].seen[p] = accepted[p]

\* Every component comes to work with what was accepted for it last.
AcceptedIsApplied ==
    \A p \in Params, v \in InRange :
        accepted[p] = v ~> active[p] = v \/ accepted[p] # v

=============================================================================
