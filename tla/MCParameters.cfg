SPECIFICATION FairSpec
CONSTANTS
    c1 = c1
    c2 = c2
    low = low
    high = high
    copy = copy
    t1 = t1
    t2 = t2
    Tables = {t1}
    Components = {c1, c2}
    Params <- MCParams
    Entries <- MCEntries
    Values = {1, 2, 3}
    InRange = {1, 2}
    NoValue = NoValue
    Table <- MCTable
    Home <- MCHome
    EntryOf <- MCEntryOf
    Valid <- MCValid
    DumpOnChange = TRUE
    ByCopy = FALSE
    Paced = TRUE

INVARIANTS
    NothingAcceptedIsLost
    FetchTellsAccepted

PROPERTY
    AcceptedIsApplied
