SPECIFICATION Spec
CONSTANTS
    c1 = c1
    c2 = c2
    low = low
    high = high
    copy = copy
    t1 = t1
    t2 = t2
    Tables = {t1, t2}
    Components = {c1}
    Params <- MCTwoParams
    Entries <- MCEntries
    Values = {1, 2}
    InRange = {1, 2}
    NoValue = NoValue
    Table <- MCTwoTable
    Home <- MCHome
    EntryOf <- MCEntryOf
    Valid <- MCValid
    DumpOnChange = FALSE
    ByCopy = TRUE
    Paced = FALSE

PROPERTY
    OnlyAcceptedIsTaken
