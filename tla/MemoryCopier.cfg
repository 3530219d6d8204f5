SPECIFICATION FairSpec
CONSTANTS
    Copier = copier
    Manager = manager
    NoId = NoId
    Modulus = 3
    Limit = 1
    Depth = 2
    MaxCopies = 3

INVARIANTS
    FinishedCopyWasMade
    SourceHeldWhileCopied

PROPERTY
    CommandEnds
