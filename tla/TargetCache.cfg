INIT WhatInit
NEXT WhatNext
CONSTANTS
 Nothing = Nothing
 Directories = {dirA, dirB}
 Sources = {file}
 Builds = {}
 Askers = {asker}
 MaxTime = 4

INVARIANT WhatIsCurrent

CHECK_DEADLOCK FALSE
