SPECIFICATION FairSpec
CONSTANTS
    older = older
    newer = newer
    reclaim = reclaim
    Label = {l1, l2}
    Old = {l1}
    Build = {older, newer}
    Takes <- MCTakes
    Options <- MCOptions
    Installer = {i1, i2}
    Remover = {r1}
    MaxWaits = 1
    MaxReboots = 1
INVARIANT JobsFitTheirBinary
PROPERTIES LoadedIsNew CommandsEnd
CHECK_DEADLOCK FALSE
