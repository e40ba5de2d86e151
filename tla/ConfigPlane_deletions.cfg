CONSTANTS
    n1 = n1
    d1 = d1
    i1 = i1
    as1 = as1
    as2 = as2
    on = on
    NoArg = NoArg
    Absent = Absent
    NoAs = NoAs
    Unpromised = Unpromised
    Enabled = on
    Keys <- MCKeys
    BgpKey <- MCBgpKey
    ConfigValues <- MCConfigValues
    YangValues <- MCYangValues
    Interfaces = {i1}
    Neighbors = {n1}
    Workers = {}
    Batches <- MCBatches
    AllowConfig = TRUE
    CliBatches = {}
    MaxCrashes = 0
    MaxEdits = 2
SPECIFICATION Spec
PROPERTY
    InStep
CHECK_DEADLOCK FALSE
