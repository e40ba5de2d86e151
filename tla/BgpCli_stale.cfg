CONSTANTS
    p = p
    q = q
    as1 = as1
    as2 = as2
    Addresses <- MCAddresses
    AsNumbers <- MCAsNumbers
    Keys <- MCKeys
    BgpKey <- MCBgpKey
    ConfigValues <- MCConfigValues
    ConfederationArgs = {}
    RouterIds = {}
    Directions = {}
    ConfederationIds = {}
    Texts = {}
    Aggregates = {}
    MaxPeers = 2
    MaxAggregates = 1
    MaxConfederationPeers = 1
    Absent = Absent
    NoAs = NoAs
    NoArg = NoArg
    Enabled = Enabled
    Empty = Empty
SPECIFICATION Spec
INVARIANTS
    FirstEntryCurrent
