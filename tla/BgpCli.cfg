CONSTANTS
    p = p
    q = q
    as1 = as1
    as2 = as2
    Addresses <- MCAddresses
    AsNumbers <- MCAsNumbers
    Keys <- MCKeys
    BgpKey <- MCBgpKey
    ConfigValues <- MCConfigValues
    ConfederationArgs <- MCConfederationArgs
    RouterIds = {r}
    Directions = {"import"}
    ConfederationIds = {cid}
    Texts = {t}
    Aggregates = {g}
    MaxPeers = 2
    MaxAggregates = 1
    MaxConfederationPeers = 1
    Absent = Absent
    NoAs = NoAs
    NoArg = NoArg
    Enabled = Enabled
    Empty = Empty
SPECIFICATION Spec
INVARIANTS
    TypeOK
    PeersRecorded
    ReflectorsRecorded
SYMMETRY Symmetry
