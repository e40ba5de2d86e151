CONSTANTS
    p = p
    q = q
    area1 = area1
    area2 = area2
    area3 = area3
    MaxItems = 2
    MaxEdits = 1
    Keys <- MCKeys
    BgpKey <- MCBgpKey
    ConfigValues <- MCConfigValues
    ProcessIds <- MCProcessIds
    RouterIds = {r}
    AreaIds <- MCAreaIds
    Neighbors <- MCNames
    Bandwidths <- MCBandwidths
    Nets = {n}
    Networks <- MCNames
    Interfaces <- MCNames
    Passwords = {s}
    Routes <- MCNames
    Preferences <- MCPreferences
    MaxAreas = 2
    MaxVlinks = 1
    MaxNetworks = 2
    MaxSilent = 2
    Word = 1024
    Absent = Absent
    NoAs = NoAs
    NoArg = NoArg
    Enabled = Enabled
    Empty = Empty
SPECIFICATION MCSpec
CONSTRAINT Few
INVARIANTS
    TypeOK
    AreasRecorded
    VirtualLinksRecorded
PROPERTIES
    TakenAsWritten
    RipWipedLast
SYMMETRY Symmetry
