CONSTANTS
    a = a
    b = b
    c = c
    t = t
    MaxEdits = 2
    Kinds <- MCKinds
    Capacity <- MCCapacity
    NoView = NoView
    Unset = Unset
    ZoneNames <- MCNames
    RuleNames <- MCNames
    Interfaces <- MCTexts
    ZonePriorities <- MCZonePriorities
    RuleFields = {"source_zone", "service"}
    RuleTexts <- MCTexts
    MaxMembers = 2
    AclNumbers <- MCAclNumbers
    RuleIds = {0, 10}
    AclTexts <- MCTexts
    MaxAclRules = 2
    QosNames <- MCNames
    QosTexts <- MCTexts
    QosNumbers <- MCQosNumbers
    MaxConditions = 2
    MaxActions = 2
    MaxBindings = 2
    LastQueue = 1
    Word = 65536
    UserNames = {u, v}
    Passwords = {x, y}
    Services <- MCTexts
    Servers <- MCTexts
    TunnelIds <- MCTrackIds
    Endpoints <- MCTexts
    AaaNumbers <- MCNumbers
    VlanIds <- MCVlanIds
    IpAddresses <- MCTexts
    Parents <- MCTexts
    VlanTexts <- MCTexts
    VrIds <- MCVlanIds
    TrackIds <- MCTrackIds
    SessionNames <- MCNames
    HaTexts <- MCTexts
    HaNumbers <- MCNumbers
    Discriminators = {"d1", "d2"}
    MaxVirtualIps = 2
    MaxVrrpTracks = 1
    MaxOperands = 1
SPECIFICATION MCSpec
CONSTRAINT FewEdits
INVARIANT AddressesInstalled
SYMMETRY Symmetry
CHECK_DEADLOCK FALSE
