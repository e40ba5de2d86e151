CONSTANTS
    a = a
    b = b
    c = c
    d = d
    MaxClauses = 9
    Names <- MCNames
    Stored <- MCStored
    NodeIds = {10, 20}
    ActionArgs = {"permit"}
    MatchKinds = {"acl"}
    RouteKinds = {}
    Values = {v1}
    PrecedenceArgs = {}
    DscpArgs = {}
    MaxPolicies = 3
    MaxNodes = 1
    Unset = Unset
    NoName = NoName
SPECIFICATION Spec
INVARIANTS
    UniqueNames
    LiveSlotsFilled
    PromptNotAhead
    ViewCoherent
PROPERTY ImplementsStore
SYMMETRY Symmetry
