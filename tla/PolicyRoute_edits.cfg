CONSTANTS
    a = a
    b = b
    c = c
    d = d
    MaxClauses = 9
    Names <- MCFewNames
    Stored <- MCStored
    NodeIds = {10}
    ActionArgs = {"permit"}
    MatchKinds = {"acl"}
    RouteKinds = {}
    Values = {v1}
    PrecedenceArgs = {}
    DscpArgs = {}
    MaxPolicies = 2
    MaxNodes = 1
    Unset = Unset
    NoName = NoName
SPECIFICATION Spec
PROPERTY EditsReachPromptedNode
