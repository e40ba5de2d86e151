CONSTANTS
    a = a
    b = b
    c = c
    d = d
    MaxClauses = 2
    Names <- MCFewNames
    Stored <- MCStored
    NodeIds = {0, 20, 30}
    ActionArgs = {"permit", "deny"}
    MatchKinds <- MCMatchKinds
    RouteKinds <- MCRouteKinds
    Values = {v1}
    PrecedenceArgs <- MCPrecedenceArgs
    DscpArgs <- MCDscpArgs
    MaxPolicies = 1
    MaxNodes = 2
    Unset = Unset
    NoName = NoName
SPECIFICATION Spec
CONSTRAINT FewClauses
INVARIANTS
    TypeOK
    UniqueNodeIds
SYMMETRY Symmetry
