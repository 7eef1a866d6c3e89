SPECIFICATION Spec
CONSTANTS
    Request = {r1, r2}
    Server = {"k8s", "client", "plain"}
    servers <- MCservers
    headers <- MCheaders
    tools <- MCtools
SYMMETRY Symmetry
CHECK_DEADLOCK FALSE
INVARIANTS
    OwnCredentials
    DefaultScopeIsCommon
