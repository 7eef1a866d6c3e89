SPECIFICATION Spec
CONSTANTS
    kubeadmin = kubeadmin
    other = other
    tk = tk
    to = to
    Token = {tk, to}
    Username = {kubeadmin, other}
    allowed <- MCallowed
    owner <- MCowner
    Nobody = Nobody
    KubeAdmin = kubeadmin
    ClusterId = clusterid
    DefaultUser = default
    Request = {r1, r2}
    filters <- MCfilters
    Text <- MCText
    MaxAttachments = 1
SYMMETRY Symmetry
CHECK_DEADLOCK FALSE
INVARIANTS
    OnlyAdmitted
    NothingUnredacted
    AuditAgreesWithClient
    CompletedIsDurable
    ListedHasExisted
