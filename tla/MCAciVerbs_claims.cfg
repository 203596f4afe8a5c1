SPECIFICATION Spec
CONSTANTS
    Plurals <- MCPlurals
    BlockedNamespaces = {"kube-system"}
    BlockedResources = {"secret"}
    Objects <- MCObjects
    Singular <- MCSingular
    DefaultNs = "shop"
    KubectlValueFlags <- MCKubectlValueFlags
    OthersBound = 1
    Jobs <- ClaimedJobs
    App <- MCApp
CHECK_DEADLOCK FALSE
\* None of these holds: TLC stops at the first, so check one at a time.
INVARIANTS
    InfrastructureUnread
    InfrastructureUntouched
    NothingUnasked
    RehearsalsChangeNothing
    RestorableIsWhole
