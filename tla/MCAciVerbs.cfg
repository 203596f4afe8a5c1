SPECIFICATION Spec
CONSTANTS
    Plurals <- MCPlurals
    BlockedNamespaces = {"kube-system"}
    BlockedResources = {"secret"}
    Objects <- MCObjects
    Singular <- MCSingular
    DefaultNs = "shop"
    KubectlValueFlags <- MCKubectlValueFlags
    OthersBound = 1
    Jobs <- MCJobs
    App <- MCApp
INVARIANTS AskedBeforeChanged InfrastructureWithheld PartialIsSaid VerdictsAreEarned RestorableIsFaithful
CHECK_DEADLOCK FALSE
