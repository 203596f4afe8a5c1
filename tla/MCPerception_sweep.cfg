SPECIFICATION PerceptionSpec
CONSTANTS
    Pods <- MCPods
    NsOf <- MCNsOf
    PodStates <- MCPodStates
    EventReasons = {"BackOff"}
    QueueSize = 2
    Deployments <- SweepOnly
    PipeBound = 1
    MaxLag = 1
    Names <- MCNames
    Playbook <- MCPlaybook
    BaseNames <- MCBaseNames
    Debounce <- MCDebounce
    ArmTTL = 1
    RefireTTL = 1
    Trends = {"quiet", "crossing", "down"}
    ProtectedNamespaces = {"kube-system"}
    Stored <- MCStored
    Legal <- MCLegal
    Healthy <- MCHealthy
    Compiled <- MCCompiled
    Learned = {"learned"}
    Proposed <- MCProposed
    Reviewers = {"p", "q"}
    MaxReviews = 2
    BaseBlocks <- MCBaseBlocks
    Legacy <- MCLegacy
INVARIANTS SweepNeverPanics
