SPECIFICATION FairSpec
CONSTANTS
    None = None
    a = a
    b = b
    aPod = aPod
    bPod = bPod
    Jobs = {a}
    Pods = {aPod}
    KindOf <- OneWlmJob
    SpecsOf <- NoResources
    PodOf <- OnePod
    MaxIncarnations = 1
    MaxCrashes = 1
    MaxCallFailures = 1
    MaxPodDeletions = 0
    MaxEdits = 0
    MaxLag = 1
CHECK_DEADLOCK FALSE
INVARIANTS TypeOK QueueIntegrity NeverForgotten StatusBehindPod
PROPERTIES StatusNeverRegresses ImplementsLifecycle StatusConverges
