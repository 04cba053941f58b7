SPECIFICATION Spec
CONSTANTS
    None = None
    a = a
    b = b
    aPod = aPod
    bPod = bPod
    Jobs = {a}
    Pods = {aPod}
    KindOf <- OneSlurmJob
    SpecsOf <- ResourcesOrDangling
    PodOf <- OnePod
    MaxIncarnations = 2
    MaxCrashes = 0
    MaxCallFailures = 0
    MaxPodDeletions = 1
    MaxEdits = 1
    MaxLag = 1
CHECK_DEADLOCK FALSE
INVARIANTS NeverForgotten
