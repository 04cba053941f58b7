SPECIFICATION FairSpec
CONSTANTS
    None = None
    a = a
    b = b
    aPod = aPod
    bPod = bPod
    Jobs = {a, b}
    Pods = {aPod, bPod}
    KindOf <- TwoSlurmJobs
    SpecsOf <- FirstRefused
    PodOf <- OwnPods
    MaxIncarnations = 1
    MaxCrashes = 0
    MaxCallFailures = 0
    MaxPodDeletions = 0
    MaxEdits = 0
    MaxLag = 1
CHECK_DEADLOCK FALSE
PROPERTIES EveryTranslatedJobIsReported
