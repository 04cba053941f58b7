-------------------------- MODULE MCJobReconciler --------------------------
(***************************************************************************)
(* Instances of JobReconciler for TLC: which jobs there are, what they ask *)
(* for, and the pod names they are translated to.                          *)
(***************************************************************************)
EXTENDS JobRefinement, TLC

CONSTANTS a, b, aPod, bPod

OneSlurmJob == a :> "SlurmJob"
OneWlmJob == a :> "WlmJob"
TwoSlurmJobs == (a :> "SlurmJob") @@ (b :> "SlurmJob")

OnePod == a :> aPod
OwnPods == (a :> aPod) @@ (b :> bPod)

OnlyResources == a :> {"resources"}
NoResources == a :> {"none"}
ResourcesOrDangling == a :> {"resources", "dangling"}
FirstDangling == (a :> {"dangling"}) @@ (b :> {"resources"})
FirstRefused == (a :> {"none"}) @@ (b :> {"resources"})
=============================================================================
