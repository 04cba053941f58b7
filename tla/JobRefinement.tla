--------------------------- MODULE JobRefinement ---------------------------
(***************************************************************************)
(* The operator implements JobLifecycle, as long as every job can be       *)
(* translated to a pod, with a name of its own, no job is submitted twice  *)
(* and nobody deletes a pod.                                               *)
(***************************************************************************)
EXTENDS JobReconciler

Life == [j \in Jobs |-> IF incarnation[j] = 0 THEN "none"
                        ELSE IF IsLive(j) THEN "live" ELSE "deleted"]

Lifecycle == INSTANCE JobLifecycle
    WITH life <- Life,
         status <- [j \in Jobs |-> job[j].status],
         phase <- [j \in Jobs |-> pod[PodOf[j]].phase]

(* Every step of the cluster and of the operator is a step of the promised *)
(* life of a job, or none, and the promised steps are taken.               *)
ImplementsLifecycle == Lifecycle!FairSpec
=============================================================================
