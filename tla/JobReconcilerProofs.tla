------------------------ MODULE JobReconcilerProofs ------------------------
(***************************************************************************)
(* Theorems about JobReconciler, for all jobs, pods and bounds: TypeOK,    *)
(* QueueIntegrity and NeverForgotten, each from an invariant of its own.   *)
(***************************************************************************)
EXTENDS JobReconciler, TLAPS

(* A busy worker has a job of its own kind. *)
WorkerKeys == \A k \in Kinds :
    IF worker[k].pc = "idle"
    THEN worker[k] = Idle
    ELSE worker[k].key \in Jobs /\ KindOf[worker[k].key] = k

(* The queue of a controller has jobs of its kind. *)
QueueKeys == \A k \in Kinds : \A i \in 1..Len(queue[k]) : KindOf[queue[k][i]] = k

(* What is on the wire are calls, for jobs. *)
LateKeys == \A c \in late : c.pc \in Calls /\ c.key \in Jobs

KeysOK == WorkerKeys /\ QueueKeys /\ LateKeys

TypeInv == TypeOK /\ KeysOK

LEMMA ObjectTypes ==
    /\ NoJob \in JobObject
    /\ NoPod \in PodObject
    /\ \A uid \in Nat, spec \in Specs : NewJob(uid, spec) \in JobObject
    /\ \A j \in Jobs, uid \in Nat : NewPod(j, uid) \in PodObject
    /\ Idle \in WorkerState
  BY DEF NoJob, NoPod, NewJob, NewPod, Idle, JobObject, PodObject, WorkerState,
     Phases, Calls, Specs

LEMMA NotifyType ==
    ASSUME NEW D, NEW S, NEW events \in [D -> Seq(S)], NEW x \in D, NEW state \in S
    PROVE  Notify(events, x, state) \in [D -> Seq(S)]
  BY DEF Notify

LEMMA StoreJobType ==
    ASSUME TypeOK, NEW j \in Jobs, NEW state \in JobObject, StoreJob(j, state)
    PROVE  job' \in [Jobs -> JobObject] /\ jobEvents' \in [Jobs -> Seq(JobObject)]
  BY NotifyType DEF TypeOK, StoreJob

LEMMA StorePodType ==
    ASSUME TypeOK, NEW p \in Pods, NEW state \in PodObject, StorePod(p, state)
    PROVE  pod' \in [Pods -> PodObject] /\ podEvents' \in [Pods -> Seq(PodObject)]
  BY NotifyType DEF TypeOK, StorePod

LEMMA EditedType ==
    ASSUME TypeOK, NEW j \in Jobs, NEW spec \in SpecsOf[j]
    PROVE  [job[j] EXCEPT !.spec = spec, !.ver = @ + 1] \in JobObject
<1>1. spec \in Specs
  BY ConstantsAssumption
<1>2. job[j] \in JobObject /\ job[j].ver \in Nat
  BY DEF TypeOK, JobObject
<1>3. job[j].ver + 1 \in Nat
  BY <1>2
<1>4. QED
  BY <1>1, <1>2, <1>3 DEF JobObject

LEMMA InitTypeInv == Init => TypeInv
<1> SUFFICES ASSUME Init PROVE TypeInv
  OBVIOUS
<1>1. TypeOK
  <2>1. /\ job \in [Jobs -> JobObject] /\ jobCache \in [Jobs -> JobObject]
        /\ pod \in [Pods -> PodObject] /\ podCache \in [Pods -> PodObject]
    BY ObjectTypes DEF Init
  <2>2. /\ jobEvents \in [Jobs -> Seq(JobObject)]
        /\ podEvents \in [Pods -> Seq(PodObject)]
        /\ queue \in [Kinds -> Seq(Jobs)]
    BY DEF Init
  <2>3. /\ incarnation \in [Jobs -> Nat]
        /\ up \in BOOLEAN
        /\ waiting \subseteq Jobs /\ dirty \subseteq Jobs /\ late \subseteq WorkerState
    BY DEF Init
  <2>4. worker \in [Kinds -> WorkerState]
    BY ObjectTypes DEF Init
  <2>5. budget \in [crashes : Nat, failures : Nat, deletions : Nat, edits : Nat]
    BY ConstantsAssumption DEF Init
  <2>6. QED
    BY <2>1, <2>2, <2>3, <2>4, <2>5 DEF TypeOK
<1>2. /\ \A k \in Kinds : worker[k] = Idle /\ queue[k] = <<>>
      /\ late = {}
  BY DEF Init
<1>3. /\ Idle.pc = "idle"
      /\ Len(<<>>) = 0
  BY DEF Idle
<1>4. KeysOK
  <2>1. WorkerKeys
    BY <1>2, <1>3 DEF WorkerKeys
  <2>2. QueueKeys
    BY <1>2, <1>3 DEF QueueKeys
  <2>3. LateKeys
    BY <1>2 DEF LateKeys
  <2>4. QED
    BY <2>1, <2>2, <2>3 DEF KeysOK
<1>5. QED
  BY <1>1, <1>4 DEF TypeInv

LEMMA EnqueueKeys ==
    ASSUME TypeInv, NEW j \in Jobs, NEW k \in Kinds, KindOf[j] = k,
           queue' = [queue EXCEPT ![k] = Append(@, j)]
    PROVE  queue' \in [Kinds -> Seq(Jobs)] /\ QueueKeys'
<1>1. queue' \in [Kinds -> Seq(Jobs)]
  BY DEF TypeInv, TypeOK
<1>2. QueueKeys'
  <2> SUFFICES ASSUME NEW c \in Kinds, NEW i \in 1..Len(queue'[c])
               PROVE  KindOf[queue'[c][i]] = c
    BY DEF QueueKeys
  <2>1. queue[c] \in Seq(Jobs)
    BY DEF TypeInv, TypeOK
  <2>2. CASE c = k
    <3>1. queue'[c] = Append(queue[c], j)
      BY <2>2 DEF TypeInv, TypeOK
    <3>2. CASE i = Len(queue[c]) + 1
      BY <2>1, <2>2, <3>1, <3>2
    <3>3. CASE i \in 1..Len(queue[c])
      BY <2>1, <3>1, <3>3 DEF TypeInv, KeysOK, QueueKeys
    <3>4. QED
      BY <2>1, <3>1, <3>2, <3>3
  <2>3. CASE c # k
    BY <2>3 DEF TypeInv, TypeOK, KeysOK, QueueKeys
  <2>4. QED
    BY <2>2, <2>3
<1>3. QED
  BY <1>1, <1>2

LEMMA ReleaseKeys ==
    ASSUME TypeInv, NEW k \in Kinds, worker[k].pc # "idle", Release(k)
    PROVE  /\ worker' \in [Kinds -> WorkerState] /\ WorkerKeys'
           /\ queue' \in [Kinds -> Seq(Jobs)] /\ QueueKeys'
           /\ dirty' \subseteq Jobs
           /\ worker[k].key \in Jobs
<1>1. worker[k].key \in Jobs /\ KindOf[worker[k].key] = k
  BY DEF TypeInv, KeysOK, WorkerKeys
<1>2. worker' = [worker EXCEPT ![k] = Idle]
  BY DEF Release
<1>3. worker' \in [Kinds -> WorkerState]
  BY <1>2, ObjectTypes DEF TypeInv, TypeOK
<1>4. WorkerKeys'
  BY <1>2 DEF TypeInv, TypeOK, KeysOK, WorkerKeys, Idle
<1>5. queue' \in [Kinds -> Seq(Jobs)] /\ QueueKeys'
  <2>1. CASE BecameDirty(k)
    BY <1>1, <2>1, EnqueueKeys DEF Release
  <2>2. CASE ~BecameDirty(k)
    BY <2>2 DEF Release, TypeInv, TypeOK, KeysOK, QueueKeys
  <2>3. QED
    BY <2>1, <2>2
<1>6. dirty' \subseteq Jobs
  BY DEF Release, TypeInv, TypeOK
<1>7. QED
  BY <1>1, <1>3, <1>4, <1>5, <1>6

(* An action of the rest of the cluster stores one object. *)
LEMMA ClusterTypeInv ==
    ASSUME TypeInv, Cluster
    PROVE  TypeInv'
<1> USE DEF TypeInv
<1>1. KeysOK'
  BY DEF Cluster, SubmitJob, EditJob, DeleteJob, DeletePod, CollectPod, RunPod, queueVars,
         TypeInv, KeysOK, WorkerKeys, QueueKeys, LateKeys
<1>2. ASSUME NEW j \in Jobs, SubmitJob(j) PROVE TypeInv'
  <2>1. PICK spec \in SpecsOf[j] : StoreJob(j, NewJob(incarnation[j] + 1, spec))
    BY <1>2 DEF SubmitJob
  <2>2. job' \in [Jobs -> JobObject] /\ jobEvents' \in [Jobs -> Seq(JobObject)]
    <3>1. spec \in Specs
      BY ConstantsAssumption
    <3>2. NewJob(incarnation[j] + 1, spec) \in JobObject
      BY <3>1, ObjectTypes DEF TypeOK
    <3>3. QED
      BY <2>1, <3>2, StoreJobType
  <2>3. incarnation' \in [Jobs -> Nat]
    BY <1>2 DEF SubmitJob, TypeOK
  <2>4. UNCHANGED <<pod, podEvents, up, jobCache, podCache, queueVars, worker,
                    late, budget>>
    BY <1>2 DEF SubmitJob
  <2>5. QED
    BY <1>1, <2>2, <2>3, <2>4 DEF queueVars, TypeOK
<1>3. ASSUME NEW j \in Jobs, DeleteJob(j) PROVE TypeInv'
  <2>1. job' \in [Jobs -> JobObject] /\ jobEvents' \in [Jobs -> Seq(JobObject)]
    BY <1>3, ObjectTypes, StoreJobType DEF DeleteJob
  <2>2. QED
    BY <1>1, <1>3, <2>1 DEF DeleteJob, queueVars, TypeOK
<1>4. ASSUME NEW p \in Pods, DeletePod(p) PROVE TypeInv'
  <2>1. pod' \in [Pods -> PodObject] /\ podEvents' \in [Pods -> Seq(PodObject)]
    BY <1>4, ObjectTypes, StorePodType DEF DeletePod
  <2>2. budget' \in [crashes : Nat, failures : Nat, deletions : Nat, edits : Nat]
    <3>1. budget.deletions \in Nat /\ budget.deletions > 0
      BY <1>4 DEF DeletePod, TypeOK
    <3>2. budget.deletions - 1 \in Nat
      BY <3>1
    <3>3. QED
      BY <1>4, <3>2 DEF DeletePod, TypeOK
  <2>3. QED
    BY <1>1, <1>4, <2>1, <2>2 DEF DeletePod, queueVars, TypeOK
<1>5. ASSUME NEW p \in Pods, CollectPod(p) PROVE TypeInv'
  <2>1. pod' \in [Pods -> PodObject] /\ podEvents' \in [Pods -> Seq(PodObject)]
    BY <1>5, ObjectTypes, StorePodType DEF CollectPod
  <2>2. QED
    BY <1>1, <1>5, <2>1 DEF CollectPod, queueVars, TypeOK
<1>6. ASSUME NEW p \in Pods, RunPod(p) PROVE TypeInv'
  <2>1. PICK phase \in Phases : StorePod(p, [pod[p] EXCEPT !.phase = phase])
    BY <1>6 DEF RunPod
  <2>2. [pod[p] EXCEPT !.phase = phase] \in PodObject
    <3>1. pod[p] \in PodObject
      BY DEF TypeOK
    <3>2. QED
      BY <3>1 DEF PodObject
  <2>3. pod' \in [Pods -> PodObject] /\ podEvents' \in [Pods -> Seq(PodObject)]
    BY <2>1, <2>2, StorePodType
  <2>4. UNCHANGED <<job, jobEvents, incarnation, up, jobCache, podCache,
                    queueVars, worker, late, budget>>
    BY <1>6 DEF RunPod
  <2>5. QED
    BY <1>1, <2>3, <2>4 DEF queueVars, TypeOK
<1>7. ASSUME NEW j \in Jobs, EditJob(j) PROVE TypeInv'
  <2>1. PICK spec \in SpecsOf[j] : StoreJob(j, [job[j] EXCEPT !.spec = spec, !.ver = @ + 1])
    BY <1>7 DEF EditJob
  <2>2. [job[j] EXCEPT !.spec = spec, !.ver = @ + 1] \in JobObject
    BY EditedType
  <2>3. job' \in [Jobs -> JobObject] /\ jobEvents' \in [Jobs -> Seq(JobObject)]
    BY <2>1, <2>2, StoreJobType
  <2>4. budget' \in [crashes : Nat, failures : Nat, deletions : Nat, edits : Nat]
    <3>1. budget.edits \in Nat /\ budget.edits > 0
      BY <1>7 DEF EditJob, TypeOK
    <3>2. budget.edits - 1 \in Nat
      BY <3>1
    <3>3. QED
      BY <1>7, <3>2 DEF EditJob, TypeOK
  <2>5. QED
    BY <1>1, <1>7, <2>3, <2>4 DEF EditJob, queueVars, TypeOK
<1>8. QED
  BY <1>2, <1>3, <1>4, <1>5, <1>6, <1>7 DEF Cluster

LEMMA InformerTypeInv ==
    ASSUME TypeInv, Informer
    PROVE  TypeInv'
<1> USE DEF TypeInv
<1>1. KeysOK'
  BY DEF Informer, DeliverJob, DeliverPod, Resync, TypeInv, KeysOK, WorkerKeys, QueueKeys, LateKeys
<1>2. ASSUME NEW j \in Jobs, DeliverJob(j) PROVE TypeInv'
  <2>1. Head(jobEvents[j]) \in JobObject /\ Tail(jobEvents[j]) \in Seq(JobObject)
    BY <1>2 DEF DeliverJob, TypeOK
  <2>2. /\ jobCache' \in [Jobs -> JobObject]
        /\ jobEvents' \in [Jobs -> Seq(JobObject)]
        /\ waiting' \subseteq Jobs
    BY <1>2, <2>1 DEF DeliverJob, TypeOK
  <2>3. QED
    BY <1>1, <1>2, <2>2 DEF DeliverJob, apiVars, TypeOK
<1>3. ASSUME NEW p \in Pods, DeliverPod(p) PROVE TypeInv'
  <2>1. Head(podEvents[p]) \in PodObject /\ Tail(podEvents[p]) \in Seq(PodObject)
    BY <1>3 DEF DeliverPod, TypeOK
  <2>2. /\ podCache' \in [Pods -> PodObject]
        /\ podEvents' \in [Pods -> Seq(PodObject)]
        /\ waiting' \subseteq Jobs
    BY <1>3, <2>1 DEF DeliverPod, Owners, TypeOK
  <2>3. QED
    BY <1>1, <1>3, <2>2 DEF DeliverPod, apiVars, TypeOK
<1>4. ASSUME NEW j \in Jobs, Resync(j) PROVE TypeInv'
  BY <1>1, <1>4 DEF Resync, apiVars, cacheVars, TypeOK
<1>5. QED
  BY <1>2, <1>3, <1>4 DEF Informer

LEMMA QueueTypeInv ==
    ASSUME TypeInv,
           \/ \E j \in Jobs : AddToQueue(j)
           \/ \E k \in Kinds : GetRequest(k)
    PROVE  TypeInv'
<1> USE DEF TypeInv
<1>1. ASSUME NEW j \in Jobs, AddToQueue(j) PROVE TypeInv'
  <2>1. queue' \in [Kinds -> Seq(Jobs)] /\ QueueKeys'
    <3>1. CASE IsNewToQueue(j)
      BY <1>1, <3>1, EnqueueKeys, ConstantsAssumption DEF AddToQueue
    <3>2. CASE ~IsNewToQueue(j)
      BY <1>1, <3>2 DEF AddToQueue, TypeOK, KeysOK, QueueKeys
    <3>3. QED
      BY <3>1, <3>2
  <2>2. WorkerKeys' /\ LateKeys'
    BY <1>1 DEF AddToQueue, KeysOK, WorkerKeys, LateKeys
  <2>3. TypeOK'
    BY <1>1, <2>1 DEF AddToQueue, apiVars, cacheVars, TypeOK
  <2>4. QED
    BY <2>1, <2>2, <2>3 DEF KeysOK
<1>2. ASSUME NEW k \in Kinds, GetRequest(k) PROVE TypeInv'
  <2>1. queue[k] \in Seq(Jobs) /\ queue[k] # <<>>
    BY <1>2 DEF GetRequest, TypeOK
  <2>2. Head(queue[k]) \in Jobs /\ KindOf[Head(queue[k])] = k
    <3>1. Head(queue[k]) = queue[k][1] /\ 1 \in 1..Len(queue[k])
      BY <2>1
    <3>2. QED
      BY <2>1, <3>1 DEF KeysOK, QueueKeys
  <2>3. queue' \in [Kinds -> Seq(Jobs)] /\ QueueKeys'
    <3>1. queue' \in [Kinds -> Seq(Jobs)]
      <4>1. Tail(queue[k]) \in Seq(Jobs)
        BY <2>1
      <4>2. queue' = [queue EXCEPT ![k] = Tail(queue[k])]
        BY <1>2 DEF GetRequest
      <4>3. QED
        BY <4>1, <4>2 DEF TypeOK
    <3>2. ASSUME NEW c \in Kinds, NEW i \in 1..Len(queue'[c])
          PROVE  KindOf[queue'[c][i]] = c
      <4>1. CASE c = k
        <5>1. queue'[c] = Tail(queue[k])
          BY <1>2, <4>1 DEF GetRequest, TypeOK
        <5>2. i + 1 \in 1..Len(queue[k]) /\ queue'[c][i] = queue[k][i+1]
          BY <2>1, <5>1
        <5>3. QED
          BY <4>1, <5>2 DEF KeysOK, QueueKeys
      <4>2. CASE c # k
        BY <1>2, <4>2 DEF GetRequest, TypeOK, KeysOK, QueueKeys
      <4>3. QED
        BY <4>1, <4>2
    <3>3. QED
      BY <3>1, <3>2 DEF QueueKeys
  <2>4. worker' \in [Kinds -> WorkerState] /\ WorkerKeys'
    <3> DEFINE w == [Idle EXCEPT !.pc = "getJob", !.key = Head(queue[k])]
    <3>1. w \in WorkerState /\ w.pc = "getJob" /\ w.key = Head(queue[k])
      BY <2>2, ObjectTypes DEF Idle, WorkerState
    <3>2. worker' = [worker EXCEPT ![k] = w]
      BY <1>2 DEF GetRequest
    <3> HIDE DEF w
    <3>3. /\ worker' \in [Kinds -> WorkerState]
          /\ worker'[k] = w /\ \A c \in Kinds : c # k => worker'[c] = worker[c]
      BY <3>1, <3>2 DEF TypeOK
    <3>4. ASSUME NEW c \in Kinds
          PROVE  IF worker'[c].pc = "idle" THEN worker'[c] = Idle
                 ELSE worker'[c].key \in Jobs /\ KindOf[worker'[c].key] = c
      <4>1. CASE c = k
        BY <2>2, <3>1, <3>3, <4>1
      <4>2. CASE c # k
        BY <3>3, <4>2 DEF KeysOK, WorkerKeys
      <4>3. QED
        BY <4>1, <4>2
    <3>5. QED
      BY <3>3, <3>4 DEF WorkerKeys
  <2>5. LateKeys'
    BY <1>2 DEF GetRequest, KeysOK, LateKeys
  <2>6. TypeOK'
    BY <1>2, <2>3, <2>4 DEF GetRequest, apiVars, cacheVars, TypeOK
  <2>7. QED
    BY <2>3, <2>4, <2>5, <2>6 DEF KeysOK
<1>3. QED
  BY <1>1, <1>2

(* What the API server does with a call. *)
LEMMA ApplyTypes ==
    ASSUME TypeInv, NEW c \in WorkerState, c.key \in Jobs,
           ApplyCreate(c) \/ ApplyUpdate(c)
    PROVE  /\ job' \in [Jobs -> JobObject] /\ jobEvents' \in [Jobs -> Seq(JobObject)]
           /\ pod' \in [Pods -> PodObject] /\ podEvents' \in [Pods -> Seq(PodObject)]
           /\ incarnation' \in [Jobs -> Nat]
<1> USE DEF TypeInv
<1>1. CASE ApplyCreate(c)
  <2>1. PodOf[c.key] \in Pods /\ NewPod(c.key, c.seen.uid) \in PodObject
    BY ConstantsAssumption, ObjectTypes DEF WorkerState, JobObject
  <2>2. pod' \in [Pods -> PodObject] /\ podEvents' \in [Pods -> Seq(PodObject)]
    BY <1>1, <2>1, StorePodType DEF ApplyCreate
  <2>3. QED
    BY <1>1, <2>2 DEF ApplyCreate, TypeOK
<1>2. CASE ApplyUpdate(c)
  <2>1. job' \in [Jobs -> JobObject] /\ jobEvents' \in [Jobs -> Seq(JobObject)]
    <3>1. CASE job[c.key].status = c.phase
      BY <1>2, <3>1 DEF ApplyUpdate, TypeOK
    <3>2. CASE job[c.key].status # c.phase
      <4>1. job[c.key] \in JobObject /\ c.phase \in Phases \cup {""}
        BY DEF TypeOK, WorkerState
      <4>2. [job[c.key] EXCEPT !.status = c.phase, !.ver = @ + 1] \in JobObject
        <5>1. job[c.key].ver + 1 \in Nat
          <6>1. job[c.key].ver \in Nat
            BY <4>1 DEF JobObject
          <6>2. QED
            BY <6>1
        <5>2. QED
          BY <4>1, <5>1 DEF JobObject
      <4>3. QED
        BY <1>2, <3>2, <4>2, StoreJobType DEF ApplyUpdate
    <3>3. QED
      BY <3>1, <3>2
  <2>2. QED
    BY <1>2, <2>1 DEF ApplyUpdate, TypeOK
<1>3. QED
  BY <1>1, <1>2

(* A reconcile that returns leaves the types alone, if what it did before  *)
(* it returned does.                                                       *)
LEMMA ReturnTypeInv ==
    ASSUME TypeInv, NEW k \in Kinds, worker[k].pc # "idle",
           Finish(k) \/ Fail(k),
           late' \subseteq WorkerState, LateKeys',
           job' \in [Jobs -> JobObject], jobEvents' \in [Jobs -> Seq(JobObject)],
           pod' \in [Pods -> PodObject], podEvents' \in [Pods -> Seq(PodObject)],
           incarnation' \in [Jobs -> Nat],
           budget' \in [crashes : Nat, failures : Nat, deletions : Nat, edits : Nat],
           UNCHANGED <<up, jobCache, podCache>>
    PROVE  TypeInv'
<1>1. Release(k)
  BY DEF Finish, Fail
<1>2. /\ worker' \in [Kinds -> WorkerState] /\ WorkerKeys'
      /\ queue' \in [Kinds -> Seq(Jobs)] /\ QueueKeys'
      /\ dirty' \subseteq Jobs
      /\ worker[k].key \in Jobs
  BY <1>1, ReleaseKeys
<1>3. waiting' \subseteq Jobs
  BY <1>2 DEF Finish, Fail, TypeInv, TypeOK
<1>4. KeysOK'
  BY <1>2 DEF KeysOK
<1>5. TypeOK'
  BY <1>2, <1>3 DEF TypeInv, TypeOK
<1>6. QED
  BY <1>4, <1>5 DEF TypeInv

(* The worker moves on within a reconcile. *)
LEMMA AdvanceTypeInv ==
    ASSUME TypeInv, NEW k \in Kinds, NEW w \in WorkerState,
           w.pc # "idle", w.key \in Jobs, KindOf[w.key] = k,
           worker' = [worker EXCEPT ![k] = w],
           UNCHANGED <<apiVars, up, cacheVars, queueVars, late, budget>>
    PROVE  TypeInv'
<1>1. TypeOK'
  BY DEF TypeInv, TypeOK, apiVars, cacheVars, queueVars
<1>2. WorkerKeys'
  BY DEF TypeInv, TypeOK, KeysOK, WorkerKeys
<1>3. QueueKeys' /\ LateKeys'
  BY DEF TypeInv, KeysOK, QueueKeys, LateKeys, queueVars
<1>4. QED
  BY <1>1, <1>2, <1>3 DEF TypeInv, KeysOK

LEMMA DieTypeInv ==
    ASSUME TypeInv, Die, UNCHANGED apiVars,
           budget' \in [crashes : Nat, failures : Nat, deletions : Nat, edits : Nat]
    PROVE  TypeInv'
<1>1. /\ up' \in BOOLEAN
      /\ jobCache' \in [Jobs -> JobObject] /\ podCache' \in [Pods -> PodObject]
      /\ jobEvents' \in [Jobs -> Seq(JobObject)] /\ podEvents' \in [Pods -> Seq(PodObject)]
      /\ waiting' \subseteq Jobs /\ dirty' \subseteq Jobs
      /\ queue' \in [Kinds -> Seq(Jobs)]
      /\ worker' \in [Kinds -> WorkerState]
  <2>1. up' \in BOOLEAN /\ waiting' \subseteq Jobs /\ dirty' \subseteq Jobs
    BY DEF Die
  <2>2. jobCache' \in [Jobs -> JobObject] /\ podCache' \in [Pods -> PodObject]
    BY ObjectTypes DEF Die
  <2>3. /\ jobEvents' \in [Jobs -> Seq(JobObject)]
        /\ podEvents' \in [Pods -> Seq(PodObject)]
        /\ queue' \in [Kinds -> Seq(Jobs)]
    BY DEF Die
  <2>4. worker' \in [Kinds -> WorkerState]
    BY ObjectTypes DEF Die
  <2>5. QED
    BY <2>1, <2>2, <2>3, <2>4
<1>2. late' \subseteq WorkerState /\ LateKeys'
  <2>1. \A k \in Kinds : worker[k] \in WorkerState
    BY DEF TypeInv, TypeOK
  <2>2. \A k \in Kinds : worker[k].pc \in Calls => worker[k].key \in Jobs
    BY DEF TypeInv, KeysOK, WorkerKeys, Calls
  <2>3. QED
    BY <2>1, <2>2 DEF Die, TypeInv, TypeOK, KeysOK, LateKeys
<1>3. WorkerKeys' /\ QueueKeys'
  <2>1. \A k \in Kinds : worker'[k] = Idle /\ queue'[k] = <<>>
    BY DEF Die
  <2>2. Idle.pc = "idle" /\ Len(<<>>) = 0
    BY DEF Idle
  <2>3. QED
    BY <2>1, <2>2 DEF WorkerKeys, QueueKeys
<1>4. TypeOK'
  BY <1>1, <1>2 DEF TypeInv, TypeOK, apiVars
<1>5. QED
  BY <1>2, <1>3, <1>4 DEF TypeInv, KeysOK

LEMMA ReconcileTypeInv ==
    ASSUME TypeInv, NEW k \in Kinds, Reconcile(k) \/ CallFails(k)
    PROVE  TypeInv'
<1> DEFINE w == worker[k]
<1>1. /\ w \in WorkerState
      /\ w.pc # "idle" => w.key \in Jobs /\ KindOf[w.key] = k
  BY DEF TypeInv, TypeOK, KeysOK, WorkerKeys
<1>2. w.pc # "idle"
  BY DEF Reconcile, GetJobGone, GetJobRefused, GetJobPanics, GetJob, GetPodGone,
         GetPodMissing, GetPod, CreatePod, UpdateStatus, CallRejected, CallFails, Calls
<1>3. CASE GetJobGone(k) \/ GetJobRefused(k) \/ GetPodGone(k) \/ CallRejected(k)
  <2>1. /\ Finish(k) \/ Fail(k)
        /\ UNCHANGED <<apiVars, up, cacheVars, late, budget>>
    BY <1>3 DEF GetJobGone, GetJobRefused, GetPodGone, CallRejected
  <2>2. late' \subseteq WorkerState /\ LateKeys'
    BY <2>1 DEF TypeInv, TypeOK, KeysOK, LateKeys
  <2>3. /\ job' \in [Jobs -> JobObject] /\ jobEvents' \in [Jobs -> Seq(JobObject)]
        /\ pod' \in [Pods -> PodObject] /\ podEvents' \in [Pods -> Seq(PodObject)]
        /\ incarnation' \in [Jobs -> Nat]
        /\ budget' \in [crashes : Nat, failures : Nat, deletions : Nat, edits : Nat]
        /\ UNCHANGED <<up, jobCache, podCache>>
    BY <2>1 DEF TypeInv, TypeOK, apiVars, cacheVars
  <2>4. QED
    BY <1>2, <2>1, <2>2, <2>3, ReturnTypeInv
<1>4. CASE GetJobPanics(k)
  BY <1>4, DieTypeInv DEF GetJobPanics, TypeInv, TypeOK
<1>5. CASE GetJob(k)
  <2>1. [w EXCEPT !.pc = "getPod", !.seen = jobCache[w.key]] \in WorkerState
    BY <1>1, <1>2 DEF WorkerState, TypeInv, TypeOK
  <2>2. worker' = [worker EXCEPT ![k] = [w EXCEPT !.pc = "getPod", !.seen = jobCache[w.key]]]
    BY <1>5 DEF GetJob, TypeInv, TypeOK
  <2>3. QED
    BY <1>1, <1>2, <1>5, <2>1, <2>2, AdvanceTypeInv DEF GetJob, WorkerState
<1>6. CASE GetPodMissing(k)
  <2>1. [w EXCEPT !.pc = "create"] \in WorkerState
    BY <1>1 DEF WorkerState, Calls
  <2>2. worker' = [worker EXCEPT ![k] = [w EXCEPT !.pc = "create"]]
    BY <1>6 DEF GetPodMissing, TypeInv, TypeOK
  <2>3. QED
    BY <1>1, <1>2, <1>6, <2>1, <2>2, AdvanceTypeInv DEF GetPodMissing, WorkerState
<1>7. CASE GetPod(k)
  <2>1. podCache[PodOf[w.key]].phase \in Phases \cup {""}
    BY <1>1, <1>2, ConstantsAssumption DEF TypeInv, TypeOK, PodObject
  <2>2. [w EXCEPT !.pc = "update", !.phase = podCache[PodOf[w.key]].phase] \in WorkerState
    BY <1>1, <2>1 DEF WorkerState, Calls
  <2>3. worker' = [worker EXCEPT ![k] =
            [w EXCEPT !.pc = "update", !.phase = podCache[PodOf[w.key]].phase]]
    BY <1>7 DEF GetPod, StatusToReport, TypeInv, TypeOK
  <2>4. QED
    BY <1>1, <1>2, <1>7, <2>2, <2>3, AdvanceTypeInv DEF GetPod, StatusToReport, WorkerState
<1>8. CASE CreatePod(k) \/ UpdateStatus(k)
  <2>1. /\ Finish(k)
        /\ ApplyCreate(w) \/ ApplyUpdate(w)
        /\ UNCHANGED <<up, jobCache, podCache, late, budget>>
    BY <1>8 DEF CreatePod, UpdateStatus
  <2>2. late' \subseteq WorkerState /\ LateKeys'
    BY <2>1 DEF TypeInv, TypeOK, KeysOK, LateKeys
  <2>3. /\ job' \in [Jobs -> JobObject] /\ jobEvents' \in [Jobs -> Seq(JobObject)]
        /\ pod' \in [Pods -> PodObject] /\ podEvents' \in [Pods -> Seq(PodObject)]
        /\ incarnation' \in [Jobs -> Nat]
    BY <1>1, <1>2, <2>1, ApplyTypes
  <2>4. budget' \in [crashes : Nat, failures : Nat, deletions : Nat, edits : Nat]
    BY <2>1 DEF TypeInv, TypeOK
  <2>5. QED
    BY <1>2, <2>1, <2>2, <2>3, <2>4, ReturnTypeInv
<1>9. CASE CallFails(k)
  <2>1. /\ Fail(k)
        /\ UNCHANGED <<apiVars, up, cacheVars>>
        /\ late' = late \cup {w}
        /\ w.pc \in Calls
    BY <1>9 DEF CallFails
  <2>2. late' \subseteq WorkerState /\ LateKeys'
    BY <1>1, <1>2, <2>1 DEF TypeInv, TypeOK, KeysOK, LateKeys
  <2>3. budget' \in [crashes : Nat, failures : Nat, deletions : Nat, edits : Nat]
    <3>1. budget.failures \in Nat /\ budget.failures > 0
      BY <1>9 DEF CallFails, TypeInv, TypeOK
    <3>2. budget.failures - 1 \in Nat
      BY <3>1
    <3>3. QED
      BY <1>9, <3>2 DEF CallFails, TypeInv, TypeOK
  <2>4. /\ job' \in [Jobs -> JobObject] /\ jobEvents' \in [Jobs -> Seq(JobObject)]
        /\ pod' \in [Pods -> PodObject] /\ podEvents' \in [Pods -> Seq(PodObject)]
        /\ incarnation' \in [Jobs -> Nat]
        /\ UNCHANGED <<up, jobCache, podCache>>
    BY <2>1 DEF TypeInv, TypeOK, apiVars, cacheVars
  <2>5. QED
    BY <1>2, <2>1, <2>2, <2>3, <2>4, ReturnTypeInv
<1>10. QED
  BY <1>3, <1>4, <1>5, <1>6, <1>7, <1>8, <1>9 DEF Reconcile

LEMMA LateTypeInv ==
    ASSUME TypeInv, NEW c \in late, LateCallTakesEffect(c) \/ LateCallIsLost(c)
    PROVE  TypeInv'
<1>1. /\ late' = late \ {c}
      /\ UNCHANGED <<up, jobCache, podCache, queueVars, worker, budget>>
  BY DEF LateCallTakesEffect, LateCallIsLost, cacheVars
<1>2. KeysOK'
  BY <1>1 DEF TypeInv, KeysOK, WorkerKeys, QueueKeys, LateKeys, queueVars
<1>3. /\ job' \in [Jobs -> JobObject] /\ jobEvents' \in [Jobs -> Seq(JobObject)]
      /\ pod' \in [Pods -> PodObject] /\ podEvents' \in [Pods -> Seq(PodObject)]
      /\ incarnation' \in [Jobs -> Nat]
  <2>1. CASE LateCallTakesEffect(c)
    <3>1. c \in WorkerState /\ c.key \in Jobs
      BY DEF TypeInv, TypeOK, KeysOK, LateKeys
    <3>2. ApplyCreate(c) \/ ApplyUpdate(c)
      BY <2>1 DEF LateCallTakesEffect, Apply
    <3>3. QED
      BY <3>1, <3>2, ApplyTypes
  <2>2. CASE LateCallIsLost(c)
    BY <2>2 DEF LateCallIsLost, apiVars, cacheVars, TypeInv, TypeOK
  <2>3. QED
    BY <2>1, <2>2
<1>4. TypeOK'
  BY <1>1, <1>3 DEF TypeInv, TypeOK, queueVars
<1>5. QED
  BY <1>2, <1>4 DEF TypeInv

LEMMA ProcessTypeInv ==
    ASSUME TypeInv, Crash \/ Restart
    PROVE  TypeInv'
<1>1. CASE Crash
  <2>1. budget.crashes \in Nat /\ budget.crashes > 0
    BY <1>1 DEF Crash, TypeInv, TypeOK
  <2>2. budget.crashes - 1 \in Nat
    BY <2>1
  <2>3. budget' \in [crashes : Nat, failures : Nat, deletions : Nat, edits : Nat]
    BY <1>1, <2>2 DEF Crash, TypeInv, TypeOK
  <2>4. QED
    BY <1>1, <2>3, DieTypeInv DEF Crash
<1>2. CASE Restart
  <2>1. KeysOK'
    BY <1>2 DEF Restart, TypeInv, KeysOK, WorkerKeys, QueueKeys, LateKeys
  <2>2. waiting' \subseteq Jobs
    BY <1>2 DEF Restart, Notified, Owners
  <2>3. /\ jobEvents' \in [Jobs -> Seq(JobObject)]
        /\ podEvents' \in [Pods -> Seq(PodObject)]
    BY <1>2 DEF Restart
  <2>4. TypeOK'
    BY <1>2, <2>2, <2>3 DEF Restart, TypeInv, TypeOK, apiVars
  <2>5. QED
    BY <2>1, <2>4 DEF TypeInv
<1>3. QED
  BY <1>1, <1>2

LEMMA StutterTypeInv ==
    ASSUME TypeInv, UNCHANGED vars
    PROVE  TypeInv'
<1>1. TypeOK'
  BY DEF vars, apiVars, cacheVars, queueVars, TypeInv, TypeOK
<1>2. KeysOK'
  BY DEF vars, apiVars, cacheVars, queueVars, TypeInv, KeysOK, WorkerKeys, QueueKeys, LateKeys
<1>3. QED
  BY <1>1, <1>2 DEF TypeInv

LEMMA NextTypeInv ==
    ASSUME TypeInv, [Next]_vars
    PROVE  TypeInv'
  BY ClusterTypeInv, InformerTypeInv, QueueTypeInv, ReconcileTypeInv, LateTypeInv,
     ProcessTypeInv, StutterTypeInv DEF Next

LEMMA TypeInvariant == Spec => []TypeInv
<1>1. Init => TypeInv
  BY InitTypeInv
<1>2. TypeInv /\ [Next]_vars => TypeInv'
  BY NextTypeInv
<1>3. QED
  BY <1>1, <1>2, PTL DEF Spec

(* Every variable always holds the kind of value the code keeps there. *)
THEOREM TypeCorrect == Spec => []TypeOK
<1>1. TypeInv => TypeOK
  BY DEF TypeInv
<1>2. QED
  BY <1>1, TypeInvariant, PTL
----------------------------------------------------------------------------
(* The work queue loses no key and hands none to two workers.             *)

IsInjective(s) == \A a, b \in DOMAIN s : s[a] = s[b] => a = b

(* The dirty keys of a controller that nobody processes. *)
Due(k) == {j \in dirty : KindOf[j] = k /\ ~IsProcessing(j)}

QueueInv == TypeInv /\ QueueIntegrity

LEMMA IntegrityParts ==
    QueueIntegrity <=> \A k \in Kinds : Range(queue[k]) = Due(k) /\ IsInjective(queue[k])
  BY DEF QueueIntegrity, Due, IsInjective

LEMMA AppendParts ==
    ASSUME NEW S, NEW s \in Seq(S), NEW x \in S, x \notin Range(s), IsInjective(s)
    PROVE  Range(Append(s, x)) = Range(s) \cup {x} /\ IsInjective(Append(s, x))
<1> DEFINE t == Append(s, x)
<1>1. /\ DOMAIN t = 1..(Len(s) + 1) /\ DOMAIN s = 1..Len(s) /\ Len(s) \in Nat
      /\ t[Len(s) + 1] = x
      /\ \A i \in 1..Len(s) : t[i] = s[i]
  OBVIOUS
<1>2. \A i \in DOMAIN t : i \in 1..Len(s) \/ i = Len(s) + 1
  BY <1>1
<1>3. Range(t) = Range(s) \cup {x}
  <2>1. Range(t) \subseteq Range(s) \cup {x}
    BY <1>1, <1>2 DEF Range
  <2>2. Range(s) \subseteq Range(t)
    <3>1. \A i \in 1..Len(s) : i \in DOMAIN t
      BY <1>1
    <3>2. QED
      BY <1>1, <3>1 DEF Range
  <2>3. x \in Range(t)
    <3>1. Len(s) + 1 \in DOMAIN t
      BY <1>1
    <3>2. QED
      BY <1>1, <3>1 DEF Range
  <2>4. QED
    BY <2>1, <2>2, <2>3
<1>4. IsInjective(t)
  <2>1. \A i \in 1..Len(s) : s[i] # x
    BY <1>1 DEF Range
  <2>2. QED
    BY <1>1, <1>2, <2>1 DEF IsInjective
<1>5. QED
  BY <1>3, <1>4

LEMMA TailParts ==
    ASSUME NEW S, NEW s \in Seq(S), s # <<>>, IsInjective(s)
    PROVE  /\ Range(Tail(s)) = Range(s) \ {Head(s)}
           /\ IsInjective(Tail(s))
           /\ Head(s) \in Range(s)
<1> DEFINE t == Tail(s)
<1>1. /\ DOMAIN s = 1..Len(s) /\ Len(s) \in Nat /\ Len(s) >= 1 /\ Head(s) = s[1]
      /\ DOMAIN t = 1..(Len(s) - 1)
      /\ \A i \in 1..(Len(s) - 1) : t[i] = s[i + 1]
  OBVIOUS
<1>2. \A i \in DOMAIN t : i + 1 \in DOMAIN s /\ i + 1 # 1 /\ t[i] = s[i + 1]
  BY <1>1
<1>3. \A i \in DOMAIN s : i = 1 \/ (i - 1 \in DOMAIN t /\ t[i - 1] = s[i])
  BY <1>1
<1>4. 1 \in DOMAIN s
  BY <1>1
<1>5. Range(t) \subseteq Range(s) \ {Head(s)}
  BY <1>1, <1>2, <1>4 DEF Range, IsInjective
<1>6. Range(s) \ {Head(s)} \subseteq Range(t)
  <2> SUFFICES ASSUME NEW i \in DOMAIN s, s[i] # Head(s)
               PROVE  s[i] \in Range(t)
    BY DEF Range
  <2>1. i - 1 \in DOMAIN t /\ t[i - 1] = s[i]
    BY <1>1, <1>3
  <2>2. QED
    BY <2>1 DEF Range
<1>7. IsInjective(t)
  BY <1>1, <1>2 DEF IsInjective
<1>8. Head(s) \in Range(s)
  BY <1>1, <1>4 DEF Range
<1>9. QED
  BY <1>5, <1>6, <1>7, <1>8

(* A job in the queue of a controller is of its kind. *)
LEMMA QueueTypes ==
    ASSUME QueueInv, NEW k \in Kinds
    PROVE  /\ queue[k] \in Seq(Jobs) /\ Range(queue[k]) = Due(k) /\ IsInjective(queue[k])
           /\ dirty \subseteq Jobs
           /\ worker[k].key # None => KindOf[worker[k].key] = k
<1>1. Idle.key = None
  BY DEF Idle
<1>2. QED
  BY <1>1, IntegrityParts DEF QueueInv, TypeInv, TypeOK, KeysOK, WorkerKeys

(* Nothing moves in the queue, and no worker changes its key. *)
LEMMA UntouchedQueue ==
    ASSUME QueueIntegrity, UNCHANGED <<dirty, queue>>, TypeInv,
           \A k \in Kinds : worker'[k].key = worker[k].key
    PROVE  QueueIntegrity'
<1>1. \A j \in dirty : IsProcessing(j)' <=> IsProcessing(j)
  BY ConstantsAssumption DEF IsProcessing, TypeInv, TypeOK
<1>2. QED
  BY <1>1 DEF QueueIntegrity

LEMMA AddIntegrity ==
    ASSUME QueueInv, NEW j \in Jobs, AddToQueue(j)
    PROVE  QueueIntegrity'
<1> DEFINE k == KindOf[j]
<1>1. k \in Kinds /\ worker' = worker /\ dirty' = dirty \cup {j}
  BY ConstantsAssumption DEF AddToQueue
<1>2. \A i : IsProcessing(i)' <=> IsProcessing(i)
  BY <1>1 DEF IsProcessing
<1> SUFFICES ASSUME NEW c \in Kinds
             PROVE  Range(queue'[c]) = Due(c)' /\ IsInjective(queue'[c])
  BY IntegrityParts DEF QueueIntegrity, Due, IsInjective
<1>3. /\ queue[c] \in Seq(Jobs) /\ Range(queue[c]) = Due(c) /\ IsInjective(queue[c])
  BY QueueTypes
<1>4. Due(c)' = Due(c) \cup (IF c = k /\ ~IsProcessing(j) THEN {j} ELSE {})
  BY <1>1, <1>2 DEF Due
<1>5. CASE IsNewToQueue(j) /\ c = k
  <2>1. queue'[c] = Append(queue[c], j)
    BY <1>5 DEF AddToQueue, QueueInv, TypeInv, TypeOK
  <2>2. j \notin Range(queue[c]) /\ ~IsProcessing(j)
    BY <1>3, <1>5 DEF IsNewToQueue, Due
  <2>3. QED
    BY <1>3, <1>4, <1>5, <2>1, <2>2, AppendParts
<1>6. CASE ~(IsNewToQueue(j) /\ c = k)
  <2>1. queue'[c] = queue[c]
    BY <1>1, <1>6 DEF AddToQueue, QueueInv, TypeInv, TypeOK
  <2>2. Due(c)' = Due(c)
    BY <1>4, <1>6 DEF Due, IsNewToQueue
  <2>3. QED
    BY <1>3, <2>1, <2>2
<1>7. QED
  BY <1>5, <1>6

LEMMA GetIntegrity ==
    ASSUME QueueInv, NEW k \in Kinds, GetRequest(k)
    PROVE  QueueIntegrity'
<1> DEFINE y == Head(queue[k])
<1>1. queue[k] # <<>> /\ worker[k].pc = "idle" /\ dirty' = dirty \ {y}
  BY DEF GetRequest
<1>2. /\ queue'[k] = Tail(queue[k]) /\ worker'[k].key = y
      /\ \A c \in Kinds : c # k => queue'[c] = queue[c] /\ worker'[c] = worker[c]
  BY DEF GetRequest, Idle, QueueInv, TypeInv, TypeOK
<1>3. worker[k].key = None
  <2>1. worker[k] = Idle
    BY <1>1 DEF QueueInv, TypeInv, KeysOK, WorkerKeys
  <2>2. Idle.key = None
    BY DEF Idle
  <2>3. QED
    BY <2>1, <2>2
<1>4. /\ Range(Tail(queue[k])) = Range(queue[k]) \ {y} /\ IsInjective(Tail(queue[k]))
      /\ y \in Due(k)
  BY <1>1, QueueTypes, TailParts
<1> SUFFICES ASSUME NEW c \in Kinds
             PROVE  Range(queue'[c]) = Due(c)' /\ IsInjective(queue'[c])
  BY DEF QueueIntegrity, Due, IsInjective
<1>5. /\ queue[c] \in Seq(Jobs) /\ Range(queue[c]) = Due(c) /\ IsInjective(queue[c])
      /\ dirty \subseteq Jobs
  BY QueueTypes
<1>6. CASE c = k
  <2>1. \A j \in dirty : KindOf[j] = k => (IsProcessing(j)' <=> j = y) /\ ~IsProcessing(j)
    BY <1>2, <1>3, <1>5, ConstantsAssumption DEF IsProcessing
  <2>2. Due(c)' = Due(c) \ {y}
    BY <1>1, <1>6, <2>1 DEF Due
  <2>3. QED
    BY <1>2, <1>4, <1>5, <1>6, <2>2
<1>7. CASE c # k
  <2>1. \A j \in dirty : KindOf[j] = c => (IsProcessing(j)' <=> IsProcessing(j)) /\ j # y
    BY <1>2, <1>4, <1>7 DEF IsProcessing, Due
  <2>2. Due(c)' = Due(c)
    BY <1>1, <2>1 DEF Due
  <2>3. QED
    BY <1>2, <1>5, <1>7, <2>2
<1>8. QED
  BY <1>6, <1>7

LEMMA ReleaseIntegrity ==
    ASSUME QueueInv, NEW k \in Kinds, worker[k].pc # "idle", Release(k)
    PROVE  QueueIntegrity'
<1> DEFINE y == worker[k].key
<1>1. y \in Jobs /\ KindOf[y] = k /\ dirty' = dirty
  BY DEF Release, QueueInv, TypeInv, KeysOK, WorkerKeys
<1>2. /\ worker'[k].key = None
      /\ \A c \in Kinds : c # k => queue'[c] = queue[c] /\ worker'[c] = worker[c]
      /\ queue'[k] = IF y \in dirty THEN Append(queue[k], y) ELSE queue[k]
  BY DEF Release, BecameDirty, Idle, QueueInv, TypeInv, TypeOK
<1> SUFFICES ASSUME NEW c \in Kinds
             PROVE  Range(queue'[c]) = Due(c)' /\ IsInjective(queue'[c])
  BY DEF QueueIntegrity, Due, IsInjective
<1>3. /\ queue[c] \in Seq(Jobs) /\ Range(queue[c]) = Due(c) /\ IsInjective(queue[c])
      /\ dirty \subseteq Jobs
  BY QueueTypes
<1>4. CASE c = k
  <2>1. \A j \in dirty : KindOf[j] = k => ~IsProcessing(j)' /\ (IsProcessing(j) <=> j = y)
    BY <1>2, <1>3, ConstantsAssumption DEF IsProcessing
  <2>2. Due(c)' = Due(c) \cup (dirty \cap {y})
    BY <1>1, <1>4, <2>1 DEF Due
  <2>3. y \notin Range(queue[c])
    BY <1>1, <1>3, <1>4, <2>1 DEF Due
  <2>4. CASE y \in dirty
    <3>1. queue'[c] = Append(queue[c], y)
      BY <1>2, <1>4, <2>4
    <3>2. Range(queue'[c]) = Range(queue[c]) \cup {y} /\ IsInjective(queue'[c])
      BY <1>1, <1>3, <2>3, <3>1, AppendParts
    <3>3. QED
      BY <1>3, <2>2, <2>4, <3>2
  <2>5. CASE y \notin dirty
    BY <1>2, <1>3, <1>4, <2>2, <2>5
  <2>6. QED
    BY <2>4, <2>5
<1>5. CASE c # k
  <2>1. \A j \in dirty : KindOf[j] = c => (IsProcessing(j)' <=> IsProcessing(j))
    BY <1>2, <1>5 DEF IsProcessing
  <2>2. Due(c)' = Due(c)
    BY <1>1, <2>1 DEF Due
  <2>3. QED
    BY <1>2, <1>3, <1>5, <2>2
<1>6. QED
  BY <1>4, <1>5

LEMMA DieIntegrity ==
    ASSUME Die
    PROVE  QueueIntegrity'
<1>1. dirty' = {} /\ \A k \in Kinds : queue'[k] = <<>>
  BY DEF Die
<1>2. QED
  BY <1>1 DEF QueueIntegrity, Range

LEMMA ReconcileIntegrity ==
    ASSUME QueueInv, NEW k \in Kinds, Reconcile(k) \/ CallFails(k)
    PROVE  QueueIntegrity'
<1>1. worker[k].pc # "idle"
  BY DEF Reconcile, GetJobGone, GetJobRefused, GetJobPanics, GetJob, GetPodGone,
         GetPodMissing, GetPod, CreatePod, UpdateStatus, CallRejected, CallFails, Calls
<1>2. CASE \/ GetJobGone(k) \/ GetJobRefused(k) \/ GetPodGone(k) \/ CreatePod(k)
           \/ UpdateStatus(k) \/ CallRejected(k) \/ CallFails(k)
  <2>1. Release(k)
    BY <1>2 DEF GetJobGone, GetJobRefused, GetPodGone, CreatePod, UpdateStatus,
                CallRejected, CallFails, Finish, Fail
  <2>2. QED
    BY <1>1, <2>1, ReleaseIntegrity
<1>3. CASE GetJobPanics(k)
  BY <1>3, DieIntegrity DEF GetJobPanics
<1>4. CASE GetJob(k) \/ GetPodMissing(k) \/ GetPod(k)
  <2>1. UNCHANGED <<dirty, queue>>
    BY <1>4 DEF GetJob, GetPodMissing, GetPod, queueVars
  <2>2. worker \in [Kinds -> WorkerState]
    BY DEF QueueInv, TypeInv, TypeOK
  <2>3. \A c \in Kinds : worker'[c].key = worker[c].key
    <3>1. CASE GetJob(k)
      BY <2>2, <3>1 DEF GetJob, WorkerState
    <3>2. CASE GetPodMissing(k)
      BY <2>2, <3>2 DEF GetPodMissing, WorkerState
    <3>3. CASE GetPod(k)
      <4> DEFINE phase == StatusToReport(podCache[PodOf[worker[k].key]])
                 w == [worker[k] EXCEPT !.pc = "update", !.phase = phase]
      <4>1. worker' = [worker EXCEPT ![k] = w]
        BY <3>3 DEF GetPod
      <4>2. w.key = worker[k].key
        BY <2>2 DEF WorkerState
      <4>3. QED
        BY <2>2, <4>1, <4>2
    <3>4. QED
      BY <1>4, <3>1, <3>2, <3>3
  <2>4. QED
    BY <2>1, <2>3, UntouchedQueue DEF QueueInv
<1>5. QED
  BY <1>2, <1>3, <1>4 DEF Reconcile

LEMMA NextIntegrity ==
    ASSUME QueueInv, [Next]_vars
    PROVE  QueueIntegrity'
<1>1. ASSUME UNCHANGED <<dirty, queue, worker>> PROVE QueueIntegrity'
  BY <1>1, UntouchedQueue DEF QueueInv
<1>2. CASE Cluster \/ Informer
  <2>1. UNCHANGED <<dirty, queue, worker>>
    BY <1>2 DEF Cluster, SubmitJob, EditJob, DeleteJob, DeletePod, CollectPod, RunPod,
                Informer, DeliverJob, DeliverPod, Resync, queueVars
  <2>2. QED
    BY <1>1, <2>1
<1>3. CASE (\E c \in late : LateCallTakesEffect(c) \/ LateCallIsLost(c)) \/ UNCHANGED vars
  <2>1. UNCHANGED <<dirty, queue, worker>>
    BY <1>3 DEF LateCallTakesEffect, LateCallIsLost, vars, queueVars
  <2>2. QED
    BY <1>1, <2>1
<1>4. CASE Restart
  BY <1>1, <1>4 DEF Restart
<1>5. CASE Crash
  BY <1>5, DieIntegrity DEF Crash
<1>6. CASE \E j \in Jobs : AddToQueue(j)
  BY <1>6, AddIntegrity
<1>7. CASE \E k \in Kinds : GetRequest(k) \/ Reconcile(k) \/ CallFails(k)
  BY <1>7, GetIntegrity, ReconcileIntegrity
<1>8. QED
  BY <1>2, <1>3, <1>4, <1>5, <1>6, <1>7 DEF Next

(* The work queue always holds exactly the dirty keys that nobody           *)
(* processes, each once.                                                   *)
THEOREM QueueIsSound == Spec => []QueueIntegrity
<1>1. Init => QueueIntegrity
  BY DEF Init, QueueIntegrity, Range
<1>2. TypeInv /\ QueueIntegrity /\ [Next]_vars => QueueIntegrity'
  BY NextIntegrity DEF QueueInv
<1>3. QED
  BY <1>1, <1>2, TypeInvariant, PTL DEF Spec
----------------------------------------------------------------------------
(* The operator never forgets a job.                                       *)

(***************************************************************************)
(* What a cache has to do with the API server: the cached state of an      *)
(* object and its unseen events, in order, are states the object was in,   *)
(* and the last of them is its state now.                                  *)
(***************************************************************************)
Seen(cached, events, i) == IF i = 0 THEN cached ELSE events[i]
LastSeen(cached, events) == Seen(cached, events, Len(events))

JobsSeen == up => \A j \in Jobs : LastSeen(jobCache[j], jobEvents[j]) = job[j]

(* A pod belongs to a job that is translated to its name. *)
OwnedPod(p, state) == \/ state = NoPod
                      \/ /\ state.phase # ""
                         /\ state.owner \in Jobs
                         /\ PodOf[state.owner] = p

(* No pod goes twice in a row, so each event names the owner of the pod. *)
PodHistory(p, cached, events) ==
    /\ \A i \in 0..Len(events) : OwnedPod(p, Seen(cached, events, i))
    /\ \A i \in 1..Len(events) : \/ Seen(cached, events, i-1) # NoPod
                                 \/ Seen(cached, events, i) # NoPod

PodsSeen ==
    \A p \in Pods : /\ OwnedPod(p, pod[p])
                    /\ PodHistory(p, podCache[p], podEvents[p])
                    /\ up => LastSeen(podCache[p], podEvents[p]) = pod[p]

(* Nothing has happened to the job that its controller does not know of. *)
Informed(j) == /\ up
               /\ IsLive(j)
               /\ j \notin waiting \cup dirty
               /\ jobEvents[j] = <<>>
               /\ podEvents[PodOf[j]] = <<>>

(* A worker on a job whose controller is informed acts on its present      *)
(* state, and a job without a worker needs none.                           *)
Attended(j) ==
    LET w == worker[KindOf[j]] IN
    IF w.key # j THEN Settled(j)
    ELSE /\ w.pc # "getJob" => w.seen = job[j]
         /\ w.pc = "create" => ~Exists(PodOf[j])
         /\ w.pc = "update" => Exists(PodOf[j]) /\ w.phase = pod[PodOf[j]].phase

AllAttended == DistinctPodNames => \A j \in Jobs : Informed(j) => Attended(j)

AttentionInv == TypeInv /\ JobsSeen /\ PodsSeen /\ AllAttended

----------------------------------------------------------------------------
(* The caches *)

LEMMA AppendSeen ==
    ASSUME NEW S, NEW cached, NEW events \in Seq(S), NEW state \in S
    PROVE  /\ LastSeen(cached, Append(events, state)) = state
           /\ \A i \in 0..Len(events) :
                Seen(cached, Append(events, state), i) = Seen(cached, events, i)
  BY DEF LastSeen, Seen

LEMMA TailSeen ==
    ASSUME NEW S, NEW cached, NEW events \in Seq(S), events # <<>>
    PROVE  /\ LastSeen(Head(events), Tail(events)) = LastSeen(cached, events)
           /\ Len(Tail(events)) = Len(events) - 1
           /\ \A i \in 0..Len(events)-1 :
                Seen(Head(events), Tail(events), i) = Seen(cached, events, i+1)
<1>1. /\ Len(events) \in Nat \ {0}
      /\ Len(Tail(events)) = Len(events) - 1
      /\ Head(events) = events[1]
      /\ \A i \in 1..Len(events)-1 : Tail(events)[i] = events[i+1]
  OBVIOUS
<1>2. ASSUME NEW i \in 0..Len(events)-1
      PROVE  Seen(Head(events), Tail(events), i) = Seen(cached, events, i+1)
  <2>1. CASE i = 0
    BY <1>1, <2>1 DEF Seen
  <2>2. CASE i # 0
    BY <1>1, <2>2 DEF Seen
  <2>3. QED
    BY <2>1, <2>2
<1>3. LastSeen(Head(events), Tail(events)) = LastSeen(cached, events)
  BY <1>1, <1>2 DEF LastSeen
<1>4. QED
  BY <1>1, <1>2, <1>3

LEMMA AppendHistory ==
    ASSUME NEW p \in Pods, NEW cached \in PodObject,
           NEW events \in Seq(PodObject), NEW state \in PodObject,
           PodHistory(p, cached, events), OwnedPod(p, state),
           LastSeen(cached, events) # NoPod \/ state # NoPod
    PROVE  /\ PodHistory(p, cached, Append(events, state))
           /\ LastSeen(cached, Append(events, state)) = state
<1> DEFINE n == Len(events)
           new == Append(events, state)
<1>1. n \in Nat /\ Len(new) = n + 1
  OBVIOUS
<1>2. Seen(cached, new, n+1) = state
  BY <1>1, AppendSeen DEF LastSeen
<1>3. \A i \in 0..n : Seen(cached, new, i) = Seen(cached, events, i)
  BY AppendSeen
<1> HIDE DEF new
<1>4. ASSUME NEW i \in 0..Len(new)
      PROVE  OwnedPod(p, Seen(cached, new, i))
  <2>1. CASE i = n + 1
    BY <1>2, <2>1
  <2>2. CASE i \in 0..n
    BY <1>3, <2>2 DEF PodHistory
  <2>3. QED
    BY <1>1, <2>1, <2>2
<1>5. ASSUME NEW i \in 1..Len(new)
      PROVE  Seen(cached, new, i-1) # NoPod \/ Seen(cached, new, i) # NoPod
  <2>1. CASE i = n + 1
    <3>1. i - 1 = n /\ Seen(cached, new, n) = LastSeen(cached, events)
      BY <1>1, <1>3, <2>1 DEF LastSeen
    <3>2. QED
      BY <1>2, <2>1, <3>1
  <2>2. CASE i \in 1..n
    <3>1. i - 1 \in 0..n /\ i \in 0..n
      BY <1>1, <2>2
    <3>2. QED
      BY <1>3, <2>2, <3>1 DEF PodHistory
  <2>3. QED
    BY <1>1, <2>1, <2>2
<1>6. PodHistory(p, cached, new) /\ LastSeen(cached, new) = state
  BY <1>1, <1>2, <1>4, <1>5 DEF PodHistory, LastSeen
<1>7. QED
  BY <1>6 DEF new

LEMMA TailHistory ==
    ASSUME NEW p, NEW cached, NEW events \in Seq(PodObject), events # <<>>,
           PodHistory(p, cached, events)
    PROVE  /\ PodHistory(p, Head(events), Tail(events))
           /\ OwnedPod(p, cached) /\ OwnedPod(p, Head(events))
           /\ cached # NoPod \/ Head(events) # NoPod
<1> DEFINE n == Len(events)
           rest == Tail(events)
<1>1. n \in Nat \ {0} /\ Len(rest) = n - 1
  BY TailSeen
<1>2. \A i \in 0..n-1 : Seen(Head(events), rest, i) = Seen(cached, events, i+1)
  BY TailSeen
<1>3. Seen(cached, events, 0) = cached /\ Seen(cached, events, 1) = Head(events)
  BY DEF Seen
<1> HIDE DEF rest
<1>4. ASSUME NEW i \in 0..Len(rest)
      PROVE  OwnedPod(p, Seen(Head(events), rest, i))
  <2>1. i \in 0..n-1 /\ i + 1 \in 0..n
    BY <1>1
  <2>2. QED
    BY <1>2, <2>1 DEF PodHistory
<1>5. ASSUME NEW i \in 1..Len(rest)
      PROVE  \/ Seen(Head(events), rest, i-1) # NoPod
             \/ Seen(Head(events), rest, i) # NoPod
  <2>1. i \in 0..n-1 /\ i - 1 \in 0..n-1 /\ i + 1 \in 1..n /\ (i - 1) + 1 = (i + 1) - 1
    BY <1>1
  <2>2. QED
    BY <1>2, <2>1 DEF PodHistory
<1>6. PodHistory(p, Head(events), rest)
  BY <1>4, <1>5 DEF PodHistory
<1>7. /\ OwnedPod(p, cached) /\ OwnedPod(p, Head(events))
      /\ cached # NoPod \/ Head(events) # NoPod
  <2>1. 0 \in 0..n /\ 1 \in 0..n /\ 1 \in 1..n /\ 1 - 1 = 0
    BY <1>1
  <2>2. QED
    BY <1>3, <2>1 DEF PodHistory
<1>8. QED
  BY <1>6, <1>7 DEF rest

LEMMA StoreJobSeen ==
    ASSUME TypeInv, JobsSeen, NEW j \in Jobs, NEW state \in JobObject,
           StoreJob(j, state), UNCHANGED <<up, jobCache>>
    PROVE  JobsSeen' /\ (up => jobEvents'[j] # <<>>)
<1>1. ASSUME up
      PROVE  /\ jobEvents'[j] = Append(jobEvents[j], state)
             /\ job'[j] = state
             /\ jobEvents[j] \in Seq(JobObject)
             /\ \A i \in Jobs : i # j => jobEvents'[i] = jobEvents[i] /\ job'[i] = job[i]
  BY <1>1 DEF StoreJob, Notify, TypeInv, TypeOK
<1>2. ASSUME up PROVE LastSeen(jobCache[j], jobEvents'[j]) = job'[j]
  BY <1>1, <1>2 DEF LastSeen, Seen
<1>3. ASSUME up PROVE jobEvents'[j] # <<>>
  BY <1>1, <1>3
<1>4. QED
  BY <1>1, <1>2, <1>3 DEF JobsSeen

LEMMA StorePodSeen ==
    ASSUME TypeInv, PodsSeen, NEW p \in Pods, NEW state \in PodObject,
           OwnedPod(p, state), pod[p] # NoPod \/ state # NoPod,
           StorePod(p, state), UNCHANGED <<up, podCache>>
    PROVE  PodsSeen' /\ (up => podEvents'[p] # <<>>)
<1>1. /\ pod'[p] = state
      /\ podEvents[p] \in Seq(PodObject) /\ podCache[p] \in PodObject
  BY DEF StorePod, Notify, TypeInv, TypeOK
<1>2. /\ OwnedPod(p, pod[p])
      /\ PodHistory(p, podCache[p], podEvents[p])
      /\ up => LastSeen(podCache[p], podEvents[p]) = pod[p]
  BY DEF PodsSeen
<1>3. \A q \in Pods : q # p => podEvents'[q] = podEvents[q] /\ pod'[q] = pod[q]
  BY DEF StorePod, Notify, TypeInv, TypeOK
<1>4. CASE up
  <2>1. podEvents'[p] = Append(podEvents[p], state)
    BY <1>4 DEF StorePod, Notify, TypeInv, TypeOK
  <2>2. LastSeen(podCache[p], podEvents[p]) # NoPod \/ state # NoPod
    BY <1>2, <1>4
  <2>3. /\ PodHistory(p, podCache[p], Append(podEvents[p], state))
        /\ LastSeen(podCache[p], Append(podEvents[p], state)) = state
    BY <1>1, <1>2, <2>2, AppendHistory
  <2>4. podEvents'[p] # <<>>
    BY <1>1, <2>1
  <2>5. QED
    BY <1>1, <1>3, <2>1, <2>3, <2>4 DEF PodsSeen
<1>5. CASE ~up
  <2>1. podEvents'[p] = podEvents[p]
    BY <1>5 DEF StorePod, Notify
  <2>2. QED
    BY <1>1, <1>2, <1>3, <1>5, <2>1 DEF PodsSeen
<1>6. QED
  BY <1>4, <1>5

LEMMA UnchangedSeen ==
    ASSUME UNCHANGED <<up>>
    PROVE  /\ JobsSeen /\ UNCHANGED <<job, jobCache, jobEvents>> => JobsSeen'
           /\ PodsSeen /\ UNCHANGED <<pod, podCache, podEvents>> => PodsSeen'
  BY DEF JobsSeen, PodsSeen

LEMMA DieSeen ==
    ASSUME PodsSeen, Die, UNCHANGED apiVars
    PROVE  JobsSeen' /\ PodsSeen'
<1>1. ~up' /\ \A p \in Pods : podCache'[p] = NoPod /\ podEvents'[p] = <<>>
  BY DEF Die
<1>2. JobsSeen'
  BY <1>1 DEF JobsSeen
<1>3. ASSUME NEW p \in Pods PROVE PodHistory(p, NoPod, <<>>)
  BY DEF PodHistory, OwnedPod, Seen
<1>4. PodsSeen'
  BY <1>1, <1>3 DEF PodsSeen, apiVars
<1>5. QED
  BY <1>2, <1>4

LEMMA RestartSeen ==
    ASSUME PodsSeen, Restart
    PROVE  JobsSeen' /\ PodsSeen'
<1>1. /\ jobCache' = job /\ podCache' = pod
      /\ UNCHANGED <<job, pod>>
      /\ \A j \in Jobs : jobEvents'[j] = <<>>
      /\ \A p \in Pods : podEvents'[p] = <<>>
  BY DEF Restart, apiVars
<1>2. \A cached : LastSeen(cached, <<>>) = cached
  BY DEF LastSeen, Seen
<1>3. JobsSeen'
  BY <1>1, <1>2 DEF JobsSeen
<1>4. ASSUME NEW p \in Pods PROVE PodHistory(p, pod[p], <<>>)
  BY DEF PodHistory, Seen, PodsSeen
<1>5. PodsSeen'
  BY <1>1, <1>2, <1>4 DEF PodsSeen
<1>6. QED
  BY <1>3, <1>5

----------------------------------------------------------------------------
(* The workers.  A step leaves a job attended if it does not touch it ... *)

LEMMA UntouchedJob ==
    ASSUME AllAttended, DistinctPodNames, NEW j \in Jobs, Informed(j),
           job'[j] = job[j], pod'[PodOf[j]] = pod[PodOf[j]],
           worker'[KindOf[j]] = worker[KindOf[j]]
    PROVE  Attended(j)'
<1>1. Attended(j)
  BY DEF AllAttended
<1>2. Settled(j)' <=> Settled(j)
  BY DEF Settled, Exists
<1>3. Exists(PodOf[j])' <=> Exists(PodOf[j])
  BY DEF Exists
<1>4. CASE worker[KindOf[j]].key # j
  BY <1>1, <1>2, <1>4 DEF Attended
<1>5. CASE worker[KindOf[j]].key = j
  BY <1>1, <1>3, <1>5 DEF Attended
<1>6. QED
  BY <1>4, <1>5

(* ... and if the worker of another job of its kind moves on or is freed. *)
LEMMA OtherJob ==
    ASSUME AllAttended, DistinctPodNames, NEW j \in Jobs, Informed(j),
           job'[j] = job[j], pod'[PodOf[j]] = pod[PodOf[j]],
           worker[KindOf[j]].key # j, worker'[KindOf[j]].key # j
    PROVE  Attended(j)'
<1>1. Settled(j)
  BY DEF AllAttended, Attended
<1>2. Settled(j)'
  BY <1>1 DEF Settled, Exists
<1>3. QED
  BY <1>2 DEF Attended

LEMMA JobStored ==
    ASSUME AttentionInv, NEW i \in Jobs, NEW state \in JobObject, StoreJob(i, state),
           UNCHANGED <<pod, podEvents, up, jobCache, podCache, queueVars, worker>>
    PROVE  JobsSeen' /\ PodsSeen' /\ AllAttended'
<1>1. /\ JobsSeen' /\ (up => jobEvents'[i] # <<>>)
      /\ PodsSeen'
  BY StoreJobSeen, UnchangedSeen DEF AttentionInv
<1>2. ASSUME DistinctPodNames, NEW j \in Jobs, Informed(j)'
      PROVE  Attended(j)'
  <2>1. i # j
    BY <1>1, <1>2 DEF Informed
  <2>2. jobEvents'[j] = jobEvents[j] /\ job'[j] = job[j]
    BY <2>1 DEF StoreJob, Notify, AttentionInv, TypeInv, TypeOK
  <2>3. Informed(j)
    BY <1>2, <2>2 DEF Informed, IsLive, queueVars
  <2>4. QED
    BY <1>2, <2>2, <2>3, UntouchedJob DEF AttentionInv
<1>3. QED
  BY <1>1, <1>2 DEF AllAttended

LEMMA PodStored ==
    ASSUME AttentionInv, NEW p \in Pods, NEW state \in PodObject,
           OwnedPod(p, state), pod[p] # NoPod \/ state # NoPod, StorePod(p, state),
           UNCHANGED <<job, jobEvents, up, jobCache, podCache, queueVars, worker>>
    PROVE  JobsSeen' /\ PodsSeen' /\ AllAttended'
<1>1. /\ PodsSeen' /\ (up => podEvents'[p] # <<>>)
      /\ JobsSeen'
  BY StorePodSeen, UnchangedSeen DEF AttentionInv
<1>2. ASSUME DistinctPodNames, NEW j \in Jobs, Informed(j)'
      PROVE  Attended(j)'
  <2>1. PodOf[j] # p /\ PodOf[j] \in Pods
    BY <1>1, <1>2, ConstantsAssumption DEF Informed
  <2>2. podEvents'[PodOf[j]] = podEvents[PodOf[j]] /\ pod'[PodOf[j]] = pod[PodOf[j]]
    BY <2>1 DEF StorePod, Notify, AttentionInv, TypeInv, TypeOK
  <2>3. Informed(j)
    BY <1>2, <2>2 DEF Informed, IsLive, queueVars
  <2>4. QED
    BY <1>2, <2>2, <2>3, UntouchedJob DEF AttentionInv
<1>3. QED
  BY <1>1, <1>2 DEF AllAttended

LEMMA ClusterAttention ==
    ASSUME AttentionInv, Cluster
    PROVE  JobsSeen' /\ PodsSeen' /\ AllAttended'
<1>0. NoPod.phase = ""
  BY DEF NoPod
<1>1. ASSUME NEW j \in Jobs, SubmitJob(j)
      PROVE  JobsSeen' /\ PodsSeen' /\ AllAttended'
  <2>1. PICK spec \in SpecsOf[j] : StoreJob(j, NewJob(incarnation[j] + 1, spec))
    BY <1>1 DEF SubmitJob
  <2>2. spec \in Specs
    BY ConstantsAssumption
  <2>3. NewJob(incarnation[j] + 1, spec) \in JobObject
    BY <2>2, ObjectTypes DEF AttentionInv, TypeInv, TypeOK
  <2>4. UNCHANGED <<pod, podEvents, up, jobCache, podCache, queueVars, worker>>
    BY <1>1 DEF SubmitJob
  <2>5. QED
    BY <2>1, <2>3, <2>4, JobStored
<1>2. ASSUME NEW j \in Jobs, DeleteJob(j)
      PROVE  JobsSeen' /\ PodsSeen' /\ AllAttended'
  BY <1>2, ObjectTypes, JobStored DEF DeleteJob
<1>3. ASSUME NEW p \in Pods, DeletePod(p) \/ CollectPod(p)
      PROVE  JobsSeen' /\ PodsSeen' /\ AllAttended'
  <2>1. OwnedPod(p, NoPod) /\ pod[p] # NoPod
    BY <1>0, <1>3 DEF DeletePod, CollectPod, Exists, OwnedPod
  <2>2. QED
    BY <1>3, <2>1, ObjectTypes, PodStored DEF DeletePod, CollectPod
<1>4. ASSUME NEW p \in Pods, RunPod(p)
      PROVE  JobsSeen' /\ PodsSeen' /\ AllAttended'
  <2>1. PICK phase \in Phases : StorePod(p, [pod[p] EXCEPT !.phase = phase])
    BY <1>4 DEF RunPod
  <2> DEFINE state == [pod[p] EXCEPT !.phase = phase]
  <2>2. pod[p] # NoPod /\ OwnedPod(p, pod[p]) /\ pod[p] \in PodObject
    BY <1>0, <1>4 DEF RunPod, Exists, AttentionInv, PodsSeen, TypeInv, TypeOK
  <2>3. state \in PodObject /\ OwnedPod(p, state)
    BY <2>2 DEF OwnedPod, PodObject, Phases
  <2>4. UNCHANGED <<job, jobEvents, up, jobCache, podCache, queueVars, worker>>
    BY <1>4 DEF RunPod
  <2>5. QED
    BY <2>1, <2>2, <2>3, <2>4, PodStored
<1>5. ASSUME NEW j \in Jobs, EditJob(j)
      PROVE  JobsSeen' /\ PodsSeen' /\ AllAttended'
  <2>1. PICK spec \in SpecsOf[j] : StoreJob(j, [job[j] EXCEPT !.spec = spec, !.ver = @ + 1])
    BY <1>5 DEF EditJob
  <2>2. [job[j] EXCEPT !.spec = spec, !.ver = @ + 1] \in JobObject
    BY EditedType DEF AttentionInv, TypeInv
  <2>3. UNCHANGED <<pod, podEvents, up, jobCache, podCache, queueVars, worker>>
    BY <1>5 DEF EditJob
  <2>4. QED
    BY <2>1, <2>2, <2>3, JobStored
<1>6. QED
  BY <1>1, <1>2, <1>3, <1>4, <1>5 DEF Cluster

LEMMA InformerAttention ==
    ASSUME AttentionInv, Informer
    PROVE  JobsSeen' /\ PodsSeen' /\ AllAttended'
<1>1. ASSUME NEW i \in Jobs, DeliverJob(i)
      PROVE  JobsSeen' /\ PodsSeen' /\ AllAttended'
  <2>1. /\ jobEvents[i] \in Seq(JobObject) /\ jobEvents[i] # <<>>
        /\ jobCache'[i] = Head(jobEvents[i])
        /\ jobEvents'[i] = Tail(jobEvents[i])
        /\ \A j \in Jobs : j # i => jobCache'[j] = jobCache[j] /\ jobEvents'[j] = jobEvents[j]
        /\ waiting' = waiting \cup {i}
        /\ UNCHANGED <<job, pod, up, podCache, podEvents, dirty, worker>>
    BY <1>1 DEF DeliverJob, apiVars, AttentionInv, TypeInv, TypeOK
  <2>2. LastSeen(Head(jobEvents[i]), Tail(jobEvents[i])) = LastSeen(jobCache[i], jobEvents[i])
    BY <2>1, TailSeen
  <2>3. JobsSeen'
    BY <2>1, <2>2 DEF AttentionInv, JobsSeen
  <2>4. PodsSeen'
    BY <2>1, UnchangedSeen DEF AttentionInv
  <2>5. ASSUME DistinctPodNames, NEW j \in Jobs, Informed(j)'
        PROVE  Attended(j)'
    <3>1. j # i
      BY <2>1, <2>5 DEF Informed
    <3>2. Informed(j)
      BY <2>1, <2>5, <3>1 DEF Informed, IsLive
    <3>3. QED
      BY <2>1, <2>5, <3>2, UntouchedJob DEF AttentionInv
  <2>6. QED
    BY <2>3, <2>4, <2>5 DEF AllAttended
<1>2. ASSUME NEW p \in Pods, DeliverPod(p)
      PROVE  JobsSeen' /\ PodsSeen' /\ AllAttended'
  <2>1. /\ podEvents[p] \in Seq(PodObject) /\ podEvents[p] # <<>>
        /\ podCache'[p] = Head(podEvents[p])
        /\ podEvents'[p] = Tail(podEvents[p])
        /\ \A q \in Pods : q # p => podCache'[q] = podCache[q] /\ podEvents'[q] = podEvents[q]
        /\ waiting' = waiting \cup Owners(podCache[p]) \cup Owners(Head(podEvents[p]))
        /\ UNCHANGED <<job, pod, up, jobCache, jobEvents, dirty, worker>>
    BY <1>2 DEF DeliverPod, apiVars, AttentionInv, TypeInv, TypeOK
  <2>2. LastSeen(Head(podEvents[p]), Tail(podEvents[p])) = LastSeen(podCache[p], podEvents[p])
    BY <2>1, TailSeen
  <2>3. /\ PodHistory(p, Head(podEvents[p]), Tail(podEvents[p]))
        /\ OwnedPod(p, podCache[p]) /\ OwnedPod(p, Head(podEvents[p]))
        /\ podCache[p] # NoPod \/ Head(podEvents[p]) # NoPod
    BY <2>1, TailHistory DEF AttentionInv, PodsSeen
  <2>4. PodsSeen'
    BY <2>1, <2>2, <2>3 DEF AttentionInv, PodsSeen
  <2>5. JobsSeen'
    BY <2>1, UnchangedSeen DEF AttentionInv
  <2>6. ASSUME DistinctPodNames, NEW j \in Jobs, Informed(j)'
        PROVE  Attended(j)'
    <3>1. CASE PodOf[j] = p
      <4>1. PICK o \in Jobs : PodOf[o] = p /\ o \in waiting'
        BY <2>1, <2>3 DEF OwnedPod, Owners
      <4>2. o = j
        BY <2>6, <3>1, <4>1 DEF DistinctPodNames
      <4>3. QED
        BY <2>6, <4>1, <4>2 DEF Informed
    <3>2. CASE PodOf[j] # p
      <4>1. podEvents'[PodOf[j]] = podEvents[PodOf[j]]
        BY <2>1, <3>2, ConstantsAssumption
      <4>2. Informed(j)
        BY <2>1, <2>6, <4>1 DEF Informed, IsLive
      <4>3. QED
        BY <2>1, <2>6, <4>2, UntouchedJob DEF AttentionInv
    <3>3. QED
      BY <3>1, <3>2
  <2>7. QED
    BY <2>4, <2>5, <2>6 DEF AllAttended
<1>3. ASSUME NEW i \in Jobs, Resync(i)
      PROVE  JobsSeen' /\ PodsSeen' /\ AllAttended'
  <2>1. /\ UNCHANGED <<job, pod, up, cacheVars, dirty, worker>>
        /\ waiting \subseteq waiting'
    BY <1>3 DEF Resync, apiVars
  <2>2. JobsSeen' /\ PodsSeen'
    BY <2>1, UnchangedSeen DEF AttentionInv, cacheVars
  <2>3. ASSUME DistinctPodNames, NEW j \in Jobs, Informed(j)'
        PROVE  Attended(j)'
    <3>1. Informed(j)
      BY <2>1, <2>3 DEF Informed, IsLive, cacheVars
    <3>2. QED
      BY <2>1, <2>3, <3>1, UntouchedJob DEF AttentionInv
  <2>4. QED
    BY <2>2, <2>3 DEF AllAttended
<1>4. QED
  BY <1>1, <1>2, <1>3 DEF Informer

LEMMA QueueAttention ==
    ASSUME AttentionInv,
           \/ \E j \in Jobs : AddToQueue(j)
           \/ \E k \in Kinds : GetRequest(k)
    PROVE  JobsSeen' /\ PodsSeen' /\ AllAttended'
<1>1. UNCHANGED <<job, pod, up, cacheVars>>
  BY DEF AddToQueue, GetRequest, apiVars
<1>2. JobsSeen' /\ PodsSeen'
  BY <1>1, UnchangedSeen DEF AttentionInv, cacheVars
<1>3. ASSUME NEW i \in Jobs, AddToQueue(i),
             DistinctPodNames, NEW j \in Jobs, Informed(j)'
      PROVE  Attended(j)'
  <2>1. Informed(j)
    BY <1>1, <1>3 DEF AddToQueue, Informed, IsLive, cacheVars
  <2>2. worker' = worker
    BY <1>3 DEF AddToQueue
  <2>3. QED
    BY <1>1, <1>3, <2>1, <2>2, UntouchedJob DEF AttentionInv
<1>4. ASSUME NEW k \in Kinds, GetRequest(k),
             DistinctPodNames, NEW j \in Jobs, Informed(j)'
      PROVE  Attended(j)'
  <2> DEFINE i == Head(queue[k])
  <2>1. /\ worker[k].pc = "idle" /\ worker[k] = Idle
        /\ waiting' = waiting /\ dirty' = dirty \ {i}
    BY <1>4 DEF GetRequest, AttentionInv, TypeInv, KeysOK, WorkerKeys
  <2>2. i \in Jobs /\ KindOf[i] = k
    <3>1. queue[k] \in Seq(Jobs) /\ queue[k] # <<>>
      BY <1>4 DEF GetRequest, AttentionInv, TypeInv, TypeOK
    <3>2. i = queue[k][1] /\ 1 \in 1..Len(queue[k])
      BY <3>1
    <3>3. QED
      BY <3>1, <3>2 DEF AttentionInv, TypeInv, KeysOK, QueueKeys
  <2>3. /\ worker' = [worker EXCEPT ![k] = [Idle EXCEPT !.pc = "getJob", !.key = i]]
        /\ worker'[k] = [Idle EXCEPT !.pc = "getJob", !.key = i]
        /\ worker'[k].pc = "getJob" /\ worker'[k].key = i
    BY <1>4 DEF GetRequest, Idle, AttentionInv, TypeInv, TypeOK
  <2>4. CASE j = i
    BY <1>4, <2>2, <2>3, <2>4 DEF Attended
  <2>5. CASE j # i
    <3>1. Informed(j)
      BY <1>1, <1>4, <2>1, <2>5 DEF Informed, IsLive, cacheVars
    <3>2. CASE KindOf[j] = k
      <4>1. worker[k].key # j
        <5>1. Idle.key = None
          BY DEF Idle
        <5>2. QED
          BY <2>1, <5>1, ConstantsAssumption
      <4>2. QED
        BY <1>1, <1>4, <2>3, <2>5, <3>1, <3>2, <4>1, OtherJob DEF AttentionInv
    <3>3. CASE KindOf[j] # k
      <4>1. worker'[KindOf[j]] = worker[KindOf[j]]
        BY <2>3, <3>3, ConstantsAssumption DEF AttentionInv, TypeInv, TypeOK
      <4>2. QED
        BY <1>1, <1>4, <3>1, <4>1, UntouchedJob DEF AttentionInv
    <3>4. QED
      BY <3>2, <3>3
  <2>6. QED
    BY <2>4, <2>5
<1>5. AllAttended'
  BY <1>3, <1>4 DEF AllAttended, DistinctPodNames
<1>6. QED
  BY <1>2, <1>5

(* A step of the worker of kind k, which works on job i, leaves every      *)
(* other job attended.                                                     *)
LEMMA WorkerStep ==
    ASSUME AttentionInv, NEW k \in Kinds, NEW i \in Jobs, worker[k].key = i, KindOf[i] = k,
           worker'[k].key # i => worker'[k] = Idle,
           \A c \in Kinds : c # k => worker'[c] = worker[c],
           waiting \cup dirty \subseteq waiting' \cup dirty', up' = up,
           \A j \in Jobs : j # i => job'[j] = job[j] /\ jobEvents'[j] = jobEvents[j],
           \A p \in Pods : p # PodOf[i] => pod'[p] = pod[p] /\ podEvents'[p] = podEvents[p],
           DistinctPodNames, NEW j \in Jobs, j # i, Informed(j)'
    PROVE  Attended(j)'
<1>1. PodOf[j] \in Pods /\ PodOf[j] # PodOf[i] /\ KindOf[j] \in Kinds
  BY ConstantsAssumption DEF DistinctPodNames
<1>2. /\ Informed(j)
      /\ job'[j] = job[j] /\ pod'[PodOf[j]] = pod[PodOf[j]]
  BY <1>1 DEF Informed, IsLive
<1>3. CASE KindOf[j] = k
  <2>1. worker[k].key # j
    OBVIOUS
  <2>2. worker'[k].key # j
    <3>1. Idle.key # j
      BY ConstantsAssumption DEF Idle
    <3>2. QED
      BY <3>1
  <2>3. QED
    BY <1>2, <1>3, <2>1, <2>2, OtherJob DEF AttentionInv
<1>4. CASE KindOf[j] # k
  BY <1>1, <1>2, <1>4, UntouchedJob DEF AttentionInv
<1>5. QED
  BY <1>3, <1>4

(* What a release of the worker does to the worker and to the keys. *)
LEMMA ReleaseFrees ==
    ASSUME AttentionInv, NEW k \in Kinds, worker[k].pc # "idle", Finish(k) \/ Fail(k)
    PROVE  /\ worker'[k] = Idle
           /\ \A c \in Kinds : c # k => worker'[c] = worker[c]
           /\ waiting \cup dirty \subseteq waiting' \cup dirty'
           /\ Fail(k) => worker[k].key \in waiting'
  BY DEF Finish, Fail, Release, AttentionInv, TypeInv, TypeOK

LEMMA ReconcileAttention ==
    ASSUME AttentionInv, NEW k \in Kinds, Reconcile(k) \/ CallFails(k)
    PROVE  JobsSeen' /\ PodsSeen' /\ AllAttended'
<1> DEFINE w == worker[k]
<1>1. w.pc # "idle"
  BY DEF Reconcile, GetJobGone, GetJobRefused, GetJobPanics, GetJob, GetPodGone,
         GetPodMissing, GetPod, CreatePod, UpdateStatus, CallRejected, CallFails, Calls
<1>key. PICK i \in Jobs : i = w.key /\ KindOf[i] = k
  BY <1>1 DEF AttentionInv, TypeInv, KeysOK, WorkerKeys
<1> DEFINE p == PodOf[i]
<1>2. w \in WorkerState /\ w.key = i /\ KindOf[i] = k /\ p \in Pods
  BY <1>key, ConstantsAssumption DEF AttentionInv, TypeInv, TypeOK
<1>3. Idle.key # i
  BY ConstantsAssumption DEF Idle
(* What is known of job i when its controller is informed. *)
<1>4. ASSUME DistinctPodNames, Informed(i)
      PROVE  /\ jobCache[i] = job[i] /\ podCache[p] = pod[p] /\ OwnedPod(p, pod[p])
             /\ w.pc # "getJob" => w.seen = job[i]
             /\ w.pc = "create" => ~Exists(p)
             /\ w.pc = "update" => Exists(p) /\ w.phase = pod[p].phase
  <2>1. jobCache[i] = job[i]
    BY <1>2, <1>4 DEF AttentionInv, JobsSeen, LastSeen, Seen, Informed
  <2>2. podCache[p] = pod[p] /\ OwnedPod(p, pod[p])
    BY <1>2, <1>4 DEF AttentionInv, PodsSeen, LastSeen, Seen, Informed
  <2>3. QED
    BY <1>2, <1>4, <2>1, <2>2 DEF AttentionInv, AllAttended, Attended
(* Reads of the caches, and errors: the cluster stays as it is. *)
<1>5. ASSUME UNCHANGED <<apiVars, up, cacheVars>>,
             waiting \cup dirty \subseteq waiting' \cup dirty',
             \A c \in Kinds : c # k => worker'[c] = worker[c],
             worker'[k].key # i => worker'[k] = Idle,
             DistinctPodNames /\ Informed(i)' => Attended(i)'
      PROVE  JobsSeen' /\ PodsSeen' /\ AllAttended'
  <2>1. JobsSeen' /\ PodsSeen'
    BY <1>5, UnchangedSeen DEF AttentionInv, apiVars, cacheVars
  <2>2. ASSUME DistinctPodNames, NEW j \in Jobs, j # i, Informed(j)'
        PROVE  Attended(j)'
    BY <1>2, <1>5, <2>2, WorkerStep DEF apiVars, cacheVars
  <2>3. QED
    BY <1>5, <2>1, <2>2 DEF AllAttended
<1>6. ASSUME UNCHANGED <<apiVars, up, cacheVars>>,
             waiting \cup dirty \subseteq waiting' \cup dirty', Informed(i)'
      PROVE  Informed(i)
  BY <1>2, <1>6 DEF Informed, IsLive, apiVars, cacheVars
<1>7. ASSUME GetJobRefused(k) \/ CallRejected(k) \/ CallFails(k)
      PROVE  JobsSeen' /\ PodsSeen' /\ AllAttended'
  <2>1. Fail(k) /\ UNCHANGED <<apiVars, up, cacheVars>>
    BY <1>7 DEF GetJobRefused, CallRejected, CallFails
  <2>2. ~Informed(i)'
    BY <1>1, <1>2, <2>1, ReleaseFrees DEF Informed
  <2>3. QED
    BY <1>1, <1>5, <2>1, <2>2, ReleaseFrees
<1>8. ASSUME GetJobGone(k)
      PROVE  JobsSeen' /\ PodsSeen' /\ AllAttended'
  <2>1. Finish(k) /\ UNCHANGED <<apiVars, up, cacheVars>> /\ jobCache[i] = NoJob
    BY <1>2, <1>8 DEF GetJobGone
  <2>2. NoJob.uid = 0
    BY DEF NoJob
  <2>3. DistinctPodNames => ~Informed(i)'
    BY <1>1, <1>4, <1>6, <2>1, <2>2, ReleaseFrees DEF Informed, IsLive
  <2>4. QED
    BY <1>1, <1>5, <2>1, <2>3, ReleaseFrees
<1>9. ASSUME GetPodGone(k)
      PROVE  JobsSeen' /\ PodsSeen' /\ AllAttended'
  <2>1. /\ Finish(k) /\ UNCHANGED <<apiVars, up, cacheVars>>
        /\ w.pc = "getPod" /\ podCache[p] = NoPod /\ w.seen.status # ""
    BY <1>2, <1>9 DEF GetPodGone
  <2>2. NoPod.phase = ""
    BY DEF NoPod
  <2>3. ASSUME DistinctPodNames, Informed(i)' PROVE Attended(i)'
    <3>1. Informed(i)
      BY <1>1, <1>6, <2>1, <2>3, ReleaseFrees
    <3>2. job[i].status # "" /\ ~Exists(p)
      BY <1>4, <2>1, <2>2, <2>3, <3>1 DEF Exists
    <3>3. job' = job /\ pod' = pod /\ worker'[k] = Idle
      BY <1>1, <2>1, ReleaseFrees DEF apiVars
    <3>4. QED
      BY <1>2, <1>3, <3>2, <3>3 DEF Attended, Settled, Exists
  <2>4. QED
    BY <1>1, <1>5, <2>1, <2>3, ReleaseFrees
<1>10. ASSUME GetJob(k) \/ GetPodMissing(k) \/ GetPod(k)
       PROVE  JobsSeen' /\ PodsSeen' /\ AllAttended'
  <2>1. /\ UNCHANGED <<apiVars, up, cacheVars, queueVars>>
        /\ worker'[k].key = i
        /\ \A c \in Kinds : c # k => worker'[c] = worker[c]
    <3>1. worker \in [Kinds -> WorkerState]
      BY DEF AttentionInv, TypeInv, TypeOK
    <3>2. CASE GetJob(k)
      BY <1>2, <3>1, <3>2 DEF GetJob, WorkerState
    <3>3. CASE GetPodMissing(k)
      BY <1>2, <3>1, <3>3 DEF GetPodMissing, WorkerState
    <3>4. CASE GetPod(k)
      BY <1>2, <3>1, <3>4 DEF GetPod, StatusToReport, WorkerState
    <3>5. QED
      BY <1>10, <3>2, <3>3, <3>4
  <2>2. ASSUME DistinctPodNames, Informed(i)' PROVE Attended(i)'
    <3>1. Informed(i)
      BY <1>6, <2>1, <2>2 DEF queueVars
    <3>2. job' = job /\ pod' = pod
      BY <2>1 DEF apiVars
    <3>3. CASE GetJob(k)
      <4>1. worker'[k].pc = "getPod" /\ worker'[k].seen = job[i]
        BY <1>2, <1>4, <2>2, <3>1, <3>3
           DEF GetJob, AttentionInv, TypeInv, TypeOK, WorkerState
      <4>2. QED
        BY <1>2, <2>1, <3>2, <4>1 DEF Attended
    <3>4. CASE GetPodMissing(k)
      <4>1. worker'[k].pc = "create" /\ worker'[k].seen = w.seen /\ w.pc = "getPod"
        BY <1>2, <3>4 DEF GetPodMissing, AttentionInv, TypeInv, TypeOK, WorkerState
      <4>2. ~Exists(p) /\ w.seen = job[i]
        <5>1. podCache[p] = NoPod
          BY <1>2, <3>4 DEF GetPodMissing
        <5>2. podCache[p] = pod[p] /\ w.seen = job[i]
          BY <1>4, <2>2, <3>1, <4>1
        <5>3. NoPod.phase = ""
          BY DEF NoPod
        <5>4. QED
          BY <5>1, <5>2, <5>3 DEF Exists
      <4>3. QED
        BY <1>2, <2>1, <3>2, <4>1, <4>2 DEF Attended, Exists
    <3>5. CASE GetPod(k)
      <4>1. /\ worker'[k].pc = "update" /\ worker'[k].seen = w.seen /\ w.pc = "getPod"
            /\ worker'[k].phase = podCache[p].phase
        BY <1>2, <3>5 DEF GetPod, StatusToReport, AttentionInv, TypeInv, TypeOK, WorkerState
      <4>2. Exists(p) /\ podCache[p] = pod[p] /\ w.seen = job[i]
        <5>1. podCache[p] # NoPod
          BY <1>2, <3>5 DEF GetPod
        <5>2. podCache[p] = pod[p] /\ OwnedPod(p, pod[p]) /\ w.seen = job[i]
          BY <1>4, <2>2, <3>1, <4>1
        <5>3. QED
          BY <5>1, <5>2 DEF Exists, OwnedPod
      <4>3. QED
        BY <1>2, <2>1, <3>2, <4>1, <4>2 DEF Attended, Exists
    <3>6. QED
      BY <1>10, <3>3, <3>4, <3>5
  <2>3. QED
    BY <1>5, <2>1, <2>2 DEF queueVars
<1>11. ASSUME GetJobPanics(k)
       PROVE  JobsSeen' /\ PodsSeen' /\ AllAttended'
  <2>1. JobsSeen' /\ PodsSeen' /\ ~up'
    BY <1>11, DieSeen DEF GetJobPanics, Die, AttentionInv
  <2>2. QED
    BY <2>1 DEF AllAttended, Informed
<1>12. ASSUME CreatePod(k)
       PROVE  JobsSeen' /\ PodsSeen' /\ AllAttended'
  <2>1. /\ Finish(k) /\ ~Exists(p) /\ StorePod(p, NewPod(i, w.seen.uid))
        /\ UNCHANGED <<job, jobEvents, up, jobCache, podCache>>
    BY <1>2, <1>12 DEF CreatePod, CreateAccepted, ApplyCreate
  <2>2. /\ NewPod(i, w.seen.uid) \in PodObject
        /\ NewPod(i, w.seen.uid) # NoPod
        /\ OwnedPod(p, NewPod(i, w.seen.uid))
    <3>1. w.seen.uid \in Nat
      BY <1>2 DEF WorkerState, JobObject
    <3>2. /\ NewPod(i, w.seen.uid).phase = "Pending" /\ NewPod(i, w.seen.uid).owner = i
          /\ NoPod.phase = ""
      BY DEF NewPod, NoPod
    <3>3. QED
      BY <1>2, <3>1, <3>2, ObjectTypes DEF OwnedPod
  <2>3. PodsSeen' /\ (up => podEvents'[p] # <<>>)
    BY <1>2, <2>1, <2>2, StorePodSeen DEF AttentionInv
  <2>4. JobsSeen'
    BY <2>1, UnchangedSeen DEF AttentionInv
  <2>5. ~Informed(i)'
    BY <2>1, <2>3 DEF Informed
  <2>6. \A q \in Pods : q # p => pod'[q] = pod[q] /\ podEvents'[q] = podEvents[q]
    BY <2>1 DEF StorePod, Notify, AttentionInv, TypeInv, TypeOK
  <2>7. ASSUME DistinctPodNames, NEW j \in Jobs, j # i, Informed(j)'
        PROVE  Attended(j)'
    BY <1>1, <1>2, <2>1, <2>6, <2>7, ReleaseFrees, WorkerStep
  <2>8. QED
    BY <2>3, <2>4, <2>5, <2>7 DEF AllAttended
<1>13. ASSUME UpdateStatus(k)
       PROVE  JobsSeen' /\ PodsSeen' /\ AllAttended'
  <2>1. /\ Finish(k) /\ w.pc = "update"
        /\ UNCHANGED <<pod, podEvents, up, jobCache, podCache>>
    BY <1>13 DEF UpdateStatus, ApplyUpdate
  <2>2. PodsSeen'
    BY <2>1, UnchangedSeen DEF AttentionInv
  <2>3. CASE job[i].status = w.phase
    <3>1. UNCHANGED <<job, jobEvents>>
      BY <1>2, <1>13, <2>3 DEF UpdateStatus, ApplyUpdate
    <3>2. JobsSeen'
      BY <2>1, <3>1, UnchangedSeen DEF AttentionInv
    <3>3. ASSUME DistinctPodNames, Informed(i)' PROVE Attended(i)'
      <4>1. Informed(i)
        BY <1>1, <1>2, <2>1, <3>1, <3>3, ReleaseFrees DEF Informed, IsLive
      <4>2. Exists(p) /\ job[i].status = pod[p].phase
        BY <1>4, <2>1, <2>3, <3>3, <4>1
      <4>3. worker'[k] = Idle
        BY <1>1, <2>1, ReleaseFrees
      <4>4. QED
        BY <1>2, <1>3, <2>1, <3>1, <4>2, <4>3 DEF Attended, Settled, Exists
    <3>4. ASSUME DistinctPodNames, NEW j \in Jobs, j # i, Informed(j)'
          PROVE  Attended(j)'
      BY <1>1, <1>2, <2>1, <3>1, <3>4, ReleaseFrees, WorkerStep
    <3>5. QED
      BY <2>2, <3>2, <3>3, <3>4 DEF AllAttended
  <2>4. CASE job[i].status # w.phase
    <3> DEFINE new == [job[i] EXCEPT !.status = w.phase, !.ver = @ + 1]
    <3>1. StoreJob(i, new)
      BY <1>2, <1>13, <2>4 DEF UpdateStatus, ApplyUpdate
    <3>2. new \in JobObject
      <4>1. job[i] \in JobObject /\ w.phase \in Phases \cup {""}
        BY <1>2 DEF AttentionInv, TypeInv, TypeOK, WorkerState
      <4>2. job[i].ver \in Nat
        BY <4>1 DEF JobObject
      <4>3. job[i].ver + 1 \in Nat
        BY <4>2
      <4>4. QED
        BY <4>1, <4>3 DEF JobObject
    <3>3. JobsSeen' /\ (up => jobEvents'[i] # <<>>)
      BY <1>2, <2>1, <3>1, <3>2, StoreJobSeen DEF AttentionInv
    <3>4. ~Informed(i)'
      BY <2>1, <3>3 DEF Informed
    <3>5. \A j \in Jobs : j # i => job'[j] = job[j] /\ jobEvents'[j] = jobEvents[j]
      BY <3>1 DEF StoreJob, Notify, AttentionInv, TypeInv, TypeOK
    <3>6. ASSUME DistinctPodNames, NEW j \in Jobs, j # i, Informed(j)'
          PROVE  Attended(j)'
      BY <1>1, <1>2, <2>1, <3>5, <3>6, ReleaseFrees, WorkerStep
    <3>7. QED
      BY <2>2, <3>3, <3>4, <3>6 DEF AllAttended
  <2>5. QED
    BY <2>3, <2>4
<1>14. QED
  BY <1>7, <1>8, <1>9, <1>10, <1>11, <1>12, <1>13 DEF Reconcile

LEMMA LateAttention ==
    ASSUME AttentionInv, NEW c \in late, LateCallTakesEffect(c) \/ LateCallIsLost(c)
    PROVE  JobsSeen' /\ PodsSeen' /\ AllAttended'
<1>1. c \in WorkerState /\ c.key \in Jobs /\ c.pc \in Calls
  BY DEF AttentionInv, TypeInv, TypeOK, KeysOK, LateKeys
<1>2. ASSUME UNCHANGED <<job, pod, up, cacheVars, queueVars, worker>>
      PROVE  JobsSeen' /\ PodsSeen' /\ AllAttended'
  <2>1. JobsSeen' /\ PodsSeen'
    BY <1>2, UnchangedSeen DEF AttentionInv, cacheVars
  <2>2. ASSUME DistinctPodNames, NEW j \in Jobs, Informed(j)'
        PROVE  Attended(j)'
    <3>1. Informed(j)
      BY <1>2, <2>2 DEF Informed, IsLive, cacheVars, queueVars
    <3>2. QED
      BY <1>2, <2>2, <3>1, UntouchedJob DEF AttentionInv
  <2>3. QED
    BY <2>1, <2>2 DEF AllAttended
<1>3. CASE LateCallIsLost(c)
  BY <1>2, <1>3 DEF LateCallIsLost, apiVars
<1>4. CASE LateCallTakesEffect(c) /\ c.pc = "create"
  <2>1. /\ ~Exists(PodOf[c.key]) /\ StorePod(PodOf[c.key], NewPod(c.key, c.seen.uid))
        /\ UNCHANGED <<job, jobEvents, up, jobCache, podCache, queueVars, worker>>
    BY <1>4 DEF LateCallTakesEffect, Accepted, Apply, CreateAccepted, ApplyCreate
  <2>2. c.seen.uid \in Nat /\ PodOf[c.key] \in Pods
    BY <1>1, ConstantsAssumption DEF WorkerState, JobObject
  <2>3. /\ NewPod(c.key, c.seen.uid).phase = "Pending"
        /\ NewPod(c.key, c.seen.uid).owner = c.key
        /\ NoPod.phase = ""
    BY DEF NewPod, NoPod
  <2>4. /\ NewPod(c.key, c.seen.uid) \in PodObject
        /\ NewPod(c.key, c.seen.uid) # NoPod
        /\ OwnedPod(PodOf[c.key], NewPod(c.key, c.seen.uid))
    BY <1>1, <2>2, <2>3, ObjectTypes DEF OwnedPod
  <2>5. QED
    BY <2>1, <2>2, <2>4, PodStored
<1>5. CASE LateCallTakesEffect(c) /\ c.pc # "create"
  <2>1. /\ ApplyUpdate(c)
        /\ UNCHANGED <<pod, podEvents, up, jobCache, podCache, queueVars, worker>>
    BY <1>5 DEF LateCallTakesEffect, Apply, ApplyUpdate
  <2>2. CASE job[c.key].status = c.phase
    BY <1>2, <2>1, <2>2 DEF ApplyUpdate, cacheVars
  <2>3. CASE job[c.key].status # c.phase
    <3> DEFINE new == [job[c.key] EXCEPT !.status = c.phase, !.ver = @ + 1]
    <3>1. StoreJob(c.key, new)
      BY <2>1, <2>3 DEF ApplyUpdate
    <3>2. new \in JobObject
      <4>1. job[c.key] \in JobObject /\ c.phase \in Phases \cup {""}
        BY <1>1 DEF AttentionInv, TypeInv, TypeOK, WorkerState
      <4>2. job[c.key].ver \in Nat
        BY <4>1 DEF JobObject
      <4>3. job[c.key].ver + 1 \in Nat
        BY <4>2
      <4>4. QED
        BY <4>1, <4>3 DEF JobObject
    <3>3. QED
      BY <1>1, <2>1, <3>1, <3>2, JobStored
  <2>4. QED
    BY <2>2, <2>3
<1>6. QED
  BY <1>3, <1>4, <1>5

LEMMA ProcessAttention ==
    ASSUME AttentionInv, Crash \/ Restart
    PROVE  JobsSeen' /\ PodsSeen' /\ AllAttended'
<1>1. CASE Crash
  <2>1. JobsSeen' /\ PodsSeen' /\ ~up'
    BY <1>1, DieSeen DEF Crash, Die, AttentionInv
  <2>2. QED
    BY <2>1 DEF AllAttended, Informed
<1>2. CASE Restart
  <2>1. JobsSeen' /\ PodsSeen'
    BY <1>2, RestartSeen DEF AttentionInv
  <2>2. \A j \in Jobs : IsLive(j)' => j \in waiting'
    BY <1>2 DEF Restart, Notified, IsLive, apiVars
  <2>3. QED
    BY <2>1, <2>2 DEF AllAttended, Informed
<1>3. QED
  BY <1>1, <1>2

LEMMA StutterAttention ==
    ASSUME AttentionInv, UNCHANGED vars
    PROVE  JobsSeen' /\ PodsSeen' /\ AllAttended'
<1>1. UNCHANGED <<job, pod, up, cacheVars, queueVars, worker>>
  BY DEF vars, apiVars
<1>2. JobsSeen' /\ PodsSeen'
  BY <1>1, UnchangedSeen DEF AttentionInv, cacheVars
<1>3. ASSUME DistinctPodNames, NEW j \in Jobs, Informed(j)'
      PROVE  Attended(j)'
  <2>1. Informed(j)
    BY <1>1, <1>3 DEF Informed, IsLive, cacheVars, queueVars
  <2>2. QED
    BY <1>1, <1>3, <2>1, UntouchedJob DEF AttentionInv
<1>4. QED
  BY <1>2, <1>3 DEF AllAttended

----------------------------------------------------------------------------

LEMMA InitAttention == Init => AttentionInv
<1> SUFFICES ASSUME Init PROVE AttentionInv
  OBVIOUS
<1>1. /\ \A j \in Jobs : job[j] = NoJob /\ jobCache[j] = NoJob /\ jobEvents[j] = <<>>
      /\ \A p \in Pods : pod[p] = NoPod /\ podCache[p] = NoPod /\ podEvents[p] = <<>>
  BY DEF Init
<1>2. \A cached : LastSeen(cached, <<>>) = cached
  BY DEF LastSeen, Seen
<1>3. \A p \in Pods : OwnedPod(p, NoPod) /\ PodHistory(p, NoPod, <<>>)
  BY DEF OwnedPod, PodHistory, Seen
<1>4. JobsSeen /\ PodsSeen
  BY <1>1, <1>2, <1>3 DEF JobsSeen, PodsSeen
<1>5. NoJob.uid = 0
  BY DEF NoJob
<1>6. AllAttended
  BY <1>1, <1>5 DEF AllAttended, Informed, IsLive
<1>7. QED
  BY <1>4, <1>6, InitTypeInv DEF AttentionInv

LEMMA NextAttention ==
    ASSUME AttentionInv, [Next]_vars
    PROVE  AttentionInv'
<1>1. TypeInv'
  BY NextTypeInv DEF AttentionInv
<1>2. JobsSeen' /\ PodsSeen' /\ AllAttended'
  BY ClusterAttention, InformerAttention, QueueAttention, ReconcileAttention,
     LateAttention, ProcessAttention, StutterAttention DEF Next
<1>3. QED
  BY <1>1, <1>2 DEF AttentionInv

LEMMA AttentionSuffices == AttentionInv => NeverForgotten
<1> SUFFICES ASSUME AttentionInv, DistinctPodNames, up,
                    NEW j \in Jobs, IsLive(j), ~Outstanding(j)
             PROVE  Settled(j)
  BY DEF NeverForgotten
<1>1. Informed(j) /\ worker[KindOf[j]].key # j
  BY DEF Outstanding, Informed, IsProcessing
<1>2. Attended(j)
  BY <1>1 DEF AttentionInv, AllAttended
<1>3. QED
  BY <1>1, <1>2 DEF Attended

(* Whenever no event, notification, retry or reconcile is outstanding for  *)
(* a job, its pod exists and its status is the phase of that pod, or the   *)
(* pod is gone and a status was reported: the operator never goes to sleep *)
(* on a job that still needs it.                                           *)
THEOREM JobsNeverForgotten == Spec => []NeverForgotten
<1>1. Init => AttentionInv
  BY InitAttention
<1>2. AttentionInv /\ [Next]_vars => AttentionInv'
  BY NextAttention
<1>3. AttentionInv => NeverForgotten
  BY AttentionSuffices
<1>4. QED
  BY <1>1, <1>2, <1>3, PTL DEF Spec
=============================================================================
