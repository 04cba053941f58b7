--------------------------- MODULE JobReconciler ---------------------------
(***************************************************************************)
(* The operator: the SlurmJob and WlmJob controllers of pkg/operator, the  *)
(* API server objects they act on, the watch caches they read and the work *)
(* queue that wakes them.                                                  *)
(*                                                                         *)
(* Each controller has one worker.  A reconcile is four steps, because the *)
(* cluster may move between any two of them: take a key from the queue,    *)
(* read the job from the cache, read its pod from the cache, and make one  *)
(* call to the API server.  The caches follow the API server through       *)
(* per-object streams of watch events and may lag behind it.               *)
(***************************************************************************)
EXTENDS Naturals, Sequences

CONSTANTS
    Jobs,             \* names of job objects, of both kinds
    Pods,             \* names of pods
    None,             \* "no job"
    KindOf,           \* the kind of each job, i.e. the controller in charge
    SpecsOf,          \* what the specification of each job may ask for
    PodOf,            \* the pod name each job is translated to
    MaxIncarnations,  \* bound: how often one name is submitted
    MaxCrashes,       \* bound: crashes of the operator process
    MaxCallFailures,  \* bound: calls to the API server that end in an error
    MaxPodDeletions,  \* bound: pods deleted by a user or by an eviction
    MaxEdits,         \* bound: changes of the specification of a job
    MaxLag            \* bound: unseen events of a pod that is collected

Kinds == {"SlurmJob", "WlmJob"}

(***************************************************************************)
(* What the translation of a job to a pod can tell apart: resources that   *)
(* are requested, none at all, a directive that is not a number, and a     *)
(* batch script whose directive ends in a parameter without a value.       *)
(***************************************************************************)
Specs == {"resources", "none", "malformed", "dangling"}

ASSUME ConstantsAssumption ==
    /\ None \notin Jobs
    /\ KindOf \in [Jobs -> Kinds]
    /\ SpecsOf \in [Jobs -> SUBSET Specs]
    /\ PodOf \in [Jobs -> Pods]
    /\ MaxIncarnations \in Nat
    /\ MaxCrashes \in Nat
    /\ MaxCallFailures \in Nat
    /\ MaxPodDeletions \in Nat
    /\ MaxEdits \in Nat
    /\ MaxLag \in Nat

VARIABLES
    job,         \* API server: the job objects
    pod,         \* API server: the pods
    incarnation, \* how often each job name was submitted; the uid of the last
    up,          \* the operator process runs
    jobCache,    \* what the operator's informers have seen of the jobs
    podCache,    \* ... and of the pods
    jobEvents,   \* watch events of each job not yet seen
    podEvents,   \* watch events of each pod not yet seen
    waiting,     \* keys on their way to the queue: notified, or backing off
    dirty,       \* work queue: keys that need processing
    queue,       \* work queue of each controller: keys in order
    worker,      \* the worker of each controller
    late,        \* calls whose caller is gone and that may still take effect
    budget       \* failures still allowed

apiVars == <<job, pod, incarnation>>
cacheVars == <<jobCache, podCache, jobEvents, podEvents>>
queueVars == <<waiting, dirty, queue>>
vars == <<apiVars, up, cacheVars, queueVars, worker, late, budget>>

----------------------------------------------------------------------------
(* Objects *)

Phases == {"Pending", "Running", "Succeeded", "Failed"}

Rank(phase) == CASE phase = "" -> 0
                 [] phase = "Pending" -> 1
                 [] phase = "Running" -> 2
                 [] OTHER -> 3

JobObject == [uid : Nat, ver : Nat, spec : Specs, status : Phases \cup {""}]
PodObject == [owner : Jobs \cup {None}, uid : Nat, phase : Phases \cup {""}]

NoJob == [uid |-> 0, ver |-> 0, spec |-> "none", status |-> ""]
NoPod == [owner |-> None, uid |-> 0, phase |-> ""]

NewJob(uid, spec) == [uid |-> uid, ver |-> 1, spec |-> spec, status |-> ""]
NewPod(j, uid) == [owner |-> j, uid |-> uid, phase |-> "Pending"]

IsLive(j) == job[j].uid # 0
Exists(p) == pod[p].phase # ""

(* The watch sends the new state of an object to an operator that runs. *)
Notify(events, x, state) ==
    IF up THEN [events EXCEPT ![x] = Append(@, state)] ELSE events

StoreJob(j, state) == /\ job' = [job EXCEPT ![j] = state]
                      /\ jobEvents' = Notify(jobEvents, j, state)

StorePod(p, state) == /\ pod' = [pod EXCEPT ![p] = state]
                      /\ podEvents' = Notify(podEvents, p, state)

----------------------------------------------------------------------------
(* The worker.  A worker at "create" or "update" waits for the API server. *)

Calls == {"create", "update"}
Idle == [pc |-> "idle", key |-> None, seen |-> NoJob, phase |-> ""]
WorkerState == [pc : {"idle", "getJob", "getPod"} \cup Calls,
                key : Jobs \cup {None},
                seen : JobObject,
                phase : Phases \cup {""}]

Init ==
    /\ job = [j \in Jobs |-> NoJob]
    /\ pod = [p \in Pods |-> NoPod]
    /\ incarnation = [j \in Jobs |-> 0]
    /\ up = TRUE
    /\ jobCache = job
    /\ podCache = pod
    /\ jobEvents = [j \in Jobs |-> <<>>]
    /\ podEvents = [p \in Pods |-> <<>>]
    /\ waiting = {}
    /\ dirty = {}
    /\ queue = [k \in Kinds |-> <<>>]
    /\ worker = [k \in Kinds |-> Idle]
    /\ late = {}
    /\ budget = [crashes |-> MaxCrashes,
                 failures |-> MaxCallFailures,
                 deletions |-> MaxPodDeletions,
                 edits |-> MaxEdits]

----------------------------------------------------------------------------
(* The rest of the cluster *)

(* A user submits a job, possibly under the name of one that was deleted. *)
SubmitJob(j) ==
    /\ ~IsLive(j)
    /\ incarnation[j] < MaxIncarnations
    /\ incarnation' = [incarnation EXCEPT ![j] = @ + 1]
    /\ \E spec \in SpecsOf[j] : StoreJob(j, NewJob(incarnation[j] + 1, spec))
    /\ UNCHANGED <<pod, podEvents, up, jobCache, podCache, queueVars, worker,
                   late, budget>>

(* A user changes what a job asks for, its status stays. *)
EditJob(j) ==
    /\ IsLive(j)
    /\ budget.edits > 0
    /\ budget' = [budget EXCEPT !.edits = @ - 1]
    /\ \E spec \in SpecsOf[j] :
         /\ spec # job[j].spec
         /\ StoreJob(j, [job[j] EXCEPT !.spec = spec, !.ver = @ + 1])
    /\ UNCHANGED <<pod, podEvents, incarnation, up, jobCache, podCache,
                   queueVars, worker, late>>

(* A user deletes a job; its pod is left to the garbage collector. *)
DeleteJob(j) ==
    /\ IsLive(j)
    /\ StoreJob(j, NoJob)
    /\ UNCHANGED <<pod, podEvents, incarnation, up, jobCache, podCache,
                   queueVars, worker, late, budget>>

(* A user or an eviction deletes a pod. *)
DeletePod(p) ==
    /\ Exists(p)
    /\ budget.deletions > 0
    /\ budget' = [budget EXCEPT !.deletions = @ - 1]
    /\ StorePod(p, NoPod)
    /\ UNCHANGED <<job, jobEvents, incarnation, up, jobCache, podCache,
                   queueVars, worker, late>>

(* The garbage collector removes a pod whose owner, told by uid, is gone. *)
CollectPod(p) ==
    /\ Exists(p)
    /\ job[pod[p].owner].uid # pod[p].uid
    /\ Len(podEvents[p]) < MaxLag
    /\ StorePod(p, NoPod)
    /\ UNCHANGED <<job, jobEvents, incarnation, up, jobCache, podCache,
                   queueVars, worker, late, budget>>

(* The virtual kubelet reports progress of the pod: phases only move on. *)
RunPod(p) ==
    /\ Exists(p)
    /\ \E phase \in Phases :
         /\ Rank(phase) > Rank(pod[p].phase)
         /\ StorePod(p, [pod[p] EXCEPT !.phase = phase])
    /\ UNCHANGED <<job, jobEvents, incarnation, up, jobCache, podCache,
                   queueVars, worker, late, budget>>

----------------------------------------------------------------------------
(* Informers: an event updates the cache and notifies the controllers. *)

DeliverJob(j) ==
    /\ jobEvents[j] # <<>>
    /\ jobCache' = [jobCache EXCEPT ![j] = Head(jobEvents[j])]
    /\ jobEvents' = [jobEvents EXCEPT ![j] = Tail(@)]
    /\ waiting' = waiting \cup {j}
    /\ UNCHANGED <<apiVars, up, podCache, podEvents, dirty, queue, worker,
                   late, budget>>

(* Keys of the controllers of a pod: found by name, never by uid. *)
OwnersUnwatched(state) == {}              \* faulty: pods are not watched
OwnersUnfiltered(state) == {state.owner}  \* faulty: pods nobody controls
Owners(state) == {state.owner} \cap Jobs

(* Both the old and the new owner are notified. *)
DeliverPod(p) ==
    /\ podEvents[p] # <<>>
    /\ podCache' = [podCache EXCEPT ![p] = Head(podEvents[p])]
    /\ podEvents' = [podEvents EXCEPT ![p] = Tail(@)]
    /\ waiting' = waiting \cup Owners(podCache[p])
                          \cup Owners(Head(podEvents[p]))
    /\ UNCHANGED <<apiVars, up, jobCache, jobEvents, dirty, queue, worker,
                   late, budget>>

(* The periodic resync notifies the controller of an unchanged object. *)
Resync(j) ==
    /\ up
    /\ jobCache[j] # NoJob
    /\ waiting' = waiting \cup {j}
    /\ UNCHANGED <<apiVars, up, cacheVars, dirty, queue, worker, late, budget>>

----------------------------------------------------------------------------
(* The work queue: a key is processed by at most one worker at a time, and *)
(* one that is added meanwhile is queued again when that worker is done.   *)

IsProcessing(j) == worker[KindOf[j]].key = j

IsNewToQueueByDirtyOnly(j) == j \notin dirty  \* faulty: processed twice at once
IsNewToQueue(j) == j \notin dirty /\ ~IsProcessing(j)

AddToQueue(j) ==
    /\ j \in waiting
    /\ waiting' = waiting \ {j}
    /\ dirty' = dirty \cup {j}
    /\ queue' = IF IsNewToQueue(j)
                THEN [queue EXCEPT ![KindOf[j]] = Append(@, j)]
                ELSE queue
    /\ UNCHANGED <<apiVars, up, cacheVars, worker, late, budget>>

GetRequest(k) ==
    /\ worker[k].pc = "idle"
    /\ queue[k] # <<>>
    /\ worker' = [worker EXCEPT ![k] = [Idle EXCEPT !.pc = "getJob",
                                                    !.key = Head(queue[k])]]
    /\ queue' = [queue EXCEPT ![k] = Tail(@)]
    /\ dirty' = dirty \ {Head(queue[k])}
    /\ UNCHANGED <<apiVars, up, cacheVars, waiting, late, budget>>

BecameDirtyNever(k) == FALSE  \* faulty: what came in meanwhile is dropped
BecameDirty(k) == worker[k].key \in dirty

(* Done: the worker is free, its key is queued again if it became dirty. *)
Release(k) ==
    /\ worker' = [worker EXCEPT ![k] = Idle]
    /\ queue' = IF BecameDirty(k)
                THEN [queue EXCEPT ![k] = Append(@, worker[k].key)]
                ELSE queue
    /\ UNCHANGED dirty

(* Reconcile returned no error. *)
Finish(k) == Release(k) /\ UNCHANGED waiting

FailInPlace(k) ==              \* faulty: the worker retries, and keeps the key
    /\ worker' = [worker EXCEPT ![k] = [Idle EXCEPT !.pc = "getJob",
                                                    !.key = worker[k].key]]
    /\ UNCHANGED queueVars

(* Reconcile returned an error: the key comes back after its back-off. *)
Fail(k) == Release(k) /\ waiting' = waiting \cup {worker[k].key}

----------------------------------------------------------------------------
(* Reconcile *)

(* newPodForSJ: only a script that requests resources gets past the test   *)
(* of the affinity error; a dangling parameter indexes out of range.       *)
NewPodForSJ(spec) == CASE spec = "resources" -> "pod"
                       [] spec = "dangling" -> "panic"
                       [] OTHER -> "error"

(* newPodForWJ: "affinity is not required" is not an error. *)
NewPodForWJ(spec) == IF spec \in {"resources", "none"} THEN "pod" ELSE "error"

Translate(j, object) == IF KindOf[j] = "SlurmJob" THEN NewPodForSJ(object.spec)
                                                  ELSE NewPodForWJ(object.spec)

(* The process dies; calls on the wire may still reach the API server. *)
Die ==
    /\ up' = FALSE
    /\ jobCache' = [j \in Jobs |-> NoJob]
    /\ podCache' = [p \in Pods |-> NoPod]
    /\ jobEvents' = [j \in Jobs |-> <<>>]
    /\ podEvents' = [p \in Pods |-> <<>>]
    /\ waiting' = {}
    /\ dirty' = {}
    /\ queue' = [k \in Kinds |-> <<>>]
    /\ worker' = [k \in Kinds |-> Idle]
    /\ late' = late \cup {worker[k] : k \in {c \in Kinds : worker[c].pc \in Calls}}

GetJobGone(k) ==
    /\ worker[k].pc = "getJob"
    /\ jobCache[worker[k].key] = NoJob
    /\ Finish(k)
    /\ UNCHANGED <<apiVars, up, cacheVars, late, budget>>

GetJobRefused(k) ==
    /\ worker[k].pc = "getJob"
    /\ jobCache[worker[k].key] # NoJob
    /\ Translate(worker[k].key, jobCache[worker[k].key]) = "error"
    /\ Fail(k)
    /\ UNCHANGED <<apiVars, up, cacheVars, late, budget>>

GetJobPanics(k) ==
    /\ worker[k].pc = "getJob"
    /\ jobCache[worker[k].key] # NoJob
    /\ Translate(worker[k].key, jobCache[worker[k].key]) = "panic"
    /\ Die
    /\ UNCHANGED <<apiVars, budget>>

GetJob(k) ==
    /\ worker[k].pc = "getJob"
    /\ jobCache[worker[k].key] # NoJob
    /\ Translate(worker[k].key, jobCache[worker[k].key]) = "pod"
    /\ worker' = [worker EXCEPT ![k].pc = "getPod",
                                ![k].seen = jobCache[worker[k].key]]
    /\ UNCHANGED <<apiVars, up, cacheVars, queueVars, late, budget>>

(* The pod is not in the cache, and the job already has a status. *)
GetPodGone(k) ==
    /\ worker[k].pc = "getPod"
    /\ podCache[PodOf[worker[k].key]] = NoPod
    /\ worker[k].seen.status # ""
    /\ Finish(k)
    /\ UNCHANGED <<apiVars, up, cacheVars, late, budget>>

(* The pod is not in the cache, and the job has no status: create it. *)
GetPodMissing(k) ==
    /\ worker[k].pc = "getPod"
    /\ podCache[PodOf[worker[k].key]] = NoPod
    /\ worker[k].seen.status = ""
    /\ worker' = [worker EXCEPT ![k].pc = "create"]
    /\ UNCHANGED <<apiVars, up, cacheVars, queueVars, late, budget>>

(* The status to report: the phase of the pod that was found. *)
StatusToReportEarly(state) ==  \* faulty: a pod that was made is said to run
    IF state.phase = "Pending" THEN "Running" ELSE state.phase
StatusToReport(state) == state.phase

GetPod(k) ==
    /\ worker[k].pc = "getPod"
    /\ podCache[PodOf[worker[k].key]] # NoPod
    /\ worker' = [worker EXCEPT
                     ![k].pc = "update",
                     ![k].phase = StatusToReport(podCache[PodOf[worker[k].key]])]
    /\ UNCHANGED <<apiVars, up, cacheVars, queueVars, late, budget>>

----------------------------------------------------------------------------
(* The API server's part of a call "c", which is the record of a worker. *)

(* Create: the name must be free.  Nobody checks that the owner is alive. *)
CreateAccepted(c) == ~Exists(PodOf[c.key])

ApplyCreate(c) ==
    /\ StorePod(PodOf[c.key], NewPod(c.key, c.seen.uid))
    /\ UNCHANGED <<job, jobEvents, incarnation>>

(* The object that is sent back is the one that was read, at its version. *)
SentVersionAny(c) == job[c.key].ver  \* faulty: a patch, the last writer wins
SentVersion(c) == c.seen.ver

(* Update of the status: the object must be the version that was read. *)
UpdateAccepted(c) == /\ job[c.key].uid = c.seen.uid
                     /\ job[c.key].ver = SentVersion(c)

(* An update that changes nothing makes no new version and no event. *)
ApplyUpdate(c) ==
    /\ IF job[c.key].status = c.phase
       THEN UNCHANGED <<job, jobEvents>>
       ELSE StoreJob(c.key, [job[c.key] EXCEPT !.status = c.phase, !.ver = @ + 1])
    /\ UNCHANGED <<pod, podEvents, incarnation>>

Accepted(c) == IF c.pc = "create" THEN CreateAccepted(c) ELSE UpdateAccepted(c)
Apply(c) == IF c.pc = "create" THEN ApplyCreate(c) ELSE ApplyUpdate(c)

CreatePod(k) ==
    /\ worker[k].pc = "create"
    /\ CreateAccepted(worker[k])
    /\ ApplyCreate(worker[k])
    /\ Finish(k)
    /\ UNCHANGED <<up, jobCache, podCache, late, budget>>

UpdateStatus(k) ==
    /\ worker[k].pc = "update"
    /\ UpdateAccepted(worker[k])
    /\ ApplyUpdate(worker[k])
    /\ Finish(k)
    /\ UNCHANGED <<up, jobCache, podCache, late, budget>>

(* AlreadyExists, Conflict or NotFound. *)
CallRejected(k) ==
    /\ worker[k].pc \in Calls
    /\ ~Accepted(worker[k])
    /\ Fail(k)
    /\ UNCHANGED <<apiVars, up, cacheVars, late, budget>>

(* The connection breaks: an error for the worker, but the call may have   *)
(* reached the API server, or may do so later.                             *)
CallFails(k) ==
    /\ worker[k].pc \in Calls
    /\ budget.failures > 0
    /\ budget' = [budget EXCEPT !.failures = @ - 1]
    /\ late' = late \cup {worker[k]}
    /\ Fail(k)
    /\ UNCHANGED <<apiVars, up, cacheVars>>

LateCallTakesEffect(c) ==
    /\ c \in late
    /\ Accepted(c)
    /\ Apply(c)
    /\ late' = late \ {c}
    /\ UNCHANGED <<up, jobCache, podCache, queueVars, worker, budget>>

LateCallIsLost(c) ==
    /\ c \in late
    /\ late' = late \ {c}
    /\ UNCHANGED <<apiVars, up, cacheVars, queueVars, worker, budget>>

----------------------------------------------------------------------------
(* The process *)

Crash ==
    /\ up
    /\ budget.crashes > 0
    /\ budget' = [budget EXCEPT !.crashes = @ - 1]
    /\ Die
    /\ UNCHANGED apiVars

(* Each object the new process lists is an Add event for its controller. *)
NotifiedOfPodsOnly == UNION {Owners(pod[p]) : p \in Pods}  \* faulty
Notified == {j \in Jobs : IsLive(j)} \cup UNION {Owners(pod[p]) : p \in Pods}

(* The new process lists everything before its workers start. *)
Restart ==
    /\ ~up
    /\ up' = TRUE
    /\ jobCache' = job
    /\ podCache' = pod
    /\ jobEvents' = [j \in Jobs |-> <<>>]
    /\ podEvents' = [p \in Pods |-> <<>>]
    /\ waiting' = Notified
    /\ UNCHANGED <<apiVars, dirty, queue, worker, late, budget>>

----------------------------------------------------------------------------
Cluster == \/ \E j \in Jobs : SubmitJob(j) \/ EditJob(j) \/ DeleteJob(j)
           \/ \E p \in Pods : DeletePod(p) \/ CollectPod(p) \/ RunPod(p)

Informer == \/ \E j \in Jobs : DeliverJob(j) \/ Resync(j)
            \/ \E p \in Pods : DeliverPod(p)

Reconcile(k) == \/ GetJobGone(k) \/ GetJobRefused(k) \/ GetJobPanics(k)
                \/ GetJob(k)
                \/ GetPodGone(k) \/ GetPodMissing(k) \/ GetPod(k)
                \/ CreatePod(k) \/ UpdateStatus(k)
                \/ CallRejected(k)

Next == \/ Cluster
        \/ Informer
        \/ \E j \in Jobs : AddToQueue(j)
        \/ \E k \in Kinds : GetRequest(k) \/ Reconcile(k) \/ CallFails(k)
        \/ \E c \in late : LateCallTakesEffect(c) \/ LateCallIsLost(c)
        \/ Crash
        \/ Restart

Spec == Init /\ [][Next]_vars

(***************************************************************************)
(* Fairness: the goroutines of the operator are scheduled, a watch         *)
(* delivers, a back-off ends, a crashed container is started again, and    *)
(* the garbage collector and the virtual kubelet do their work.  Users,    *)
(* resyncs, crashes and network failures are never owed.                   *)
(***************************************************************************)
FairSpec ==
    /\ Spec
    /\ \A j \in Jobs : WF_vars(DeliverJob(j)) /\ WF_vars(AddToQueue(j))
    /\ \A p \in Pods : /\ WF_vars(DeliverPod(p))
                       /\ WF_vars(CollectPod(p))
                       /\ WF_vars(RunPod(p))
    /\ \A k \in Kinds : WF_vars(GetRequest(k)) /\ WF_vars(Reconcile(k))
    /\ WF_vars(Restart)

----------------------------------------------------------------------------
(* Properties *)

(* Every variable holds the kind of value the code keeps there. *)
TypeOK ==
    /\ job \in [Jobs -> JobObject]
    /\ pod \in [Pods -> PodObject]
    /\ incarnation \in [Jobs -> Nat]
    /\ up \in BOOLEAN
    /\ jobCache \in [Jobs -> JobObject]
    /\ podCache \in [Pods -> PodObject]
    /\ jobEvents \in [Jobs -> Seq(JobObject)]
    /\ podEvents \in [Pods -> Seq(PodObject)]
    /\ waiting \subseteq Jobs
    /\ dirty \subseteq Jobs
    /\ queue \in [Kinds -> Seq(Jobs)]
    /\ worker \in [Kinds -> WorkerState]
    /\ late \subseteq WorkerState
    /\ budget \in [crashes : Nat, failures : Nat, deletions : Nat, edits : Nat]

Range(s) == {s[i] : i \in DOMAIN s}

(* The work queue holds exactly the dirty keys that nobody processes, each *)
(* once: a key is never lost in it and never handed to two workers.        *)
QueueIntegrity ==
    \A k \in Kinds :
      /\ Range(queue[k]) = {j \in dirty : KindOf[j] = k /\ ~IsProcessing(j)}
      /\ \A a, b \in DOMAIN queue[k] : queue[k][a] = queue[k][b] => a = b

(* Jobs are translated to different pod names. *)
DistinctPodNames == \A i, j \in Jobs : PodOf[i] = PodOf[j] => i = j

(* Something will still make the operator look at the job. *)
Outstanding(j) == \/ j \in waiting \cup dirty
                  \/ IsProcessing(j)
                  \/ jobEvents[j] # <<>>
                  \/ podEvents[PodOf[j]] # <<>>

(* There is nothing left to do for the job. *)
Settled(j) == IF Exists(PodOf[j])
              THEN job[j].status = pod[PodOf[j]].phase
              ELSE job[j].status # ""

(* The operator never goes to sleep on a job whose pod is missing or whose *)
(* status is behind its pod, whatever it read, lost or raced with before.  *)
NeverForgotten ==
    DistinctPodNames /\ up =>
      \A j \in Jobs : IsLive(j) /\ ~Outstanding(j) => Settled(j)

(* The status of a job never runs ahead of its pod, and a status that says *)
(* the job is over says how it really ended.                               *)
StatusBehindPod ==
    \A j \in Jobs : LET phase == pod[PodOf[j]].phase IN
      IsLive(j) => \/ Rank(job[j].status) < Rank(phase)
                   \/ job[j].status = phase

(* The status of a job never goes back, even when a call of a dead process *)
(* reaches the API server after the calls of its successor.                *)
StatusNeverRegresses ==
    [][\A j \in Jobs : job'[j].uid = job[j].uid
                          => Rank(job[j].status) <= Rank(job'[j].status)]_vars

IsTranslated(j) == Translate(j, job[j]) = "pod"

(* Every job the operator can translate to a pod gets a status, whatever    *)
(* becomes of the others.                                                  *)
EveryTranslatedJobIsReported ==
    \A j \in Jobs : (IsLive(j) /\ IsTranslated(j))
        ~> (job[j].status # "" \/ ~IsLive(j) \/ ~IsTranslated(j))

(* In the end the status of every job that can be translated is the phase  *)
(* of its pod, or its last one.                                            *)
StatusConverges ==
    \A j \in Jobs : <>[](IsLive(j) /\ IsTranslated(j) => Settled(j))
=============================================================================
