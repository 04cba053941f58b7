------------------------ MODULE JobRefinementProofs ------------------------
(***************************************************************************)
(* The operator implements the safety part of JobLifecycle, for all jobs,  *)
(* pods, crashes, broken calls and edits, as long as each job has a pod    *)
(* name of its own, is submitted once and nobody deletes its pod.          *)
(***************************************************************************)
EXTENDS JobReconcilerProofs, JobRefinement

OneLife == DistinctPodNames /\ MaxIncarnations <= 1 /\ MaxPodDeletions = 0

(***************************************************************************)
(* What is known anywhere of a job is of its one life, and no newer than   *)
(* its object; what is known of a pod is of one made for a job that was    *)
(* submitted.                                                              *)
(***************************************************************************)
HasStarted(j) == incarnation[j] = 1

JobState(j, state) ==
    state # NoJob => /\ state.uid = 1 /\ HasStarted(j)
                     /\ IsLive(j) => state.ver <= job[j].ver

PodState(state) == state # NoPod => state.uid = 1 /\ HasStarted(state.owner)

JobStates(j) == {jobCache[j]} \cup Range(jobEvents[j])
PodStates(p) == {podCache[p]} \cup Range(podEvents[p])

(* A worker that has read its job, and a call on the wire. *)
Knows(c) ==
    c.pc \in {"getPod"} \cup Calls =>
        /\ c.seen.uid = 1 /\ HasStarted(c.key)
        /\ IsLive(c.key) => c.seen.ver <= job[c.key].ver
        /\ c.pc = "update" => c.phase # ""

LifeInv ==
    /\ budget.deletions = 0
    /\ \A j \in Jobs : /\ incarnation[j] <= 1 /\ JobState(j, job[j])
                       /\ \A state \in JobStates(j) : JobState(j, state)
    /\ \A p \in Pods : /\ PodState(pod[p])
                       /\ \A state \in PodStates(p) : PodState(state)
                       /\ ~up => podCache[p] = NoPod /\ podEvents[p] = <<>>
    /\ \A k \in Kinds : Knows(worker[k])
    /\ \A c \in late : Knows(c)

(***************************************************************************)
(* The phases of a pod rise along its cache, its unseen events and the     *)
(* object itself, and the status of its job, and every status that is on   *)
(* its way there, is one that the cache has already passed.                *)
(***************************************************************************)
Reaches(p, q) == p = q \/ Rank(p) < Rank(q)

(* What the process knows of a pod, or the next one will.                  *)
Known(p) == IF up THEN podCache[p] ELSE pod[p]

PhaseSeen(p, i) == Seen(podCache[p], podEvents[p], i).phase
Rises(p) == \A i, m \in 0..Len(podEvents[p]) :
                i <= m => Reaches(PhaseSeen(p, i), PhaseSeen(p, m))

(* A call to update may be late, but then it is refused or moves on.       *)
Lags(c) ==
    c.pc = "update" =>
        /\ Reaches(c.phase, Known(PodOf[c.key]).phase)
        /\ c.seen.ver = job[c.key].ver => Reaches(job[c.key].status, c.phase)

OrderOf(j) ==
    IsLive(j) => /\ up => Rises(PodOf[j])
                 /\ Reaches(job[j].status, Known(PodOf[j]).phase)
                 /\ \A k \in Kinds : worker[k].key = j => Lags(worker[k])
                 /\ \A c \in late : c.key = j => Lags(c)

OrderInv == \A j \in Jobs : OrderOf(j)

RefinementInv == AttentionInv /\ LifeInv /\ OrderInv

----------------------------------------------------------------------------
(* Phases *)

LEMMA RankRange == \A p : Rank(p) \in 0..3
  BY DEF Rank

LEMMA RankValues ==
    /\ \A p : p = "" => Rank(p) = 0
    /\ \A p \in Phases : 0 < Rank(p)
<1>1. ASSUME NEW p, p = "" PROVE Rank(p) = 0
  BY <1>1, Zenon DEF Rank
<1>2. ASSUME NEW p, p = "Pending" PROVE Rank(p) = 1
  BY <1>2, Zenon DEF Rank
<1>3. ASSUME NEW p, p = "Running" PROVE Rank(p) = 2
  BY <1>3, Zenon DEF Rank
<1>4. ASSUME NEW p, p = "Succeeded" \/ p = "Failed" PROVE Rank(p) = 3
  BY <1>4, Zenon DEF Rank
<1>5. \A p \in Phases : 0 < Rank(p)
  BY <1>2, <1>3, <1>4 DEF Phases
<1>6. QED
  BY <1>1, <1>5, Zenon

LEMMA ReachesOrder ==
    /\ \A p : Reaches(p, p)
    /\ \A p, q, r : Reaches(p, q) /\ Reaches(q, r) => Reaches(p, r)
    /\ \A p, q : Reaches(p, q) => Rank(p) <= Rank(q)
    /\ \A p, q : p = "" /\ q \in Phases \cup {""} => Reaches(p, q)
<1>1. \A p : Rank(p) \in 0..3
  BY RankRange
<1>2. \A p, q, r : Reaches(p, q) /\ Reaches(q, r) => Reaches(p, r)
  BY <1>1 DEF Reaches
<1>3. \A p, q : Reaches(p, q) => Rank(p) <= Rank(q)
  BY <1>1 DEF Reaches
<1>4. \A p, q : p = "" /\ q \in Phases \cup {""} => Reaches(p, q)
  <2>1. ASSUME NEW p, p = "", NEW q \in Phases PROVE Reaches(p, q)
    <3>1. Rank(p) = 0 /\ 0 < Rank(q)
      BY <2>1, RankValues, Zenon
    <3>2. QED
      BY <3>1, Zenon DEF Reaches
  <2>2. QED
    BY <2>1, Zenon DEF Reaches
<1>5. QED
  BY <1>2, <1>3, <1>4, Zenon DEF Reaches

----------------------------------------------------------------------------
(* The shapes of a step *)

(* A call that is applied is one of a worker or a late one.                *)
IsActing(c) == /\ c \in late \/ \E k \in Kinds : c = worker[k]
               /\ c \in WorkerState /\ c.key \in Jobs /\ c.pc \in Calls

Takes(c) == /\ IsActing(c) /\ Accepted(c) /\ Apply(c)
            /\ UNCHANGED <<up, jobCache, podCache, budget>>

Dies == Die /\ UNCHANGED apiVars /\ budget'.deletions = budget.deletions

(* Nothing happens to the objects and to what is known of them.            *)
Rests == UNCHANGED <<apiVars, up, cacheVars>> /\ budget'.deletions = budget.deletions

LEMMA DeletionsKept ==
    ASSUME TypeInv, NEW n,
           \/ budget' = [budget EXCEPT !.crashes = n]
           \/ budget' = [budget EXCEPT !.failures = n]
           \/ budget' = [budget EXCEPT !.edits = n]
    PROVE  budget'.deletions = budget.deletions
<1>1. budget \in [crashes : Nat, failures : Nat, deletions : Nat, edits : Nat]
  BY DEF TypeInv, TypeOK
<1>2. QED
  BY <1>1

LEMMA ReconcileShape ==
    ASSUME TypeInv, NEW k \in Kinds, Reconcile(k) \/ CallFails(k)
    PROVE  Rests \/ Dies \/ \E c : Takes(c)
<1>1. CASE \/ GetJobGone(k) \/ GetJobRefused(k) \/ GetJob(k) \/ GetPodGone(k)
           \/ GetPodMissing(k) \/ GetPod(k) \/ CallRejected(k)
  BY <1>1 DEF Rests, GetJobGone, GetJobRefused, GetJob, GetPodGone, GetPodMissing,
              GetPod, CallRejected
<1>2. CASE CallFails(k)
  BY <1>2, DeletionsKept DEF Rests, CallFails
<1>3. CASE GetJobPanics(k)
  BY <1>3 DEF GetJobPanics, Dies
<1>4. CASE CreatePod(k) \/ UpdateStatus(k)
  <2>1. /\ worker[k] \in WorkerState /\ worker[k].pc \in Calls
        /\ UNCHANGED <<up, jobCache, podCache, budget>>
    BY <1>4 DEF CreatePod, UpdateStatus, Calls, TypeInv, TypeOK
  <2>2. worker[k].key \in Jobs
    BY <2>1 DEF TypeInv, KeysOK, WorkerKeys, Calls
  <2>3. Accepted(worker[k]) /\ Apply(worker[k])
    BY <1>4 DEF CreatePod, UpdateStatus, Accepted, Apply
  <2>4. QED
    BY <2>1, <2>2, <2>3 DEF Takes, IsActing
<1>5. QED
  BY <1>1, <1>2, <1>3, <1>4 DEF Reconcile

LEMMA StepShape ==
    ASSUME TypeInv, [Next]_vars
    PROVE  Cluster \/ Rests \/ Dies \/ Restart \/ (\E c : Takes(c))
           \/ (\E j \in Jobs : DeliverJob(j)) \/ (\E p \in Pods : DeliverPod(p))
<1>1. CASE Informer
  <2>1. ASSUME NEW j \in Jobs, Resync(j) PROVE Rests
    BY <2>1 DEF Rests, Resync
  <2>2. QED
    BY <1>1, <2>1 DEF Informer
<1>2. ASSUME NEW j \in Jobs, AddToQueue(j) PROVE Rests
  BY <1>2 DEF AddToQueue, Rests
<1>3. ASSUME NEW k \in Kinds, GetRequest(k) \/ Reconcile(k) \/ CallFails(k)
      PROVE  Rests \/ Dies \/ \E c : Takes(c)
  <2>1. CASE GetRequest(k)
    BY <2>1 DEF GetRequest, Rests
  <2>2. QED
    BY <1>3, <2>1, ReconcileShape
<1>4. ASSUME NEW c \in late, LateCallTakesEffect(c) \/ LateCallIsLost(c)
      PROVE  Rests \/ Takes(c)
  <2>1. CASE LateCallIsLost(c)
    BY <2>1 DEF LateCallIsLost, Rests
  <2>2. CASE LateCallTakesEffect(c)
    <3>1. c \in WorkerState /\ c.key \in Jobs /\ c.pc \in Calls
      BY DEF TypeInv, TypeOK, KeysOK, LateKeys
    <3>2. QED
      BY <2>2, <3>1 DEF LateCallTakesEffect, Takes, IsActing
  <2>3. QED
    BY <1>4, <2>1, <2>2
<1>5. CASE Crash
  BY <1>5, DeletionsKept DEF Crash, Dies
<1>6. CASE UNCHANGED vars
  BY <1>6 DEF vars, Rests
<1>7. QED
  BY <1>1, <1>2, <1>3, <1>4, <1>5, <1>6 DEF Next

----------------------------------------------------------------------------
(* What is known after a step was known before it, or is the state now.    *)

LEMMA AppendRange ==
    ASSUME NEW S, NEW events \in Seq(S), NEW state \in S
    PROVE  Range(Append(events, state)) = Range(events) \cup {state}
<1> DEFINE new == Append(events, state)
<1>1. /\ DOMAIN new = 1..Len(events)+1 /\ DOMAIN events = 1..Len(events)
      /\ Len(events) \in Nat
      /\ new[Len(events)+1] = state
      /\ \A i \in 1..Len(events) : new[i] = events[i]
  OBVIOUS
<1> HIDE DEF new
<1>2. DOMAIN new = (DOMAIN events) \cup {Len(events)+1}
  BY <1>1
<1>3. Range(new) = Range(events) \cup {state}
  BY <1>1, <1>2 DEF Range
<1>4. QED
  BY <1>3 DEF new

LEMMA TailRange ==
    ASSUME NEW S, NEW events \in Seq(S), events # <<>>
    PROVE  Head(events) \in Range(events) /\ Range(Tail(events)) \subseteq Range(events)
<1>1. /\ DOMAIN Tail(events) = 1..Len(events)-1 /\ DOMAIN events = 1..Len(events)
      /\ Len(events) \in Nat \ {0}
      /\ Head(events) = events[1]
      /\ \A i \in 1..Len(events)-1 : Tail(events)[i] = events[i+1]
  OBVIOUS
<1>2. 1 \in 1..Len(events) /\ \A i \in 1..Len(events)-1 : i+1 \in 1..Len(events)
  BY <1>1
<1>3. QED
  BY <1>1, <1>2 DEF Range

LEMMA EmptyRange == Range(<<>>) = {}
  BY DEF Range

LEMMA SeenRange ==
    ASSUME NEW S, NEW cached, NEW events \in Seq(S), NEW i \in 0..Len(events)
    PROVE  Seen(cached, events, i) \in {cached} \cup Range(events)
  BY DEF Seen, Range

StatesKept ==
    /\ \A j \in Jobs : JobStates(j)' \subseteq JobStates(j) \cup {job[j], job'[j], NoJob}
    /\ \A p \in Pods : PodStates(p)' \subseteq PodStates(p) \cup {pod[p], pod'[p], NoPod}

LEMMA JobStoredStates ==
    ASSUME TypeInv, NEW j \in Jobs, NEW state \in JobObject, StoreJob(j, state),
           UNCHANGED <<pod, podEvents, jobCache, podCache>>
    PROVE  StatesKept
<1>1. /\ job'[j] = state
      /\ jobEvents'[j] \in {jobEvents[j], Append(jobEvents[j], state)}
      /\ jobEvents[j] \in Seq(JobObject)
      /\ \A i \in Jobs : i # j => jobEvents'[i] = jobEvents[i]
  BY DEF StoreJob, Notify, TypeInv, TypeOK
<1>2. Range(jobEvents'[j]) \subseteq Range(jobEvents[j]) \cup {state}
  <2>1. Range(Append(jobEvents[j], state)) = Range(jobEvents[j]) \cup {state}
    BY <1>1, AppendRange
  <2>2. QED
    BY <1>1, <2>1
<1>3. QED
  BY <1>1, <1>2 DEF StatesKept, JobStates, PodStates

LEMMA PodStoredStates ==
    ASSUME TypeInv, NEW p \in Pods, NEW state \in PodObject, StorePod(p, state),
           UNCHANGED <<job, jobEvents, jobCache, podCache>>
    PROVE  StatesKept
<1>1. /\ pod'[p] = state
      /\ podEvents'[p] \in {podEvents[p], Append(podEvents[p], state)}
      /\ podEvents[p] \in Seq(PodObject)
      /\ \A q \in Pods : q # p => podEvents'[q] = podEvents[q]
  BY DEF StorePod, Notify, TypeInv, TypeOK
<1>2. Range(podEvents'[p]) \subseteq Range(podEvents[p]) \cup {state}
  <2>1. Range(Append(podEvents[p], state)) = Range(podEvents[p]) \cup {state}
    BY <1>1, AppendRange
  <2>2. QED
    BY <1>1, <2>1
<1>3. QED
  BY <1>1, <1>2 DEF StatesKept, JobStates, PodStates

(* Objects change with their events, nothing else of the caches does.      *)
LEMMA StatesStep ==
    ASSUME TypeInv, [Next]_vars
    PROVE  StatesKept
<1>1. ASSUME NEW j \in Jobs, SubmitJob(j) \/ EditJob(j) \/ DeleteJob(j)
      PROVE  StatesKept
  <2>1. UNCHANGED <<pod, podEvents, jobCache, podCache>>
    BY <1>1 DEF SubmitJob, EditJob, DeleteJob
  <2>2. PICK state \in JobObject : StoreJob(j, state)
    <3>1. CASE SubmitJob(j)
      <4>1. PICK spec \in SpecsOf[j] : StoreJob(j, NewJob(incarnation[j] + 1, spec))
        BY <3>1 DEF SubmitJob
      <4>2. spec \in Specs /\ incarnation[j] + 1 \in Nat
        BY ConstantsAssumption DEF TypeInv, TypeOK
      <4>3. QED
        BY <4>1, <4>2, ObjectTypes
    <3>2. CASE EditJob(j)
      BY <3>2, EditedType DEF EditJob, TypeInv
    <3>3. CASE DeleteJob(j)
      BY <3>3, ObjectTypes DEF DeleteJob
    <3>4. QED
      BY <1>1, <3>1, <3>2, <3>3
  <2>3. QED
    BY <2>1, <2>2, JobStoredStates
<1>2. ASSUME NEW p \in Pods, DeletePod(p) \/ CollectPod(p) \/ RunPod(p)
      PROVE  StatesKept
  <2>1. UNCHANGED <<job, jobEvents, jobCache, podCache>>
    BY <1>2 DEF DeletePod, CollectPod, RunPod
  <2>2. PICK state \in PodObject : StorePod(p, state)
    <3>1. CASE DeletePod(p) \/ CollectPod(p)
      BY <3>1, ObjectTypes DEF DeletePod, CollectPod
    <3>2. CASE RunPod(p)
      BY <3>2 DEF RunPod, TypeInv, TypeOK, PodObject
    <3>3. QED
      BY <1>2, <3>1, <3>2
  <2>3. QED
    BY <2>1, <2>2, PodStoredStates
<1>3. CASE Rests
  BY <1>3 DEF Rests, StatesKept, JobStates, PodStates, apiVars, cacheVars
<1>4. CASE Dies
  BY <1>4, EmptyRange DEF Dies, Die, StatesKept, JobStates, PodStates
<1>5. CASE Restart
  BY <1>5, EmptyRange DEF Restart, StatesKept, JobStates, PodStates
<1>6. ASSUME NEW c, Takes(c) PROVE StatesKept
  <2>1. c \in WorkerState /\ c.key \in Jobs /\ UNCHANGED <<jobCache, podCache>>
    BY <1>6 DEF Takes, IsActing
  <2>2. CASE ApplyCreate(c)
    <3>1. NewPod(c.key, c.seen.uid) \in PodObject /\ PodOf[c.key] \in Pods
      BY <2>1, ObjectTypes, ConstantsAssumption DEF WorkerState, JobObject
    <3>2. QED
      BY <2>1, <2>2, <3>1, PodStoredStates DEF ApplyCreate
  <2>3. CASE ApplyUpdate(c)
    <3> DEFINE state == [job[c.key] EXCEPT !.status = c.phase, !.ver = @ + 1]
    <3>1. state \in JobObject
      <4>1. job[c.key] \in JobObject /\ c.phase \in Phases \cup {""}
        BY <2>1 DEF TypeInv, TypeOK, WorkerState
      <4>2. job[c.key].ver \in Nat
        BY <4>1 DEF JobObject
      <4>3. job[c.key].ver + 1 \in Nat
        BY <4>2
      <4>4. QED
        BY <4>1, <4>3 DEF JobObject
    <3>2. \/ UNCHANGED <<job, jobEvents>>
          \/ StoreJob(c.key, state)
      BY <2>3 DEF ApplyUpdate
    <3>3. UNCHANGED <<pod, podEvents>>
      BY <2>3 DEF ApplyUpdate
    <3>4. CASE UNCHANGED <<job, jobEvents>>
      BY <2>1, <3>3, <3>4 DEF StatesKept, JobStates, PodStates
    <3>5. CASE StoreJob(c.key, state)
      BY <2>1, <3>1, <3>3, <3>5, JobStoredStates
    <3>6. QED
      BY <3>2, <3>4, <3>5
  <2>4. QED
    BY <1>6, <2>2, <2>3 DEF Takes, Apply
<1>7. ASSUME NEW j \in Jobs, DeliverJob(j) PROVE StatesKept
  <2>1. jobEvents[j] \in Seq(JobObject) /\ jobEvents[j] # <<>>
    BY <1>7 DEF DeliverJob, TypeInv, TypeOK
  <2>2. /\ jobCache'[j] = Head(jobEvents[j]) /\ jobEvents'[j] = Tail(jobEvents[j])
        /\ \A i \in Jobs : i # j => jobCache'[i] = jobCache[i] /\ jobEvents'[i] = jobEvents[i]
        /\ UNCHANGED <<podCache, podEvents>>
    BY <1>7 DEF DeliverJob, TypeInv, TypeOK
  <2>3. JobStates(j)' \subseteq JobStates(j)
    BY <2>1, <2>2, TailRange DEF JobStates
  <2>4. QED
    BY <2>2, <2>3 DEF StatesKept, JobStates, PodStates
<1>8. ASSUME NEW p \in Pods, DeliverPod(p) PROVE StatesKept
  <2>1. podEvents[p] \in Seq(PodObject) /\ podEvents[p] # <<>>
    BY <1>8 DEF DeliverPod, TypeInv, TypeOK
  <2>2. /\ podCache'[p] = Head(podEvents[p]) /\ podEvents'[p] = Tail(podEvents[p])
        /\ \A q \in Pods : q # p => podCache'[q] = podCache[q] /\ podEvents'[q] = podEvents[q]
        /\ UNCHANGED <<jobCache, jobEvents>>
    BY <1>8 DEF DeliverPod, TypeInv, TypeOK
  <2>3. PodStates(p)' \subseteq PodStates(p)
    BY <2>1, <2>2, TailRange DEF PodStates
  <2>4. QED
    BY <2>2, <2>3 DEF StatesKept, JobStates, PodStates
<1>9. QED
  BY <1>1, <1>2, <1>3, <1>4, <1>5, <1>6, <1>7, <1>8, StepShape DEF Cluster

----------------------------------------------------------------------------
(* One life *)

LEMMA Nothing == NoJob.uid = 0 /\ NoJob.status = "" /\ NoPod.phase = ""
  BY DEF NoJob, NoPod

(* A job that was submitted is not submitted again, and its object moves to
   newer versions until it is deleted.                                      *)
Onward ==
    \A j \in Jobs : HasStarted(j) =>
        /\ HasStarted(j)'
        /\ IsLive(j)' => /\ IsLive(j)
                         /\ job'[j] = job[j] \/ job[j].ver < job'[j].ver

ObjectsLive ==
    /\ \A j \in Jobs : incarnation[j] <= 1 /\ JobState(j, job[j])
    /\ \A p \in Pods : PodState(pod[p])

LEMMA LiveHasStarted ==
    ASSUME LifeInv, NEW j \in Jobs, IsLive(j)
    PROVE  job[j].uid = 1 /\ HasStarted(j)
  BY Nothing DEF LifeInv, JobState, IsLive

LEMMA JobMovesOn ==
    ASSUME TypeInv, LifeInv, NEW j \in Jobs, NEW state \in JobObject,
           job' = [job EXCEPT ![j] = state], UNCHANGED <<pod, incarnation>>,
           state = NoJob \/ (IsLive(j) /\ state.uid = job[j].uid /\ job[j].ver < state.ver)
    PROVE  Onward /\ ObjectsLive'
<1>1. \A i \in Jobs : job[i] \in JobObject /\ job[i].ver \in Nat
  BY DEF TypeInv, TypeOK, JobObject
<1>2. /\ job'[j] = state /\ state.ver \in Nat
      /\ \A i \in Jobs : i # j => job'[i] = job[i]
  BY DEF TypeInv, TypeOK, JobObject
<1>3. IsLive(j) => job[j].uid = 1 /\ HasStarted(j)
  BY LiveHasStarted
<1>4. Onward
  BY <1>2, Nothing DEF Onward, HasStarted, IsLive
<1>5. JobState(j, job[j])'
  BY <1>2, <1>3 DEF JobState, HasStarted, IsLive
<1>6. ASSUME NEW i \in Jobs, i # j PROVE JobState(i, job[i])'
  BY <1>2, <1>6 DEF LifeInv, JobState, HasStarted, IsLive
<1>7. \A p \in Pods : PodState(pod[p])'
  BY DEF LifeInv, PodState, HasStarted
<1>8. QED
  BY <1>4, <1>5, <1>6, <1>7 DEF ObjectsLive, LifeInv

LEMMA PodMovesOn ==
    ASSUME TypeInv, LifeInv, NEW p \in Pods, NEW state \in PodObject, PodState(state),
           pod' = [pod EXCEPT ![p] = state], UNCHANGED <<job, incarnation>>
    PROVE  Onward /\ ObjectsLive'
<1>1. Onward
  BY DEF Onward, HasStarted, IsLive
<1>2. /\ pod'[p] = state
      /\ \A q \in Pods : q # p => pod'[q] = pod[q]
  BY DEF TypeInv, TypeOK
<1>3. \A q \in Pods : PodState(pod[q])'
  BY <1>2 DEF LifeInv, PodState, HasStarted
<1>4. \A j \in Jobs : incarnation'[j] <= 1 /\ JobState(j, job[j])'
  BY DEF LifeInv, JobState, HasStarted, IsLive
<1>5. QED
  BY <1>1, <1>3, <1>4 DEF ObjectsLive

LEMMA SubmitMovesOn ==
    ASSUME OneLife, TypeInv, PodsSeen, LifeInv, NEW j \in Jobs, SubmitJob(j)
    PROVE  Onward /\ ObjectsLive' /\ incarnation[j] = 0 /\ HasStarted(j)'
           /\ job'[j].status = ""
<1>1. incarnation[j] \in Nat /\ incarnation[j] < MaxIncarnations /\ MaxIncarnations \in Nat
  BY ConstantsAssumption DEF SubmitJob, TypeInv, TypeOK
<1>2. incarnation[j] = 0
  BY <1>1 DEF OneLife
<1>3. /\ incarnation'[j] = 1
      /\ \A i \in Jobs : i # j => incarnation'[i] = incarnation[i]
  BY <1>2 DEF SubmitJob, TypeInv, TypeOK
<1>4. PICK spec : StoreJob(j, NewJob(1, spec))
  BY <1>2 DEF SubmitJob
<1>5. /\ job'[j] = NewJob(1, spec)
      /\ \A i \in Jobs : i # j => job'[i] = job[i]
  BY <1>4 DEF StoreJob, TypeInv, TypeOK
<1>6. NewJob(1, spec).uid = 1 /\ NewJob(1, spec).status = "" /\ NewJob(1, spec).ver = 1
  BY DEF NewJob
<1>7. Onward
  BY <1>2, <1>3, <1>5 DEF Onward, HasStarted, IsLive
<1>8. JobState(j, job[j])'
  <2>1. job'[j].uid = 1 /\ job'[j].ver = 1
    BY <1>5, <1>6, Zenon
  <2>2. QED
    BY <1>3, <2>1 DEF JobState, HasStarted, IsLive
<1>9. ASSUME NEW i \in Jobs, i # j PROVE JobState(i, job[i])'
  BY <1>3, <1>5, <1>9 DEF LifeInv, JobState, HasStarted, IsLive
<1>10. ASSUME NEW p \in Pods PROVE PodState(pod[p])'
  <2>1. pod[p] = NoPod \/ (pod[p].owner \in Jobs /\ HasStarted(pod[p].owner))
    BY DEF PodsSeen, OwnedPod, LifeInv, PodState
  <2>2. QED
    BY <1>2, <1>3, <2>1 DEF SubmitJob, LifeInv, PodState, HasStarted
<1>11. \A i \in Jobs : incarnation'[i] <= 1
  BY <1>3 DEF LifeInv
<1>12. QED
  BY <1>2, <1>3, <1>5, <1>6, <1>7, <1>8, <1>9, <1>10, <1>11 DEF ObjectsLive, HasStarted

Updated(c) == [job[c.key] EXCEPT !.status = c.phase, !.ver = @ + 1]

LEMMA UpdatedType ==
    ASSUME TypeInv, NEW c \in WorkerState, c.key \in Jobs
    PROVE  /\ Updated(c) \in JobObject
           /\ Updated(c).uid = job[c.key].uid /\ Updated(c).status = c.phase
           /\ job[c.key].ver < Updated(c).ver
<1>1. job[c.key] \in JobObject /\ c.phase \in Phases \cup {""}
  BY DEF TypeInv, TypeOK, WorkerState
<1>2. job[c.key].ver \in Nat
  BY <1>1 DEF JobObject
<1>3. job[c.key].ver + 1 \in Nat /\ job[c.key].ver < job[c.key].ver + 1
  BY <1>2
<1>4. QED
  BY <1>1, <1>3 DEF Updated, JobObject

(* What a call that is accepted does. *)
LEMMA CallTakesEffect ==
    ASSUME TypeInv, LifeInv, NEW c, Takes(c)
    PROVE  /\ Knows(c) /\ c \in WorkerState /\ c.key \in Jobs
           /\ c.seen.uid = 1 /\ HasStarted(c.key) /\ PodOf[c.key] \in Pods
           /\ UNCHANGED <<up, jobCache, podCache, incarnation, budget>>
           /\ \/ /\ c.pc = "create" /\ ~Exists(PodOf[c.key])
                 /\ StorePod(PodOf[c.key], NewPod(c.key, 1))
                 /\ NewPod(c.key, 1) \in PodObject
                 /\ UNCHANGED <<job, jobEvents>>
              \/ /\ c.pc = "update" /\ IsLive(c.key) /\ c.phase # ""
                 /\ c.seen.ver = job[c.key].ver
                 /\ \/ UNCHANGED <<job, jobEvents>>
                    \/ StoreJob(c.key, Updated(c)) /\ job[c.key].status # c.phase
                 /\ UNCHANGED <<pod, podEvents>>
<1>1. /\ Knows(c) /\ c \in WorkerState /\ c.key \in Jobs /\ c.pc \in Calls
      /\ PodOf[c.key] \in Pods
  BY ConstantsAssumption DEF Takes, IsActing, LifeInv
<1>2. c.seen.uid = 1 /\ HasStarted(c.key) /\ (c.pc = "update" => c.phase # "")
  BY <1>1 DEF Knows
<1>3. UNCHANGED <<up, jobCache, podCache, budget>>
  BY DEF Takes
<1>4. CASE c.pc = "create"
  <2>1. ~Exists(PodOf[c.key]) /\ ApplyCreate(c)
    BY <1>4 DEF Takes, Accepted, CreateAccepted, Apply
  <2>2. NewPod(c.key, 1) \in PodObject
    BY <1>1, ObjectTypes
  <2>3. QED
    BY <1>1, <1>2, <1>3, <1>4, <2>1, <2>2 DEF ApplyCreate
<1>5. CASE c.pc = "update"
  <2>1. UpdateAccepted(c) /\ ApplyUpdate(c)
    BY <1>5 DEF Takes, Accepted, Apply
  <2>2. job[c.key].uid = 1 /\ c.seen.ver = job[c.key].ver
    BY <1>2, <2>1 DEF UpdateAccepted, SentVersion
  <2>3. /\ UNCHANGED <<pod, podEvents, incarnation>>
        /\ \/ UNCHANGED <<job, jobEvents>>
           \/ StoreJob(c.key, Updated(c)) /\ job[c.key].status # c.phase
    BY <2>1 DEF ApplyUpdate, Updated
  <2>4. IsLive(c.key)
    BY <2>2 DEF IsLive
  <2>5. QED
    BY <1>1, <1>2, <1>3, <1>5, <2>2, <2>3, <2>4, Zenon
<1>6. QED
  BY <1>1, <1>4, <1>5 DEF Calls

LEMMA ObjectsStep ==
    ASSUME OneLife, TypeInv, PodsSeen, LifeInv, [Next]_vars
    PROVE  Onward /\ ObjectsLive' /\ budget'.deletions = 0
<1>1. ASSUME NEW j \in Jobs, SubmitJob(j) \/ EditJob(j) \/ DeleteJob(j)
      PROVE  Onward /\ ObjectsLive' /\ budget'.deletions = 0
  <2>1. budget'.deletions = 0
    <3>1. budget' = budget \/ budget' = [budget EXCEPT !.edits = budget.edits - 1]
      BY <1>1 DEF SubmitJob, EditJob, DeleteJob
    <3>2. QED
      BY <3>1, DeletionsKept DEF LifeInv
  <2>2. CASE SubmitJob(j)
    BY <2>1, <2>2, SubmitMovesOn
  <2>3. CASE EditJob(j)
    <3>1. PICK spec \in SpecsOf[j] :
            StoreJob(j, [job[j] EXCEPT !.spec = spec, !.ver = @ + 1])
      BY <2>3 DEF EditJob
    <3> DEFINE state == [job[j] EXCEPT !.spec = spec, !.ver = @ + 1]
    <3>2. job[j] \in JobObject /\ job[j].ver \in Nat
      BY DEF TypeInv, TypeOK, JobObject
    <3>3. state.uid = job[j].uid /\ state.ver = job[j].ver + 1
      BY <3>2 DEF JobObject
    <3>4. state \in JobObject /\ job[j].ver < state.ver
      <4>1. state \in JobObject
        BY EditedType DEF TypeInv
      <4> HIDE DEF state
      <4>2. QED
        BY <3>2, <3>3, <4>1
    <3>5. /\ job' = [job EXCEPT ![j] = state] /\ IsLive(j)
          /\ UNCHANGED <<pod, incarnation>>
      BY <2>3, <3>1 DEF EditJob, StoreJob
    <3> HIDE DEF state
    <3>6. QED
      BY <2>1, <3>3, <3>4, <3>5, JobMovesOn
  <2>4. CASE DeleteJob(j)
    BY <2>1, <2>4, ObjectTypes, JobMovesOn DEF DeleteJob, StoreJob
  <2>5. QED
    BY <1>1, <2>2, <2>3, <2>4
<1>2. ASSUME NEW p \in Pods, DeletePod(p) \/ CollectPod(p) \/ RunPod(p)
      PROVE  Onward /\ ObjectsLive' /\ budget'.deletions = 0
  <2>1. ~DeletePod(p)
    BY DEF DeletePod, LifeInv
  <2>2. budget'.deletions = 0 /\ UNCHANGED <<job, incarnation>>
    BY <1>2, <2>1 DEF CollectPod, RunPod, LifeInv
  <2>3. PICK state \in PodObject : pod' = [pod EXCEPT ![p] = state] /\ PodState(state)
    <3>1. CASE CollectPod(p)
      BY <3>1, ObjectTypes DEF CollectPod, StorePod, PodState
    <3>2. CASE RunPod(p)
      <4>1. PICK phase \in Phases : pod' = [pod EXCEPT ![p] = [pod[p] EXCEPT !.phase = phase]]
        BY <3>2 DEF RunPod, StorePod
      <4>2. pod[p] \in PodObject /\ pod[p] # NoPod /\ PodState(pod[p])
        BY <3>2, Nothing DEF RunPod, Exists, TypeInv, TypeOK, LifeInv
      <4>3. /\ [pod[p] EXCEPT !.phase = phase] \in PodObject
            /\ [pod[p] EXCEPT !.phase = phase].uid = pod[p].uid
            /\ [pod[p] EXCEPT !.phase = phase].owner = pod[p].owner
        BY <4>2 DEF PodObject
      <4>4. QED
        BY <4>1, <4>2, <4>3 DEF PodState
    <3>3. QED
      BY <1>2, <2>1, <3>1, <3>2
  <2>4. QED
    BY <2>2, <2>3, PodMovesOn
<1>3. ASSUME UNCHANGED apiVars, budget'.deletions = budget.deletions
      PROVE  Onward /\ ObjectsLive' /\ budget'.deletions = 0
  BY <1>3 DEF apiVars, LifeInv, Onward, ObjectsLive, HasStarted, IsLive, JobState, PodState
<1>4. CASE Rests \/ Dies
  BY <1>3, <1>4 DEF Rests, Dies
<1>5. CASE Restart
  BY <1>3, <1>5 DEF Restart
<1>6. ASSUME NEW c, Takes(c) PROVE Onward /\ ObjectsLive' /\ budget'.deletions = 0
  <2>1. /\ c \in WorkerState /\ c.key \in Jobs /\ PodOf[c.key] \in Pods
        /\ HasStarted(c.key) /\ UNCHANGED <<incarnation, budget>>
    BY <1>6, CallTakesEffect
  <2>2. budget'.deletions = 0
    BY <2>1 DEF LifeInv
  <2>3. CASE StorePod(PodOf[c.key], NewPod(c.key, 1)) /\ UNCHANGED <<job, jobEvents>>
    <3>1. NewPod(c.key, 1).uid = 1 /\ NewPod(c.key, 1).owner = c.key
      BY DEF NewPod
    <3>2. PodState(NewPod(c.key, 1)) /\ NewPod(c.key, 1) \in PodObject
      BY <2>1, <3>1, ObjectTypes DEF PodState
    <3>3. QED
      BY <2>1, <2>2, <2>3, <3>2, PodMovesOn DEF StorePod
  <2>4. CASE UNCHANGED <<job, pod>>
    BY <1>3, <2>1, <2>4 DEF apiVars
  <2>5. CASE StoreJob(c.key, Updated(c)) /\ IsLive(c.key) /\ UNCHANGED <<pod, podEvents>>
    BY <2>1, <2>2, <2>5, UpdatedType, JobMovesOn DEF StoreJob
  <2>6. QED
    BY <1>6, <2>3, <2>4, <2>5, CallTakesEffect
<1>7. ASSUME NEW j \in Jobs, DeliverJob(j)
      PROVE  Onward /\ ObjectsLive' /\ budget'.deletions = 0
  BY <1>3, <1>7 DEF DeliverJob
<1>8. ASSUME NEW p \in Pods, DeliverPod(p)
      PROVE  Onward /\ ObjectsLive' /\ budget'.deletions = 0
  BY <1>3, <1>8 DEF DeliverPod
<1>9. QED
  BY <1>1, <1>2, <1>4, <1>5, <1>6, <1>7, <1>8, StepShape DEF Cluster

(* What a worker has in hand after a step: what it had, nothing of interest,
   or what it has just read.                                                *)
ReadsJob(k) ==
    /\ worker'[k].pc = "getPod"
    /\ worker'[k].seen = jobCache[worker[k].key] /\ worker'[k].seen # NoJob

ReadsNoPod(k) ==
    /\ worker[k].pc = "getPod" /\ worker'[k].pc = "create"
    /\ worker'[k].seen = worker[k].seen

ReadsPod(k) ==
    /\ worker[k].pc = "getPod" /\ worker'[k].pc = "update"
    /\ worker'[k].seen = worker[k].seen
    /\ worker'[k].phase = podCache[PodOf[worker[k].key]].phase
    /\ podCache[PodOf[worker[k].key]] # NoPod

Reads(k) == /\ Rests
            /\ worker[k].key \in Jobs /\ worker'[k].key = worker[k].key
            /\ ReadsJob(k) \/ ReadsNoPod(k) \/ ReadsPod(k)

WorkerMoves(k) == \/ worker'[k] = worker[k]
                  \/ worker'[k].pc \in {"idle", "getJob"}
                  \/ Reads(k)

LEMMA IdleWorker == Idle.pc = "idle" /\ [Idle EXCEPT !.pc = "getJob"].pc = "getJob"
  BY DEF Idle

LEMMA ReconcileMoves ==
    ASSUME TypeInv, NEW k \in Kinds, Reconcile(k) \/ CallFails(k)
    PROVE  \A c \in Kinds : WorkerMoves(c)
<1> DEFINE w == worker[k]
<1>1. worker \in [Kinds -> WorkerState] /\ w \in WorkerState
  BY DEF TypeInv, TypeOK
<1>2. w.pc # "idle" => w.key \in Jobs
  BY DEF TypeInv, KeysOK, WorkerKeys
<1>3. ASSUME Finish(k) \/ Fail(k) PROVE \A c \in Kinds : WorkerMoves(c)
  <2>1. worker' = [worker EXCEPT ![k] = Idle]
    BY <1>3 DEF Finish, Fail, Release
  <2>2. QED
    BY <1>1, <2>1, IdleWorker DEF WorkerMoves
<1>4. ASSUME Reads(k), \A c \in Kinds : c # k => worker'[c] = worker[c]
      PROVE  \A c \in Kinds : WorkerMoves(c)
  BY <1>4 DEF WorkerMoves
<1>5. CASE GetJobGone(k) \/ GetJobRefused(k) \/ GetPodGone(k) \/ CallRejected(k)
           \/ CreatePod(k) \/ UpdateStatus(k) \/ CallFails(k)
  BY <1>3, <1>5 DEF GetJobGone, GetJobRefused, GetPodGone, CallRejected, CreatePod,
                    UpdateStatus, CallFails
<1>6. CASE GetJobPanics(k)
  BY <1>6, IdleWorker DEF GetJobPanics, Die, WorkerMoves
<1>7. CASE GetJob(k)
  <2>1. /\ worker' = [worker EXCEPT ![k] = [w EXCEPT !.pc = "getPod", !.seen = jobCache[w.key]]]
        /\ w.pc = "getJob" /\ jobCache[w.key] # NoJob
        /\ Rests
    BY <1>1, <1>7 DEF GetJob, Rests
  <2>2. /\ worker'[k].pc = "getPod" /\ worker'[k].key = w.key
        /\ worker'[k].seen = jobCache[w.key]
        /\ \A c \in Kinds : c # k => worker'[c] = worker[c]
    BY <1>1, <2>1 DEF WorkerState
  <2>3. QED
    BY <1>2, <1>4, <2>1, <2>2 DEF Reads, ReadsJob
<1>8. CASE GetPodMissing(k)
  <2>1. /\ worker' = [worker EXCEPT ![k] = [w EXCEPT !.pc = "create"]]
        /\ w.pc = "getPod" /\ Rests
    BY <1>1, <1>8 DEF GetPodMissing, Rests
  <2>2. /\ worker'[k].pc = "create" /\ worker'[k].key = w.key
        /\ worker'[k].seen = w.seen
        /\ \A c \in Kinds : c # k => worker'[c] = worker[c]
    BY <1>1, <2>1 DEF WorkerState
  <2>3. QED
    BY <1>2, <1>4, <2>1, <2>2 DEF Reads, ReadsNoPod
<1>9. CASE GetPod(k)
  <2>1. /\ worker' = [worker EXCEPT ![k] =
                          [w EXCEPT !.pc = "update", !.phase = podCache[PodOf[w.key]].phase]]
        /\ w.pc = "getPod" /\ podCache[PodOf[w.key]] # NoPod /\ Rests
    BY <1>1, <1>9 DEF GetPod, StatusToReport, Rests
  <2>2. /\ worker'[k].pc = "update" /\ worker'[k].key = w.key
        /\ worker'[k].seen = w.seen
        /\ worker'[k].phase = podCache[PodOf[w.key]].phase
        /\ \A c \in Kinds : c # k => worker'[c] = worker[c]
    BY <1>1, <2>1 DEF WorkerState
  <2>3. QED
    BY <1>2, <1>4, <2>1, <2>2 DEF Reads, ReadsPod
<1>10. QED
  BY <1>5, <1>6, <1>7, <1>8, <1>9 DEF Reconcile

LEMMA WorkersStep ==
    ASSUME TypeInv, [Next]_vars
    PROVE  /\ \A k \in Kinds : WorkerMoves(k)
           /\ late' \subseteq late \cup {worker[k] : k \in Kinds}
<1> DEFINE Goal == /\ \A k \in Kinds : WorkerMoves(k)
                   /\ late' \subseteq late \cup {worker[k] : k \in Kinds}
<1>1. ASSUME UNCHANGED worker, late' \subseteq late PROVE Goal
  BY <1>1 DEF WorkerMoves
<1>2. CASE Cluster \/ Informer \/ (\E j \in Jobs : AddToQueue(j)) \/ Restart \/ UNCHANGED vars
  <2>1. UNCHANGED <<worker, late>>
    BY <1>2 DEF Cluster, SubmitJob, EditJob, DeleteJob, DeletePod, CollectPod, RunPod,
                Informer, DeliverJob, DeliverPod, Resync, AddToQueue, Restart, vars
  <2>2. QED
    BY <1>1, <2>1
<1>3. ASSUME NEW c \in late, LateCallTakesEffect(c) \/ LateCallIsLost(c) PROVE Goal
  BY <1>1, <1>3 DEF LateCallTakesEffect, LateCallIsLost
<1>4. CASE Crash
  BY <1>4, IdleWorker DEF Crash, Die, WorkerMoves
<1>5. ASSUME NEW k \in Kinds, GetRequest(k) PROVE Goal
  <2>1. /\ worker' = [worker EXCEPT ![k] = [Idle EXCEPT !.pc = "getJob", !.key = Head(queue[k])]]
        /\ late' = late
    BY <1>5 DEF GetRequest
  <2>2. [Idle EXCEPT !.pc = "getJob", !.key = Head(queue[k])].pc = "getJob"
    BY DEF Idle
  <2>3. \A c \in Kinds : worker'[c] = worker[c] \/ worker'[c].pc = "getJob"
    BY <2>1, <2>2 DEF TypeInv, TypeOK
  <2>4. QED
    BY <2>1, <2>3 DEF WorkerMoves
<1>6. ASSUME NEW k \in Kinds, Reconcile(k) \/ CallFails(k) PROVE Goal
  <2>1. CASE CallFails(k)
    <3>1. late' = late \cup {worker[k]}
      BY <2>1 DEF CallFails
    <3>2. QED
      BY <1>6, <3>1, ReconcileMoves
  <2>2. CASE GetJobPanics(k)
    <3>1. late' \subseteq late \cup {worker[c] : c \in Kinds}
      BY <2>2 DEF GetJobPanics, Die
    <3>2. QED
      BY <1>6, <3>1, ReconcileMoves
  <2>3. CASE UNCHANGED late
    BY <1>6, <2>3, ReconcileMoves
  <2>4. ASSUME Reconcile(k), ~GetJobPanics(k) PROVE UNCHANGED late
    BY <2>4 DEF Reconcile, GetJobGone, GetJobRefused, GetJob, GetPodGone, GetPodMissing,
                GetPod, CreatePod, UpdateStatus, CallRejected
  <2>5. QED
    BY <1>6, <2>1, <2>2, <2>3, <2>4
<1>7. QED
  BY <1>2, <1>3, <1>4, <1>5, <1>6 DEF Next

(* What is known stays true of a job that moves on. *)
LEMMA KnownStays ==
    ASSUME TypeInv, TypeInv', Onward
    PROVE  /\ \A j \in Jobs, state \in JobObject : JobState(j, state) => JobState(j, state)'
           /\ \A p, state : PodState(state) /\ OwnedPod(p, state) => PodState(state)'
           /\ \A c \in WorkerState : Knows(c) /\ c.key \in Jobs => Knows(c)'
<1>0. \A j \in Jobs : job[j].ver \in Nat /\ job'[j].ver \in Nat
  BY DEF TypeInv, TypeOK, JobObject
<1>1. \A j \in Jobs : /\ job[j].ver \in Nat /\ job'[j].ver \in Nat
                      /\ HasStarted(j) => HasStarted(j)'
                      /\ HasStarted(j) /\ IsLive(j)' => IsLive(j) /\ job[j].ver <= job'[j].ver
  BY <1>0 DEF Onward
<1>2. ASSUME NEW j \in Jobs, NEW n \in Nat, HasStarted(j), IsLive(j) => n <= job[j].ver
      PROVE  HasStarted(j)' /\ (IsLive(j)' => n <= job'[j].ver)
  BY <1>1, <1>2
<1>3. ASSUME NEW j \in Jobs, NEW state \in JobObject, JobState(j, state)
      PROVE  JobState(j, state)'
  BY <1>2, <1>3 DEF JobState, JobObject
<1>4. ASSUME NEW p, NEW state, PodState(state), OwnedPod(p, state) PROVE PodState(state)'
  BY <1>1, <1>4 DEF PodState, OwnedPod
<1>5. ASSUME NEW c \in WorkerState, Knows(c), c.key \in Jobs PROVE Knows(c)'
  BY <1>2, <1>5 DEF Knows, WorkerState, JobObject
<1>6. QED
  BY <1>3, <1>4, <1>5

LEMMA OwnedStates ==
    ASSUME TypeInv, PodsSeen, NEW p \in Pods, NEW state \in PodStates(p)
    PROVE  OwnedPod(p, state)
<1>1. podEvents[p] \in Seq(PodObject) /\ PodHistory(p, podCache[p], podEvents[p])
  BY DEF TypeInv, TypeOK, PodsSeen
<1>2. CASE state = podCache[p]
  BY <1>1, <1>2 DEF PodHistory, Seen
<1>3. ASSUME NEW i \in 1..Len(podEvents[p]), state = podEvents[p][i]
      PROVE  OwnedPod(p, state)
  BY <1>1, <1>3 DEF PodHistory, Seen
<1>4. QED
  BY <1>1, <1>2, <1>3 DEF PodStates, Range

LEMMA TypedStates ==
    ASSUME TypeInv
    PROVE  \A j \in Jobs : JobStates(j) \subseteq JobObject
<1>1. ASSUME NEW j \in Jobs PROVE JobStates(j) \subseteq JobObject
  <2>1. jobEvents[j] \in Seq(JobObject) /\ jobCache[j] \in JobObject
    BY DEF TypeInv, TypeOK
  <2>2. \A i \in DOMAIN jobEvents[j] : jobEvents[j][i] \in JobObject
    BY <2>1
  <2>3. QED
    BY <2>1, <2>2 DEF JobStates, Range
<1>2. QED
  BY <1>1

(* A process that is down knows nothing of the pods. *)
LEMMA DownForgets ==
    ASSUME TypeInv, LifeInv, [Next]_vars, ~up', NEW p \in Pods
    PROVE  podCache'[p] = NoPod /\ podEvents'[p] = <<>>
<1>1. CASE Dies
  BY <1>1 DEF Dies, Die
<1>2. CASE ~up /\ UNCHANGED <<podCache, podEvents>>
  BY <1>2 DEF LifeInv
<1>3. CASE Cluster
  BY <1>2, <1>3 DEF Cluster, SubmitJob, EditJob, DeleteJob, DeletePod, CollectPod, RunPod,
                    StorePod, Notify
<1>4. CASE Rests
  BY <1>2, <1>4 DEF Rests, cacheVars
<1>5. ASSUME NEW c, Takes(c) PROVE ~up /\ UNCHANGED <<podCache, podEvents>>
  BY <1>5 DEF Takes, Apply, ApplyCreate, ApplyUpdate, StorePod, Notify
<1>6. ASSUME NEW j \in Jobs, DeliverJob(j) PROVE ~up /\ UNCHANGED <<podCache, podEvents>>
  BY <1>6 DEF DeliverJob
<1>7. ASSUME NEW q \in Pods PROVE ~DeliverPod(q)
  BY DEF DeliverPod, LifeInv
<1>8. ~Restart
  BY DEF Restart
<1>9. QED
  BY <1>1, <1>2, <1>3, <1>4, <1>5, <1>6, <1>7, <1>8, StepShape

LEMMA LifeStep ==
    ASSUME OneLife, TypeInv, TypeInv', PodsSeen, LifeInv, [Next]_vars
    PROVE  LifeInv'
<1>1. Onward /\ ObjectsLive' /\ budget'.deletions = 0 /\ StatesKept
  BY ObjectsStep, StatesStep
<1>2. ASSUME NEW j \in Jobs, NEW state \in JobStates(j)' PROVE JobState(j, state)'
  <2>1. CASE state \in JobStates(j) \cup {job[j]}
    <3>1. JobState(j, state) /\ state \in JobObject
      BY <2>1, TypedStates DEF LifeInv, TypeInv, TypeOK
    <3>2. QED
      BY <1>1, <3>1, KnownStays
  <2>2. CASE state \in {job'[j], NoJob}
    BY <1>1, <2>2 DEF ObjectsLive, JobState
  <2>3. QED
    BY <1>1, <1>2, <2>1, <2>2 DEF StatesKept
<1>3. ASSUME NEW p \in Pods, NEW state \in PodStates(p)' PROVE PodState(state)'
  <2>1. CASE state \in PodStates(p) \cup {pod[p]}
    <3>1. PodState(state) /\ OwnedPod(p, state)
      BY <2>1, OwnedStates DEF LifeInv, PodsSeen
    <3>2. QED
      BY <1>1, <3>1, KnownStays
  <2>2. CASE state \in {pod'[p], NoPod}
    BY <1>1, <2>2 DEF ObjectsLive, PodState
  <2>3. QED
    BY <1>1, <1>3, <2>1, <2>2 DEF StatesKept
<1>4. \A c \in WorkerState : Knows(c) /\ c.pc \in Calls \cup {"getPod"} /\ c.key \in Jobs
                              => Knows(c)'
  BY <1>1, KnownStays
<1>5. ASSUME NEW k \in Kinds PROVE Knows(worker[k])'
  <2> DEFINE w == worker[k]
  <2>1. w \in WorkerState /\ Knows(w) /\ (w.pc \in Calls \cup {"getPod"} => w.key \in Jobs)
    BY DEF TypeInv, TypeOK, KeysOK, WorkerKeys, LifeInv, Calls
  <2>2. CASE w' = w
    <3>1. CASE w.pc \in Calls \cup {"getPod"}
      BY <1>4, <2>1, <2>2, <3>1 DEF Knows
    <3>2. CASE w.pc \notin Calls \cup {"getPod"}
      BY <2>2, <3>2 DEF Knows
    <3>3. QED
      BY <3>1, <3>2
  <2>3. CASE w'.pc \in {"idle", "getJob"}
    BY <2>3 DEF Knows, Calls
  <2>4. CASE Reads(k)
    <3>1. /\ w.key \in Jobs /\ w'.key = w.key /\ UNCHANGED <<job, incarnation>>
      BY <2>4 DEF Reads, Rests, apiVars
    <3>2. CASE ReadsJob(k)
      <4>1. JobState(w.key, jobCache[w.key])
        BY <3>1 DEF LifeInv, JobStates
      <4>2. QED
        BY <3>1, <3>2, <4>1 DEF ReadsJob, JobState, Knows, HasStarted, IsLive, Calls
    <3>3. CASE ReadsNoPod(k)
      BY <2>1, <3>1, <3>3 DEF ReadsNoPod, Knows, HasStarted, IsLive, Calls
    <3>4. CASE ReadsPod(k)
      <4>1. OwnedPod(PodOf[w.key], podCache[PodOf[w.key]])
        BY <3>1, OwnedStates, ConstantsAssumption DEF PodStates
      <4>2. w'.phase # ""
        BY <3>4, <4>1 DEF ReadsPod, OwnedPod
      <4>3. QED
        BY <2>1, <3>1, <3>4, <4>2 DEF ReadsPod, Knows, HasStarted, IsLive, Calls
    <3>5. QED
      BY <2>4, <3>2, <3>3, <3>4 DEF Reads
  <2>5. QED
    BY <2>2, <2>3, <2>4, WorkersStep DEF WorkerMoves
<1>6. ASSUME NEW c \in late' PROVE Knows(c)'
  <2>1. c \in WorkerState /\ Knows(c)
    BY WorkersStep DEF TypeInv, TypeOK, LifeInv
  <2>2. c.pc \in Calls /\ c.key \in Jobs
    BY DEF TypeInv, KeysOK, LateKeys
  <2>3. QED
    BY <1>4, <2>1, <2>2
<1>7. \A p \in Pods : ~up' => podCache'[p] = NoPod /\ podEvents'[p] = <<>>
  BY DownForgets
<1>8. QED
  BY <1>1, <1>2, <1>3, <1>5, <1>6, <1>7 DEF LifeInv, ObjectsLive

----------------------------------------------------------------------------
(* The order of phases *)

(* What becomes of the pod of a live job: what is known of it only rises.  *)
Climbs(p) == /\ up' => Rises(p)'
             /\ Reaches(Known(p).phase, Known(p)'.phase)

LEMMA UntouchedClimbs ==
    ASSUME NEW p \in Pods, up => Rises(p), pod'[p] = pod[p], podCache'[p] = podCache[p],
           podEvents'[p] = podEvents[p], UNCHANGED up
    PROVE  Climbs(p)
<1>1. Known(p)' = Known(p) /\ (Rises(p)' <=> Rises(p))
  BY DEF Known, Rises, PhaseSeen
<1>2. QED
  BY <1>1, ReachesOrder DEF Climbs

LEMMA StoredClimbs ==
    ASSUME TypeInv, PodsSeen, NEW p \in Pods, NEW state \in PodObject, StorePod(p, state),
           UNCHANGED <<up, podCache>>, Reaches(pod[p].phase, state.phase), up => Rises(p)
    PROVE  Climbs(p)
<1>1. pod'[p] = state /\ podEvents[p] \in Seq(PodObject) /\ Len(podEvents[p]) \in Nat
  BY DEF StorePod, TypeInv, TypeOK
<1>2. CASE ~up
  BY <1>1, <1>2, ReachesOrder DEF Climbs, Known
<1>3. CASE up
  <2> DEFINE new == Append(podEvents[p], state)
  <2>0. PICK n \in Nat : n = Len(podEvents[p])
    BY <1>1
  <2>1. podEvents'[p] = new /\ Len(new) = n + 1
    BY <1>1, <1>3, <2>0 DEF StorePod, Notify, TypeInv, TypeOK
  <2>2. Seen(podCache[p], new, n+1) = state
    BY <1>1, <2>1, AppendSeen DEF LastSeen
  <2>3. \A i \in 0..n : Seen(podCache[p], new, i) = Seen(podCache[p], podEvents[p], i)
    BY <1>1, <2>0, AppendSeen
  <2>4. PhaseSeen(p, n) = pod[p].phase
    BY <1>3, <2>0 DEF PodsSeen, LastSeen, PhaseSeen
  <2>5. /\ PhaseSeen(p, n+1)' = state.phase
        /\ \A i \in 0..n : PhaseSeen(p, i)' = PhaseSeen(p, i)
    BY <2>1, <2>2, <2>3 DEF PhaseSeen
  <2> HIDE DEF new
  <2>6. ASSUME NEW i \in 0..n+1, NEW m \in 0..n+1, i <= m
        PROVE  Reaches(PhaseSeen(p, i)', PhaseSeen(p, m)')
    <3>1. CASE i = n + 1
      <4>1. m = i
        BY <2>0, <2>6, <3>1
      <4>2. QED
        BY <4>1, ReachesOrder, Zenon
    <3>2. CASE m \in 0..n
      <4>1. i \in 0..n
        BY <2>0, <2>6, <3>2
      <4>2. Reaches(PhaseSeen(p, i), PhaseSeen(p, m))
        BY <1>3, <2>0, <2>6, <3>2, <4>1 DEF Rises
      <4>3. QED
        BY <2>5, <3>2, <4>1, <4>2
    <3>3. CASE i \in 0..n /\ m = n + 1
      <4>1. n \in 0..n /\ i <= n
        BY <2>0, <3>3
      <4>2. Reaches(PhaseSeen(p, i), pod[p].phase)
        BY <1>3, <2>0, <2>4, <3>3, <4>1 DEF Rises
      <4>3. Reaches(PhaseSeen(p, i), state.phase)
        BY <4>2, ReachesOrder, Zenon
      <4>4. QED
        BY <2>5, <3>3, <4>3
    <3>4. QED
      BY <2>0, <3>1, <3>2, <3>3
  <2>7. Rises(p)'
    BY <2>1, <2>6 DEF Rises
  <2>8. QED
    BY <1>3, <2>7, ReachesOrder DEF Climbs, Known
<1>4. QED
  BY <1>2, <1>3

LEMMA DeliveredClimbs ==
    ASSUME TypeInv, LifeInv, NEW p \in Pods, DeliverPod(p), up => Rises(p)
    PROVE  Climbs(p)
<1> DEFINE n == Len(podEvents[p])
<1>1. /\ podEvents[p] \in Seq(PodObject) /\ podEvents[p] # <<>> /\ UNCHANGED up
      /\ podCache'[p] = Head(podEvents[p]) /\ podEvents'[p] = Tail(podEvents[p])
  BY DEF DeliverPod, TypeInv, TypeOK
<1>2. up /\ Rises(p)
  BY <1>1 DEF LifeInv
<1>3. /\ n \in Nat \ {0} /\ Len(podEvents'[p]) = n - 1
      /\ \A i \in 0..n-1 : PhaseSeen(p, i)' = PhaseSeen(p, i+1)
  <2>1. n \in Nat \ {0} /\ Len(Tail(podEvents[p])) = n - 1
    BY <1>1, TailSeen
  <2>2. \A i \in 0..n-1 : Seen(Head(podEvents[p]), Tail(podEvents[p]), i)
                           = Seen(podCache[p], podEvents[p], i+1)
    BY <1>1, TailSeen
  <2>3. QED
    BY <1>1, <2>1, <2>2 DEF PhaseSeen
<1>4. Known(p) = Seen(podCache[p], podEvents[p], 0)
      /\ Known(p)' = Seen(podCache[p], podEvents[p], 1)
  BY <1>1, <1>2 DEF Known, Seen
<1>5. Reaches(PhaseSeen(p, 0), PhaseSeen(p, 1))
  <2>1. 0 \in 0..n /\ 1 \in 0..n /\ 0 <= 1
    BY <1>3
  <2>2. QED
    BY <1>2, <2>1 DEF Rises
<1>6. Rises(p)'
  <2>1. ASSUME NEW i \in 0..n-1, NEW m \in 0..n-1, i <= m
        PROVE  Reaches(PhaseSeen(p, i)', PhaseSeen(p, m)')
    <3>1. i + 1 \in 0..n /\ m + 1 \in 0..n /\ i + 1 <= m + 1
      BY <1>3, <2>1
    <3>2. Reaches(PhaseSeen(p, i+1), PhaseSeen(p, m+1))
      BY <1>2, <3>1 DEF Rises
    <3>3. QED
      BY <1>3, <3>2
  <2>2. QED
    BY <1>3, <2>1 DEF Rises
<1>7. QED
  BY <1>4, <1>5, <1>6 DEF Climbs, PhaseSeen

(* The cache does not run ahead of the pod. *)
LEMMA KnownBehindPod ==
    ASSUME TypeInv, PodsSeen, NEW p \in Pods, up => Rises(p)
    PROVE  Reaches(Known(p).phase, pod[p].phase)
<1>1. CASE ~up
  BY <1>1, ReachesOrder DEF Known
<1>2. CASE up
  <2>1. podEvents[p] \in Seq(PodObject) /\ Len(podEvents[p]) \in Nat
    BY DEF TypeInv, TypeOK
  <2>2. 0 \in 0..Len(podEvents[p]) /\ Len(podEvents[p]) \in 0..Len(podEvents[p])
        /\ 0 <= Len(podEvents[p])
    BY <2>1
  <2>3. Reaches(PhaseSeen(p, 0), PhaseSeen(p, Len(podEvents[p])))
    BY <1>2, <2>2 DEF Rises
  <2>4. PhaseSeen(p, 0) = Known(p).phase /\ PhaseSeen(p, Len(podEvents[p])) = pod[p].phase
    BY <1>2 DEF PhaseSeen, Seen, Known, PodsSeen, LastSeen
  <2>5. QED
    BY <2>3, <2>4
<1>3. QED
  BY <1>1, <1>2

LEMMA PodClimbs ==
    ASSUME OneLife, TypeInv, PodsSeen, LifeInv, NEW j \in Jobs, IsLive(j),
           up => Rises(PodOf[j]), [Next]_vars
    PROVE  Climbs(PodOf[j])
<1> DEFINE p == PodOf[j]
<1>1. p \in Pods
  BY ConstantsAssumption
<1>2. ASSUME UNCHANGED <<pod, podCache, podEvents, up>> PROVE Climbs(p)
  BY <1>1, <1>2, UntouchedClimbs
<1>3. ASSUME NEW q \in Pods, NEW state \in PodObject, StorePod(q, state), q # p,
             UNCHANGED <<up, podCache>>
      PROVE  Climbs(p)
  <2>1. pod'[p] = pod[p] /\ podEvents'[p] = podEvents[p]
    BY <1>1, <1>3 DEF StorePod, Notify, TypeInv, TypeOK
  <2>2. QED
    BY <1>1, <1>3, <2>1, UntouchedClimbs
<1>4. ASSUME NEW i \in Jobs, SubmitJob(i) \/ EditJob(i) \/ DeleteJob(i) PROVE Climbs(p)
  BY <1>2, <1>4 DEF SubmitJob, EditJob, DeleteJob
<1>5. ASSUME NEW q \in Pods, DeletePod(q) \/ CollectPod(q) \/ RunPod(q) PROVE Climbs(p)
  <2>1. ~DeletePod(q)
    BY DEF DeletePod, LifeInv
  <2>2. UNCHANGED <<up, podCache>>
    BY <1>5, <2>1 DEF CollectPod, RunPod
  <2>3. CASE CollectPod(q)
    <3>1. pod[q] # NoPod /\ pod[q].uid = 1 /\ pod[q].owner \in Jobs /\ PodOf[pod[q].owner] = q
      BY <2>3, Nothing DEF CollectPod, Exists, PodsSeen, OwnedPod, LifeInv, PodState
    <3>2. job[j].uid = 1
      BY LiveHasStarted
    <3>3. q # p
      BY <2>3, <3>1, <3>2 DEF CollectPod, OneLife, DistinctPodNames
    <3>4. QED
      BY <1>3, <2>2, <2>3, <3>3, ObjectTypes DEF CollectPod
  <2>4. CASE RunPod(q)
    <3>1. PICK phase \in Phases : /\ Rank(phase) > Rank(pod[q].phase)
                                  /\ StorePod(q, [pod[q] EXCEPT !.phase = phase])
      BY <2>4 DEF RunPod
    <3> DEFINE state == [pod[q] EXCEPT !.phase = phase]
    <3>2. state \in PodObject /\ state.phase = phase
      BY DEF TypeInv, TypeOK, PodObject
    <3>3. Reaches(pod[q].phase, state.phase)
      BY <3>1, <3>2, RankRange DEF Reaches
    <3> HIDE DEF state
    <3>4. StorePod(q, state)
      BY <3>1 DEF state
    <3>5. QED
      BY <1>1, <1>3, <2>2, <3>2, <3>3, <3>4, StoredClimbs
  <2>5. QED
    BY <1>5, <2>1, <2>3, <2>4
<1>6. CASE Rests
  BY <1>2, <1>6 DEF Rests, apiVars, cacheVars
<1>7. CASE Dies \/ Restart
  <2>1. CASE Dies
    <3>1. ~up' /\ Known(p)' = pod[p]
      BY <2>1 DEF Dies, Die, Known, apiVars
    <3>2. QED
      BY <1>1, <3>1, KnownBehindPod DEF Climbs
  <2>2. CASE Restart
    <3>1. Known(p) = pod[p] /\ Known(p)' = pod[p] /\ podEvents'[p] = <<>>
      BY <1>1, <2>2 DEF Restart, Known
    <3>2. Rises(p)'
      <4>1. \A i, m \in 0..Len(podEvents'[p]) : i = m
        BY <3>1
      <4>2. QED
        BY <4>1, ReachesOrder DEF Rises
    <3>3. QED
      BY <3>1, <3>2, ReachesOrder DEF Climbs
  <2>3. QED
    BY <1>7, <2>1, <2>2
<1>8. ASSUME NEW c, Takes(c) PROVE Climbs(p)
  <2>1. PodOf[c.key] \in Pods /\ UNCHANGED <<up, podCache>>
    BY <1>8, CallTakesEffect
  <2>2. CASE UNCHANGED <<pod, podEvents>>
    BY <1>2, <2>1, <2>2
  <2>3. CASE /\ ~Exists(PodOf[c.key]) /\ StorePod(PodOf[c.key], NewPod(c.key, 1))
             /\ NewPod(c.key, 1) \in PodObject
    <3>1. Reaches(pod[PodOf[c.key]].phase, NewPod(c.key, 1).phase)
      <4>1. NewPod(c.key, 1).phase \in Phases \cup {""}
        BY <2>3 DEF PodObject
      <4>2. QED
        BY <2>3, <4>1, ReachesOrder, Zenon DEF Exists
    <3>2. QED
      BY <1>1, <1>3, <2>1, <2>3, <3>1, StoredClimbs
  <2>4. QED
    BY <1>8, <2>2, <2>3, CallTakesEffect
<1>9. ASSUME NEW i \in Jobs, DeliverJob(i) PROVE Climbs(p)
  BY <1>2, <1>9 DEF DeliverJob, apiVars
<1>10. ASSUME NEW q \in Pods, DeliverPod(q) PROVE Climbs(p)
  <2>1. CASE q = p
    BY <1>1, <1>10, <2>1, DeliveredClimbs
  <2>2. CASE q # p
    <3>1. /\ pod'[p] = pod[p] /\ podEvents'[p] = podEvents[p]
          /\ podCache'[p] = podCache[p] /\ UNCHANGED up
      BY <1>1, <1>10, <2>2 DEF DeliverPod, apiVars, TypeInv, TypeOK
    <3>2. QED
      BY <1>1, <3>1, UntouchedClimbs
  <2>3. QED
    BY <2>1, <2>2
<1>11. QED
  BY <1>4, <1>5, <1>6, <1>7, <1>8, <1>9, <1>10, StepShape DEF Cluster

(* A live job changes with an edit or with an update of its status.        *)
JobAdvances(j) ==
    \/ job'[j] = job[j]
    \/ /\ job[j].ver < job'[j].ver
       /\ \/ job'[j].status = job[j].status
          \/ \E c : /\ IsActing(c) /\ c.key = j /\ c.pc = "update"
                    /\ c.phase # "" /\ c.phase = job'[j].status
                    /\ c.seen.ver = job[j].ver
                    /\ job[j].status # c.phase

LEMMA LiveJobAdvances ==
    ASSUME TypeInv, LifeInv, [Next]_vars, NEW j \in Jobs, IsLive(j), IsLive(j)'
    PROVE  JobAdvances(j)
<1>1. ASSUME UNCHANGED job PROVE JobAdvances(j)
  BY <1>1 DEF JobAdvances
<1>2. ASSUME NEW i \in Jobs, NEW state, StoreJob(i, state), i # j PROVE JobAdvances(j)
  BY <1>2 DEF StoreJob, JobAdvances, TypeInv, TypeOK
<1>3. ASSUME NEW i \in Jobs, SubmitJob(i) \/ EditJob(i) \/ DeleteJob(i)
      PROVE  JobAdvances(j)
  <2>1. CASE i # j
    BY <1>2, <1>3, <2>1 DEF SubmitJob, EditJob, DeleteJob
  <2>2. CASE i = j
    <3>1. ~SubmitJob(i)
      BY <2>2 DEF SubmitJob
    <3>2. ~DeleteJob(i)
      BY <2>2, Nothing DEF DeleteJob, StoreJob, IsLive, TypeInv, TypeOK
    <3>3. PICK spec \in SpecsOf[j] :
            job' = [job EXCEPT ![j] = [job[j] EXCEPT !.spec = spec, !.ver = @ + 1]]
      BY <1>3, <2>2, <3>1, <3>2 DEF EditJob, StoreJob
    <3>4. job[j] \in JobObject /\ job[j].ver \in Nat
      BY DEF TypeInv, TypeOK, JobObject
    <3>5. job'[j].ver = job[j].ver + 1 /\ job'[j].status = job[j].status
      BY <3>3, <3>4 DEF TypeInv, TypeOK, JobObject
    <3>6. QED
      BY <3>4, <3>5 DEF JobAdvances
  <2>3. QED
    BY <2>1, <2>2
<1>4. ASSUME NEW p \in Pods, DeletePod(p) \/ CollectPod(p) \/ RunPod(p) PROVE UNCHANGED job
  BY <1>4 DEF DeletePod, CollectPod, RunPod
<1>5. ASSUME Rests \/ Dies \/ Restart PROVE UNCHANGED job
  BY <1>5 DEF Rests, Dies, Restart, apiVars
<1>6. ASSUME NEW i \in Jobs, DeliverJob(i) PROVE UNCHANGED job
  BY <1>6 DEF DeliverJob, apiVars
<1>7. ASSUME NEW p \in Pods, DeliverPod(p) PROVE UNCHANGED job
  BY <1>7 DEF DeliverPod, apiVars
<1>8. ASSUME NEW c, Takes(c) PROVE JobAdvances(j)
  <2>1. c \in WorkerState /\ c.key \in Jobs /\ IsActing(c)
    BY <1>8, CallTakesEffect DEF Takes
  <2>2. CASE UNCHANGED job
    BY <1>1, <2>2
  <2>3. CASE /\ c.pc = "update" /\ c.phase # "" /\ c.seen.ver = job[c.key].ver
             /\ StoreJob(c.key, Updated(c)) /\ job[c.key].status # c.phase
    <3>1. CASE c.key # j
      BY <1>2, <2>1, <2>3, <3>1
    <3>2. CASE c.key = j
      <4>1. job'[j] = Updated(c)
        BY <2>3, <3>2 DEF StoreJob, TypeInv, TypeOK
      <4>2. QED
        BY <2>1, <2>3, <3>2, <4>1, UpdatedType DEF JobAdvances
    <3>3. QED
      BY <3>1, <3>2
  <2>4. QED
    BY <1>8, <2>2, <2>3, CallTakesEffect
<1>9. QED
  BY <1>1, <1>3, <1>4, <1>5, <1>6, <1>7, <1>8, StepShape DEF Cluster

(* A job starts without a pod, and nothing about a pod of it is on its way. *)
LEMMA SubmitOrder ==
    ASSUME OneLife, TypeInv, TypeInv', PodsSeen, LifeInv, LifeInv', NEW j \in Jobs, SubmitJob(j)
    PROVE  OrderOf(j)'
<1> DEFINE p == PodOf[j]
<1>0. p \in Pods
  BY ConstantsAssumption
<1>1. /\ ~HasStarted(j) /\ job'[j].status = ""
      /\ UNCHANGED <<pod, podCache, podEvents, up, worker, late>>
  <2>0. incarnation[j] = 0
    BY SubmitMovesOn
  <2>1. job'[j].status = ""
    BY SubmitMovesOn
  <2>2. UNCHANGED <<pod, podCache, podEvents, up, worker, late>>
    BY DEF SubmitJob
  <2>3. ~HasStarted(j)
    BY <2>0 DEF HasStarted
  <2>4. QED
    BY <2>1, <2>2, <2>3, Zenon
<1>2. ASSUME NEW state, OwnedPod(p, state), PodState(state) PROVE state.phase = ""
  <2>1. state = NoPod
    BY <1>1, <1>2 DEF OwnedPod, PodState, OneLife, DistinctPodNames
  <2>2. QED
    BY <2>1, Nothing
<1>3. podEvents[p] \in Seq(PodObject) /\ Len(podEvents[p]) \in Nat
  <2>1. podEvents \in [Pods -> Seq(PodObject)]
    BY DEF TypeInv, TypeOK
  <2>2. podEvents[p] \in Seq(PodObject)
    BY <1>0, <2>1
  <2>3. QED
    BY <2>2
<1>4. pod[p].phase = "" /\ podCache[p].phase = ""
  BY <1>0, <1>1, <1>2, OwnedStates DEF PodStates, PodsSeen, LifeInv
<1>5. ASSUME NEW i \in 0..Len(podEvents[p]) PROVE PhaseSeen(p, i) = ""
  <2>1. Seen(podCache[p], podEvents[p], i) \in PodStates(p)
    BY <1>3, SeenRange DEF PodStates
  <2>2. QED
    BY <1>0, <1>1, <1>2, <2>1, OwnedStates DEF LifeInv, PhaseSeen
<1>6. Rises(p)'
  <2>1. ASSUME NEW i \in 0..Len(podEvents[p]) PROVE PhaseSeen(p, i)' = ""
    BY <1>1, <1>5, <2>1 DEF PhaseSeen
  <2>2. QED
    BY <1>1, <2>1, ReachesOrder DEF Rises
<1>7. Known(p)'.phase = ""
  BY <1>1, <1>4 DEF Known
<1>8. Reaches(job[j].status, Known(p).phase)'
  BY <1>1, <1>7, ReachesOrder, Zenon
<1>9. ASSUME NEW c, Knows(c), c.key = j PROVE c.pc # "update"
  BY <1>1, <1>9 DEF Knows, Calls
<1>10. QED
  BY <1>1, <1>6, <1>8, <1>9 DEF OrderOf, Lags, LifeInv

(* What lags behind the job now lags behind it after a step. *)
LEMMA LagStays ==
    ASSUME TypeInv, TypeInv', LifeInv, NEW j \in Jobs, IsLive(j),
           JobAdvances(j), Climbs(PodOf[j]),
           NEW c \in WorkerState, c.key = j, Knows(c), Lags(c)
    PROVE  Lags(c)'
<1> SUFFICES ASSUME c.pc = "update" PROVE Lags(c)'
  BY DEF Lags
<1>1. Reaches(c.phase, Known(PodOf[j])'.phase)
  BY ReachesOrder, Zenon DEF Lags, Climbs
<1>2. ASSUME c.seen.ver = job'[j].ver PROVE Reaches(job'[j].status, c.phase)
  <2>1. c.seen.ver <= job[j].ver
    BY DEF Knows, Calls
  <2>2. job[j].ver \in Nat /\ job'[j].ver \in Nat
    BY DEF TypeInv, TypeOK, JobObject
  <2>3. job'[j] = job[j]
    <3>1. ~(job[j].ver < job'[j].ver)
      BY <1>2, <2>1, <2>2
    <3>2. QED
      BY <3>1, Zenon DEF JobAdvances
  <2>4. QED
    BY <1>2, <2>3 DEF Lags
<1>3. QED
  BY <1>1, <1>2 DEF Lags

LEMMA ActingLags ==
    ASSUME NEW j \in Jobs, IsLive(j), OrderOf(j), NEW c, IsActing(c), c.key = j
    PROVE  Lags(c)
  BY DEF IsActing, OrderOf

LEMMA LiveOrder ==
    ASSUME OneLife, TypeInv, TypeInv', PodsSeen, LifeInv, [Next]_vars,
           NEW j \in Jobs, IsLive(j), IsLive(j)', OrderOf(j)
    PROVE  OrderOf(j)'
<1> DEFINE p == PodOf[j]
<1>1. p \in Pods
  BY ConstantsAssumption
<1>2. Climbs(p) /\ JobAdvances(j)
  BY PodClimbs, LiveJobAdvances DEF OrderOf
<1>3. up' => Rises(p)'
  BY <1>2 DEF Climbs
<1>4. Reaches(job[j].status, Known(p)'.phase)
  BY <1>2, ReachesOrder, Zenon DEF Climbs, OrderOf
<1>5. Reaches(job'[j].status, Known(p)'.phase)
  <2>1. CASE job'[j] = job[j] \/ job'[j].status = job[j].status
    BY <1>4, <2>1
  <2>2. ASSUME NEW c, IsActing(c), c.key = j, c.pc = "update", c.phase = job'[j].status
        PROVE  Reaches(job'[j].status, Known(p)'.phase)
    <3>1. Reaches(c.phase, Known(p).phase)
      BY <2>2, ActingLags DEF Lags
    <3>2. QED
      BY <1>2, <2>2, <3>1, ReachesOrder, Zenon DEF Climbs
  <2>3. QED
    BY <1>2, <2>1, <2>2 DEF JobAdvances
<1>6. ASSUME NEW c \in WorkerState, c.key = j, Knows(c), Lags(c) PROVE Lags(c)'
  BY <1>2, <1>6, LagStays
<1>7. ASSUME NEW k \in Kinds, worker'[k].key = j PROVE Lags(worker[k])'
  <2> DEFINE w == worker[k]
  <2>1. w \in WorkerState /\ Knows(w) /\ (w.key = j => Lags(w))
    BY DEF TypeInv, TypeOK, LifeInv, OrderOf
  <2>2. CASE w' = w
    <3>1. PICK c \in WorkerState : c = w
      BY <2>1
    <3>2. c.key = j /\ Knows(c) /\ Lags(c)
      BY <1>7, <2>1, <2>2, <3>1
    <3>3. Lags(c)' /\ w' = c
      BY <1>6, <2>2, <3>1, <3>2
    <3>4. QED
      BY <3>3 DEF Lags
  <2>3. CASE w'.pc \in {"idle", "getJob"}
    BY <2>3 DEF Lags
  <2>4. CASE Reads(k)
    <3>1. w.key = j /\ UNCHANGED <<job, pod, podCache, up>>
      BY <1>7, <2>4 DEF Reads, Rests, apiVars, cacheVars
    <3>2. CASE ReadsJob(k)
      BY <3>2 DEF ReadsJob, Lags
    <3>3. CASE ReadsNoPod(k)
      BY <3>3 DEF ReadsNoPod, Lags
    <3>4. CASE ReadsPod(k)
      <4>1. up /\ w'.phase = podCache[p].phase
        BY <1>1, <3>1, <3>4 DEF ReadsPod, LifeInv
      <4>2. Known(p) = podCache[p] /\ Known(p)' = podCache[p]
        BY <3>1, <4>1 DEF Known
      <4>3. /\ Reaches(w'.phase, Known(PodOf[j])'.phase)
            /\ Reaches(job'[j].status, w'.phase)
        BY <3>1, <4>1, <4>2, ReachesOrder DEF OrderOf
      <4>4. QED
        BY <1>7, <4>3 DEF Lags
    <3>5. QED
      BY <2>4, <3>2, <3>3, <3>4 DEF Reads
  <2>5. QED
    BY <2>2, <2>3, <2>4, WorkersStep DEF WorkerMoves
<1>8. ASSUME NEW c \in late', c.key = j PROVE Lags(c)'
  <2>1. c \in late \/ \E k \in Kinds : c = worker[k]
    BY <1>8, WorkersStep
  <2>2. c \in WorkerState /\ Knows(c)
    BY <2>1 DEF TypeInv, TypeOK, LifeInv
  <2>3. Lags(c)
    BY <1>8, <2>1 DEF OrderOf
  <2>4. QED
    BY <1>6, <1>8, <2>2, <2>3
<1>9. QED
  BY <1>3, <1>5, <1>7, <1>8 DEF OrderOf

LEMMA OrderStep ==
    ASSUME OneLife, TypeInv, TypeInv', PodsSeen, LifeInv, LifeInv', OrderInv, [Next]_vars
    PROVE  OrderInv'
<1>1. ASSUME NEW j \in Jobs, IsLive(j)' PROVE OrderOf(j)'
  <2>1. CASE IsLive(j)
    BY <1>1, <2>1, LiveOrder DEF OrderInv
  <2>2. CASE ~IsLive(j)
    <3>1. ~HasStarted(j)
      BY <1>1, <2>2, ObjectsStep DEF Onward
    <3>2. HasStarted(j)'
      BY <1>1, ObjectsStep, Nothing DEF ObjectsLive, JobState, HasStarted, IsLive
    <3>3. incarnation'[j] # incarnation[j]
      BY <3>1, <3>2 DEF HasStarted
    <3>4. SubmitJob(j)
      <4>1. ASSUME UNCHANGED incarnation PROVE FALSE
        BY <3>3, <4>1
      <4>2. ASSUME NEW i \in Jobs, SubmitJob(i), i # j PROVE FALSE
        BY <3>3, <4>2 DEF SubmitJob, TypeInv, TypeOK
      <4>3. ASSUME NEW i \in Jobs, EditJob(i) \/ DeleteJob(i) PROVE FALSE
        BY <4>1, <4>3 DEF EditJob, DeleteJob
      <4>4. ASSUME NEW q \in Pods, DeletePod(q) \/ CollectPod(q) \/ RunPod(q) PROVE FALSE
        BY <4>1, <4>4 DEF DeletePod, CollectPod, RunPod
      <4>5. ASSUME Rests \/ Dies \/ Restart PROVE FALSE
        BY <4>1, <4>5 DEF Rests, Dies, Restart, apiVars
      <4>6. ASSUME NEW c, Takes(c) PROVE FALSE
        BY <4>1, <4>6, CallTakesEffect
      <4>7. ASSUME NEW i \in Jobs, DeliverJob(i) PROVE FALSE
        BY <4>1, <4>7 DEF DeliverJob, apiVars
      <4>8. ASSUME NEW q \in Pods, DeliverPod(q) PROVE FALSE
        BY <4>1, <4>8 DEF DeliverPod, apiVars
      <4>9. QED
        BY <4>2, <4>3, <4>4, <4>5, <4>6, <4>7, <4>8, StepShape DEF Cluster
    <3>5. QED
      BY <3>4, SubmitOrder
  <2>3. QED
    BY <2>1, <2>2
<1>2. ASSUME NEW j \in Jobs, ~IsLive(j)' PROVE OrderOf(j)'
  BY <1>2 DEF OrderOf
<1>3. QED
  BY <1>1, <1>2 DEF OrderInv

LEMMA InitRefinement == OneLife /\ Init => RefinementInv
<1> SUFFICES ASSUME OneLife, Init PROVE RefinementInv
  OBVIOUS
<1>1. /\ \A j \in Jobs : job[j] = NoJob /\ jobCache[j] = NoJob /\ jobEvents[j] = <<>>
                         /\ incarnation[j] = 0
      /\ \A p \in Pods : pod[p] = NoPod /\ podCache[p] = NoPod /\ podEvents[p] = <<>>
      /\ \A k \in Kinds : worker[k].pc = "idle"
      /\ late = {}
  BY IdleWorker DEF Init
<1>2. budget.deletions = 0
  BY DEF Init, OneLife
<1>3. LifeInv
  <2>1. ASSUME NEW j \in Jobs
        PROVE  incarnation[j] <= 1 /\ \A state \in JobStates(j) \cup {job[j]} : JobState(j, state)
    BY <1>1, EmptyRange DEF JobStates, JobState
  <2>2. ASSUME NEW p \in Pods
        PROVE  /\ \A state \in PodStates(p) \cup {pod[p]} : PodState(state)
               /\ podCache[p] = NoPod /\ podEvents[p] = <<>>
    BY <1>1, EmptyRange DEF PodStates, PodState
  <2>3. \A k \in Kinds : Knows(worker[k])
    BY <1>1, Zenon DEF Knows, Calls
  <2>4. QED
    BY <1>1, <1>2, <2>1, <2>2, <2>3 DEF LifeInv
<1>4. OrderInv
  BY <1>1, Nothing DEF OrderInv, OrderOf, IsLive
<1>5. QED
  BY <1>3, <1>4, InitAttention DEF RefinementInv

LEMMA NextRefinement ==
    ASSUME OneLife, RefinementInv, [Next]_vars
    PROVE  RefinementInv'
<1>1. AttentionInv'
  BY NextAttention DEF RefinementInv
<1>2. TypeInv /\ TypeInv' /\ PodsSeen
  BY <1>1 DEF RefinementInv, AttentionInv
<1>3. LifeInv'
  BY <1>2, LifeStep DEF RefinementInv
<1>4. OrderInv'
  BY <1>2, <1>3, OrderStep DEF RefinementInv
<1>5. QED
  BY <1>1, <1>3, <1>4 DEF RefinementInv

LEMMA OrderSuffices == RefinementInv => StatusBehindPod
<1> SUFFICES ASSUME RefinementInv, NEW j \in Jobs, IsLive(j)
             PROVE  Reaches(job[j].status, pod[PodOf[j]].phase)
  BY DEF StatusBehindPod, Reaches
<1>1. PodOf[j] \in Pods
  BY ConstantsAssumption
<1>2. /\ up => Rises(PodOf[j])
      /\ Reaches(job[j].status, Known(PodOf[j]).phase)
  BY DEF RefinementInv, OrderInv, OrderOf
<1>3. Reaches(Known(PodOf[j]).phase, pod[PodOf[j]].phase)
  BY <1>1, <1>2, KnownBehindPod DEF RefinementInv, AttentionInv
<1>4. QED
  BY <1>2, <1>3, ReachesOrder, Zenon

LEMMA StatusAdvances ==
    ASSUME RefinementInv, [Next]_vars, NEW j \in Jobs, job'[j].uid = job[j].uid,
           RefinementInv'
    PROVE  Rank(job[j].status) <= Rank(job'[j].status)
<1>1. CASE ~IsLive(j)
  <2>1. job[j] = NoJob /\ job'[j] = NoJob
    BY <1>1 DEF RefinementInv, LifeInv, JobState, IsLive
  <2>2. QED
    BY <2>1, RankRange
<1>2. CASE IsLive(j)
  <2>1. JobAdvances(j) /\ OrderOf(j)
    BY <1>2, LiveJobAdvances DEF RefinementInv, AttentionInv, OrderInv, IsLive
  <2>2. CASE job'[j] = job[j] \/ job'[j].status = job[j].status
    BY <2>2, RankRange
  <2>3. ASSUME NEW c, IsActing(c), c.key = j, c.pc = "update",
               c.phase = job'[j].status, c.seen.ver = job[j].ver
        PROVE  Reaches(job[j].status, job'[j].status)
    BY <1>2, <2>1, <2>3, ActingLags DEF Lags
  <2>4. QED
    BY <2>1, <2>2, <2>3, ReachesOrder DEF JobAdvances
<1>3. QED
  BY <1>1, <1>2

(* A job's status never claims more than its pod has reached, whatever the *)
(* operator read from its lagging caches, however often it crashed and     *)
(* whichever of its old calls still arrive.                                *)
THEOREM StatusIsBehindPod == OneLife => (Spec => []StatusBehindPod)
<1> SUFFICES ASSUME OneLife PROVE Spec => []StatusBehindPod
  OBVIOUS
<1>1. Init => RefinementInv
  BY InitRefinement
<1>2. RefinementInv /\ [Next]_vars => RefinementInv'
  BY NextRefinement
<1>3. RefinementInv => StatusBehindPod
  BY OrderSuffices
<1>4. QED
  BY <1>1, <1>2, <1>3, PTL DEF Spec

(* The status of a job never goes back while the job lives, even when the  *)
(* update of a dead process arrives after those of its successor.          *)
THEOREM StatusIsMonotonic == OneLife => (Spec => StatusNeverRegresses)
<1> SUFFICES ASSUME OneLife PROVE Spec => StatusNeverRegresses
  OBVIOUS
<1>1. Init => RefinementInv
  BY InitRefinement
<1>2. RefinementInv /\ [Next]_vars => RefinementInv'
  BY NextRefinement
<1>3. RefinementInv /\ RefinementInv' /\ [Next]_vars
        => [\A j \in Jobs : job'[j].uid = job[j].uid
                               => Rank(job[j].status) <= Rank(job'[j].status)]_vars
  BY StatusAdvances
<1>4. QED
  BY <1>1, <1>2, <1>3, PTL DEF Spec, StatusNeverRegresses

----------------------------------------------------------------------------
(* The refinement *)

Statuses == [j \in Jobs |-> job[j].status]
PodPhases == [j \in Jobs |-> pod[PodOf[j]].phase]

LEMMA SameRank == Lifecycle!Phases = Phases /\ \A p : Lifecycle!Rank(p) = Rank(p)
<1>1. Lifecycle!Phases = Phases
  BY DEF Lifecycle!Phases, Phases
<1>2. \A p : Lifecycle!Rank(p) = Rank(p)
  BY Zenon DEF Lifecycle!Rank, Rank
<1>3. QED
  BY <1>1, <1>2

(* The life of a job. *)
LEMMA LifeValues ==
    ASSUME LifeInv, NEW j \in Jobs
    PROVE  /\ Life[j] = "none" <=> incarnation[j] = 0
           /\ Life[j] = "live" <=> IsLive(j)
           /\ HasStarted(j) /\ ~IsLive(j) => Life[j] = "deleted"
<1>1. IsLive(j) => incarnation[j] = 1
  BY LiveHasStarted DEF HasStarted
<1>2. Life[j] = IF incarnation[j] = 0 THEN "none" ELSE IF IsLive(j) THEN "live" ELSE "deleted"
  BY DEF Life
<1>3. QED
  BY <1>1, <1>2 DEF HasStarted

LEMMA SameLife ==
    ASSUME NEW j \in Jobs, incarnation'[j] = incarnation[j], IsLive(j)' <=> IsLive(j)
    PROVE  Life'[j] = Life[j]
  BY DEF Life

(* One job or one pod changes at a time. *)
LEMMA OthersKept ==
    ASSUME NEW j \in Jobs, \A i \in Jobs : i # j => job'[i] = job[i] /\ incarnation'[i] = incarnation[i]
    PROVE  /\ Life' = [Life EXCEPT ![j] = Life'[j]]
           /\ Statuses' = [Statuses EXCEPT ![j] = job'[j].status]
<1>1. \A i \in Jobs : i # j => Life'[i] = Life[i]
  BY SameLife DEF IsLive
<1>2. Life = [i \in Jobs |-> Life[i]] /\ Life' = [i \in Jobs |-> Life'[i]]
  BY DEF Life
<1>3. Life' = [Life EXCEPT ![j] = Life'[j]]
  BY <1>1, <1>2
<1>4. Statuses' = [Statuses EXCEPT ![j] = job'[j].status]
  BY DEF Statuses
<1>5. QED
  BY <1>3, <1>4

LEMMA PodsKept ==
    ASSUME OneLife, NEW j \in Jobs, \A p \in Pods : p # PodOf[j] => pod'[p] = pod[p]
    PROVE  PodPhases' = [PodPhases EXCEPT ![j] = pod'[PodOf[j]].phase]
<1>1. ASSUME NEW i \in Jobs, i # j PROVE pod'[PodOf[i]] = pod[PodOf[i]]
  BY <1>1, ConstantsAssumption DEF OneLife, DistinctPodNames
<1>2. QED
  BY <1>1 DEF PodPhases

LEMMA ObjectsKept ==
    /\ UNCHANGED job => UNCHANGED Statuses
    /\ UNCHANGED pod => UNCHANGED PodPhases
    /\ UNCHANGED <<job, incarnation>> => UNCHANGED Life
  BY DEF Statuses, PodPhases, Life, IsLive

Implements == [Lifecycle!Next]_(Lifecycle!vars)

LEMMA StutterImplements ==
    ASSUME UNCHANGED <<Life, Statuses, PodPhases>>
    PROVE  Implements
  BY DEF Implements, Lifecycle!vars, Statuses, PodPhases

LEMMA SubmitImplements ==
    ASSUME OneLife, RefinementInv, RefinementInv', NEW j \in Jobs, SubmitJob(j)
    PROVE  Implements
<1>1. LifeInv /\ LifeInv' /\ TypeInv /\ PodsSeen
  BY DEF RefinementInv, AttentionInv
<1>2. /\ incarnation[j] = 0 /\ IsLive(j)'
      /\ \A i \in Jobs : i # j => job'[i] = job[i] /\ incarnation'[i] = incarnation[i]
      /\ UNCHANGED pod
  <2>1. incarnation[j] = 0 /\ HasStarted(j)'
    BY <1>1, SubmitMovesOn
  <2>2. PICK spec : StoreJob(j, NewJob(1, spec))
    BY <2>1 DEF SubmitJob
  <2>3. job'[j].uid = 1
    BY <1>1, <2>2 DEF StoreJob, NewJob, TypeInv, TypeOK
  <2>4. \A i \in Jobs : i # j => job'[i] = job[i] /\ incarnation'[i] = incarnation[i]
    BY <1>1, <2>2 DEF SubmitJob, StoreJob, TypeInv, TypeOK
  <2>5. QED
    BY <2>1, <2>3, <2>4 DEF SubmitJob, IsLive
<1>3. job[j] = NoJob
  BY <1>1 DEF SubmitJob, LifeInv, JobState, IsLive
<1>4. job'[j].status = job[j].status
  <2>1. job'[j].status = ""
    BY <1>1, SubmitMovesOn
  <2>2. QED
    BY <1>3, <2>1, Nothing, Zenon
<1>5. Life[j] = "none" /\ Life'[j] = "live"
  <2>1. Life[j] = "none"
    BY <1>1, <1>2, LifeValues
  <2>2. Life'[j] = "live"
    <3>1. incarnation'[j] # 0
      BY <1>1, <1>2, Nothing DEF LifeInv, JobState, IsLive, HasStarted
    <3>2. QED
      BY <1>2, <3>1 DEF Life
  <2>3. QED
    BY <2>1, <2>2
<1>6. Life' = [Life EXCEPT ![j] = "live"]
  BY <1>2, <1>5, OthersKept
<1>7. UNCHANGED <<Statuses, PodPhases>>
  BY <1>2, <1>4, ObjectsKept DEF Statuses
<1>8. Lifecycle!Submit(j)
  BY <1>5, <1>6, <1>7 DEF Lifecycle!Submit, Statuses, PodPhases
<1>9. QED
  BY <1>8 DEF Implements, Lifecycle!Next

LEMMA DeleteImplements ==
    ASSUME RefinementInv, NEW j \in Jobs, DeleteJob(j)
    PROVE  Implements
<1>1. LifeInv /\ TypeInv
  BY DEF RefinementInv, AttentionInv
<1>2. /\ IsLive(j) /\ job'[j] = NoJob
      /\ \A i \in Jobs : i # j => job'[i] = job[i] /\ incarnation'[i] = incarnation[i]
      /\ UNCHANGED <<pod, incarnation>>
  BY <1>1 DEF DeleteJob, StoreJob, TypeInv, TypeOK
<1>3. Life[j] = "live" /\ incarnation[j] = 1
  BY <1>1, <1>2, LifeValues, LiveHasStarted DEF HasStarted
<1>4. Life'[j] = "deleted"
  BY <1>2, <1>3, Nothing DEF Life, IsLive
<1>5. Life' = [Life EXCEPT ![j] = "deleted"]
  BY <1>2, <1>4, OthersKept
<1>6. Statuses' = [Statuses EXCEPT ![j] = NoJob.status]
  BY <1>2, OthersKept
<1>7. NoJob.status = ""
  BY Nothing
<1>8. Lifecycle!Delete(j)
  BY <1>2, <1>3, <1>5, <1>6, <1>7, ObjectsKept, Zenon
     DEF Lifecycle!Delete, Statuses, PodPhases
<1>9. QED
  BY <1>8 DEF Implements, Lifecycle!Next

LEMMA EditImplements ==
    ASSUME RefinementInv, NEW j \in Jobs, EditJob(j)
    PROVE  Implements
<1>1. TypeInv
  BY DEF RefinementInv, AttentionInv
<1>2. PICK spec \in SpecsOf[j] :
        job' = [job EXCEPT ![j] = [job[j] EXCEPT !.spec = spec, !.ver = @ + 1]]
  BY DEF EditJob, StoreJob
<1>3. UNCHANGED <<pod, incarnation>>
  BY DEF EditJob
<1>4. \A i \in Jobs : job'[i].status = job[i].status /\ job'[i].uid = job[i].uid
  BY <1>1, <1>2 DEF TypeInv, TypeOK, JobObject
<1>5. UNCHANGED <<Life, Statuses, PodPhases>>
  BY <1>3, <1>4, ObjectsKept DEF Life, Statuses, IsLive
<1>6. QED
  BY <1>5, StutterImplements

(* The pod of a job: that job made it, and no other could have. *)
LEMMA PodOwner ==
    ASSUME RefinementInv, NEW p \in Pods, Exists(p)
    PROVE  /\ pod[p].owner \in Jobs /\ PodOf[pod[p].owner] = p
           /\ HasStarted(pod[p].owner) /\ pod[p].uid = 1
  BY Nothing DEF RefinementInv, AttentionInv, PodsSeen, OwnedPod, LifeInv, PodState, Exists

LEMMA StorePodPhases ==
    ASSUME OneLife, TypeInv, NEW j \in Jobs, NEW state, StorePod(PodOf[j], state)
    PROVE  PodPhases' = [PodPhases EXCEPT ![j] = state.phase]
<1>1. PodOf[j] \in Pods
  BY ConstantsAssumption
<1>2. pod'[PodOf[j]] = state /\ \A p \in Pods : p # PodOf[j] => pod'[p] = pod[p]
  BY <1>1 DEF StorePod, TypeInv, TypeOK
<1>3. QED
  BY <1>2, PodsKept

LEMMA CollectImplements ==
    ASSUME OneLife, RefinementInv, NEW p \in Pods, CollectPod(p)
    PROVE  Implements
<1>1. LifeInv /\ TypeInv /\ Exists(p) /\ UNCHANGED <<job, incarnation>>
  BY DEF RefinementInv, AttentionInv, CollectPod
<1>2. PICK j \in Jobs : /\ j = pod[p].owner /\ PodOf[j] = p
                       /\ HasStarted(j) /\ pod[p].uid = 1
  BY <1>1, PodOwner
<1>3. ~IsLive(j)
  BY <1>1, <1>2, LiveHasStarted DEF CollectPod
<1>4. Life[j] = "deleted"
  BY <1>1, <1>2, <1>3, LifeValues
<1>5. PodPhases' = [PodPhases EXCEPT ![j] = NoPod.phase]
  BY <1>1, <1>2, StorePodPhases DEF CollectPod
<1>6. NoPod.phase = "" /\ PodPhases[j] # ""
  BY <1>1, <1>2, Nothing DEF PodPhases, Exists
<1>7. Lifecycle!Collect(j)
  BY <1>1, <1>4, <1>5, <1>6, ObjectsKept, Zenon DEF Lifecycle!Collect, Statuses, PodPhases
<1>8. QED
  BY <1>2, <1>7 DEF Implements, Lifecycle!Next

LEMMA RunImplements ==
    ASSUME OneLife, RefinementInv, NEW p \in Pods, RunPod(p)
    PROVE  Implements
<1>1. TypeInv /\ Exists(p) /\ UNCHANGED <<job, incarnation>>
  BY DEF RefinementInv, AttentionInv, RunPod
<1>2. PICK j \in Jobs : PodOf[j] = p
  BY <1>1, PodOwner
<1>3. PICK phase \in Phases : /\ Rank(phase) > Rank(pod[p].phase)
                              /\ StorePod(p, [pod[p] EXCEPT !.phase = phase])
  BY DEF RunPod
<1>4. [pod[p] EXCEPT !.phase = phase].phase = phase
  BY <1>1 DEF TypeInv, TypeOK, PodObject
<1>5. PodPhases' = [PodPhases EXCEPT ![j] = phase]
  BY <1>1, <1>2, <1>3, <1>4, StorePodPhases
<1>6. PodPhases[j] # ""
  BY <1>1, <1>2 DEF PodPhases, Exists
<1>7. PodPhases[j] = pod[p].phase
  BY <1>2 DEF PodPhases
<1>8. Lifecycle!Rank(phase) > Lifecycle!Rank(PodPhases[j]) /\ phase \in Lifecycle!Phases
  BY <1>3, <1>7, SameRank, Zenon
<1>9. Lifecycle!Advance(j)
  BY <1>1, <1>5, <1>6, <1>8, ObjectsKept, Zenon DEF Lifecycle!Advance, Statuses, PodPhases
<1>10. QED
  BY <1>2, <1>9 DEF Implements, Lifecycle!Next

LEMMA CallImplements ==
    ASSUME OneLife, RefinementInv, NEW c, Takes(c)
    PROVE  Implements
<1> DEFINE j == c.key
<1>1. LifeInv /\ TypeInv /\ OrderInv
  BY DEF RefinementInv, AttentionInv
<1>2. j \in Jobs /\ c \in WorkerState /\ IsActing(c) /\ HasStarted(j) /\ UNCHANGED incarnation
  BY <1>1, CallTakesEffect DEF Takes
<1>3. CASE UNCHANGED <<job, pod>>
  BY <1>2, <1>3, ObjectsKept, StutterImplements
<1>4. CASE /\ ~Exists(PodOf[j]) /\ StorePod(PodOf[j], NewPod(j, 1)) /\ UNCHANGED job
  <2>1. Life[j] # "none"
    BY <1>1, <1>2, LifeValues DEF HasStarted
  <2>2. NewPod(j, 1).phase = "Pending"
    BY DEF NewPod
  <2>3. PodPhases' = [PodPhases EXCEPT ![j] = "Pending"]
    BY <1>1, <1>2, <1>4, <2>2, StorePodPhases
  <2>4. PodPhases[j] = ""
    BY <1>2, <1>4 DEF PodPhases, Exists
  <2>5. Lifecycle!StartPod(j)
    BY <1>2, <1>4, <2>1, <2>3, <2>4, ObjectsKept, Zenon
       DEF Lifecycle!StartPod, Statuses, PodPhases
  <2>6. QED
    BY <1>2, <2>5 DEF Implements, Lifecycle!Next
<1>5. CASE /\ c.pc = "update" /\ IsLive(j) /\ c.phase # "" /\ c.seen.ver = job[j].ver
           /\ StoreJob(j, Updated(c)) /\ job[j].status # c.phase /\ UNCHANGED pod
  <2>1. /\ job'[j].status = c.phase /\ job'[j].uid = job[j].uid
        /\ \A i \in Jobs : i # j => job'[i] = job[i]
    BY <1>1, <1>2, <1>5, UpdatedType DEF StoreJob, TypeInv, TypeOK
  <2>2. Life[j] = "live"
    BY <1>1, <1>2, <1>5, LifeValues
  <2>3. UNCHANGED Life
    BY <1>2, <2>1 DEF Life, IsLive
  <2>4. Statuses' = [Statuses EXCEPT ![j] = c.phase]
    BY <1>2, <2>1, OthersKept
  <2>5. Lags(c) /\ (up => Rises(PodOf[j])) /\ PodOf[j] \in Pods
    BY <1>1, <1>2, <1>5, ActingLags, ConstantsAssumption DEF OrderInv, OrderOf
  <2>6. Reaches(job[j].status, c.phase) /\ Reaches(c.phase, pod[PodOf[j]].phase)
    <3>1. Reaches(Known(PodOf[j]).phase, pod[PodOf[j]].phase)
      BY <2>5, KnownBehindPod DEF RefinementInv, AttentionInv
    <3>2. Reaches(job[j].status, c.phase) /\ Reaches(c.phase, Known(PodOf[j]).phase)
      BY <1>5, <2>5 DEF Lags
    <3>3. QED
      BY <3>1, <3>2, ReachesOrder, Zenon
  <2>7. Statuses[j] = job[j].status /\ PodPhases[j] = pod[PodOf[j]].phase
    BY <1>2 DEF Statuses, PodPhases
  <2>8. Rank(c.phase) > Rank(Statuses[j])
    BY <1>5, <2>6, <2>7, RankRange DEF Reaches
  <2>9. Rank(c.phase) < Rank(PodPhases[j]) \/ c.phase = PodPhases[j]
    BY <2>6, <2>7 DEF Reaches
  <2>10. c.phase \in Lifecycle!Phases
    BY <1>2, <1>5, SameRank DEF WorkerState
  <2>11. Lifecycle!Rank(c.phase) > Lifecycle!Rank(Statuses[j])
         /\ (Lifecycle!Rank(c.phase) < Lifecycle!Rank(PodPhases[j]) \/ c.phase = PodPhases[j])
    BY <2>8, <2>9, SameRank, Zenon
  <2>12. Lifecycle!Report(j)
    BY <1>5, <2>2, <2>3, <2>4, <2>10, <2>11, ObjectsKept, Zenon
       DEF Lifecycle!Report, Statuses, PodPhases
  <2>13. QED
    BY <1>2, <2>12 DEF Implements, Lifecycle!Next
<1>6. QED
  BY <1>1, <1>3, <1>4, <1>5, CallTakesEffect

LEMMA StepImplements ==
    ASSUME OneLife, RefinementInv, RefinementInv', [Next]_vars
    PROVE  Implements
<1>1. TypeInv
  BY DEF RefinementInv, AttentionInv
<1>2. ASSUME UNCHANGED <<job, pod, incarnation>> PROVE Implements
  BY <1>2, ObjectsKept, StutterImplements
<1>3. ASSUME NEW j \in Jobs, SubmitJob(j) \/ EditJob(j) \/ DeleteJob(j) PROVE Implements
  BY <1>3, SubmitImplements, EditImplements, DeleteImplements
<1>4. ASSUME NEW p \in Pods, DeletePod(p) \/ CollectPod(p) \/ RunPod(p) PROVE Implements
  <2>1. ~DeletePod(p)
    BY DEF DeletePod, RefinementInv, LifeInv
  <2>2. QED
    BY <1>4, <2>1, CollectImplements, RunImplements
<1>5. CASE Rests \/ Dies \/ Restart
  BY <1>2, <1>5 DEF Rests, Dies, Restart, apiVars
<1>6. ASSUME NEW c, Takes(c) PROVE Implements
  BY <1>6, CallImplements
<1>7. ASSUME NEW j \in Jobs, DeliverJob(j) PROVE Implements
  BY <1>2, <1>7 DEF DeliverJob, apiVars
<1>8. ASSUME NEW p \in Pods, DeliverPod(p) PROVE Implements
  BY <1>2, <1>8 DEF DeliverPod, apiVars
<1>9. QED
  BY <1>1, <1>3, <1>4, <1>5, <1>6, <1>7, <1>8, StepShape DEF Cluster

LEMMA InitImplements == Init => Lifecycle!Init
<1> SUFFICES ASSUME Init PROVE Lifecycle!Init
  OBVIOUS
<1>1. \A j \in Jobs : job[j] = NoJob /\ incarnation[j] = 0 /\ pod[PodOf[j]] = NoPod
  BY ConstantsAssumption DEF Init
<1>2. Life = [j \in Jobs |-> "none"]
  BY <1>1 DEF Life
<1>3. Statuses = [j \in Jobs |-> NoJob.status] /\ PodPhases = [j \in Jobs |-> NoPod.phase]
  BY <1>1 DEF Statuses, PodPhases
<1>4. QED
  BY <1>2, <1>3, Nothing, Zenon DEF Lifecycle!Init, Statuses, PodPhases

(* Every step of the users, the API server, the kubelet, the garbage       *)
(* collector and the operator, its crashes and stale calls included, is a  *)
(* step of the life the operator promises to a job, or changes nothing of  *)
(* it: one pod is started for a job, its status takes the phases of that   *)
(* pod in their order and never before the pod does, and a pod goes only   *)
(* after its job.                                                          *)
THEOREM OperatorImplementsLifecycle == OneLife => (Spec => Lifecycle!Spec)
<1> SUFFICES ASSUME OneLife PROVE Spec => Lifecycle!Spec
  OBVIOUS
<1>1. Init => RefinementInv /\ Lifecycle!Init
  BY InitRefinement, InitImplements
<1>2. RefinementInv /\ [Next]_vars => RefinementInv'
  BY NextRefinement
<1>3. RefinementInv /\ RefinementInv' /\ [Next]_vars => [Lifecycle!Next]_(Lifecycle!vars)
  BY StepImplements DEF Implements
<1>4. QED
  BY <1>1, <1>2, <1>3, PTL DEF Spec, Lifecycle!Spec
=============================================================================
