---------------------------- MODULE SharedCache ----------------------------
(***************************************************************************)
(* The generated client code of the operator's API: the informer factory,  *)
(* its informers and listers, the typed clients and the deep copies of     *)
(* SlurmJob and WlmJob.  Goroutines that use the code ask the factory for  *)
(* an informer, start it, wait for its cache, read jobs from the cache     *)
(* with a lister, copy a job before they change it and write it back.  The *)
(* API server and the reflector of client-go are external.                 *)
(*                                                                         *)
(* A job in memory is its resource version and a cell for each part that   *)
(* is reached by a reference; what a goroutine wrote is the set "edited"   *)
(* of cells.  The server has changes[k], the writes of kind k in order;    *)
(* the resource version of a job is the place of the write that made it.   *)
(***************************************************************************)
EXTENDS Naturals, Sequences, FiniteSets

CONSTANTS Names,      \* the names of jobs
          Users,      \* the goroutines that use the factory
          MaxWrites,  \* bound: writes that reach the server
          MaxBreaks   \* bound: watches that break

ASSUME BoundsAssumption == MaxWrites \in Nat /\ MaxBreaks \in Nat

VARIABLES changes, server,                   \* the API server
          informers, startedInformers, runs, \* sharedInformerFactory
          phase, cache, lists, seen, breaks, \* one informer for each kind
          stopped,                           \* stopCh is closed
          user, edited                       \* goroutines, and cells they wrote

store == <<changes, server>>
factory == <<informers, startedInformers, runs>>
informer == <<phase, cache, lists, seen, breaks>>
vars == <<store, factory, informer, stopped, user, edited>>

Kinds == {"SlurmJob", "WlmJob"}

\* The parts of a job behind a reference; apimachinery copies the metadata.
SlurmJobSpec == {"nodeSelector", "prepare", "results"}
WlmJobSpec == {"binds", "nodeSelector", "results"}
Parts(k) == IF k = "SlurmJob" THEN SlurmJobSpec ELSE WlmJobSpec

(* The parts DeepCopyInto allocates anew; *out = *in shares every other one.
   SlurmJobSpec has no code for Prepare. *)
CopiedSlurmJobSpec == {"nodeSelector", "results"}
CopiedWlmJobSpecNoBinds == {"nodeSelector", "results"} \* faulty: Binds stay shared
CopiedWlmJobSpec == {"binds", "nodeSelector", "results"}
Copied(k) == IF k = "SlurmJob" THEN CopiedSlurmJobSpec ELSE CopiedWlmJobSpec

Absent == 0
Versions == 1 .. MaxWrites

\* The job the informer of kind k decoded, in its list or in an event of its watch.
Cached(k, n) == [kind |-> k, name |-> n, version |-> cache[k][n],
                 parts |-> [p \in Parts(k) |-> <<k, n, lists[k], cache[k][n], p>>]]

\* A job in memory that goroutine u alone reaches.
Own(u, k, n, v) == [kind |-> k, name |-> n, version |-> v,
                    parts |-> [p \in Parts(k) |-> <<u, p>>]]

Nothing == [kind |-> "none"]

\* A cell that a cached job or a goroutine's job still reaches.
IsReached(c) ==
  \/ \E k \in Kinds, n \in Names : \E p \in Parts(k) :
       cache[k][n] /= Absent /\ Cached(k, n).parts[p] = c
  \/ \E u \in Users : /\ user[u].job /= Nothing
                      /\ \E p \in Parts(user[u].job.kind) : user[u].job.parts[p] = c
Collect == edited' = {c \in edited : IsReached(c)'}

Init ==
  /\ changes = [k \in Kinds |-> <<>>]
  /\ server = [k \in Kinds |-> [n \in Names |-> Absent]]
  /\ informers = {}
  /\ startedInformers = {}
  /\ runs = [k \in Kinds |-> 0]
  /\ phase = [k \in Kinds |-> "idle"]
  /\ cache = [k \in Kinds |-> [n \in Names |-> Absent]]
  /\ lists = [k \in Kinds |-> 0]
  /\ seen = [k \in Kinds |-> 0]
  /\ breaks = 0
  /\ stopped = FALSE
  /\ user = [u \in Users |-> [pc |-> "new", kind |-> "none", awaits |-> {}, job |-> Nothing]]
  /\ edited = {}

-----------------------------------------------------------------------------
(* The factory: every operation holds f.lock while it uses the maps. *)

IsAt(u, pc) == user[u].pc = pc
Goto(u, pc) == user' = [user EXCEPT ![u].pc = pc]

\* InformerFor: an informer that exists is returned, or a new one is kept.
Requested(k) == informers' = informers \cup {k}

InformerFor(u, k) ==
  /\ IsAt(u, "new")
  /\ Requested(k)
  /\ user' = [user EXCEPT ![u].pc = "requested", ![u].kind = k]
  /\ UNCHANGED <<store, startedInformers, runs, informer, stopped, edited>>

\* A lister that is asked for when the factory has been started already.
LateInformerFor(u, k) ==
  /\ IsAt(u, "ready")
  /\ k \notin informers
  /\ Requested(k)
  /\ UNCHANGED <<store, startedInformers, runs, informer, stopped, user, edited>>

\* The informers Start runs.
ToStartAgain == informers \* faulty: started informers are run again
ToStart == informers \ startedInformers
Start(u) ==
  /\ IsAt(u, "requested")
  /\ runs' = [k \in Kinds |-> runs[k] + (IF k \in ToStart THEN 1 ELSE 0)]
  /\ phase' = [k \in Kinds |-> IF k \in ToStart THEN "list" ELSE phase[k]]
  /\ startedInformers' = informers
  /\ Goto(u, "started")
  /\ UNCHANGED <<store, informers, cache, lists, seen, breaks, stopped, edited>>

\* WaitForCacheSync: which informers it waits for is settled under the lock.
ToAwaitRequested == informers \* faulty: also those never started
ToAwaitFilled == {k \in informers : lists[k] > 0} \* faulty: only those filled already
ToAwait == informers \cap startedInformers
WaitForCacheSync(u) ==
  /\ IsAt(u, "started")
  /\ user' = [user EXCEPT ![u].pc = "waiting", ![u].awaits = ToAwait]
  /\ UNCHANGED <<store, factory, informer, stopped, edited>>

HasSynced(k) == lists[k] > 0

Synced(u) ==
  /\ IsAt(u, "waiting")
  /\ \A k \in user[u].awaits : HasSynced(k)
  /\ Goto(u, "ready")
  /\ UNCHANGED <<store, factory, informer, stopped, edited>>

\* The channel is closed before the caches are filled: the result says false.
NotSynced(u) ==
  /\ IsAt(u, "waiting")
  /\ stopped
  /\ Goto(u, "done")
  /\ UNCHANGED <<store, factory, informer, stopped, edited>>

Stop ==
  /\ ~stopped
  /\ stopped' = TRUE
  /\ UNCHANGED <<store, factory, informer, user, edited>>

-----------------------------------------------------------------------------
(* An informer: client-go's reflector calls ListFunc and WatchFunc.          *)

\* ListFunc: the jobs of the kind, and the place in the changes they stand for.
List(k) ==
  /\ phase[k] = "list"
  /\ ~stopped
  /\ cache' = [cache EXCEPT ![k] = server[k]]
  /\ lists' = [lists EXCEPT ![k] = @ + 1]
  /\ seen' = [seen EXCEPT ![k] = Len(changes[k])]
  /\ phase' = [phase EXCEPT ![k] = "watch"]
  /\ UNCHANGED <<store, factory, breaks, stopped, user>>
  /\ Collect

\* WatchFunc: options carry the resource version of the list to the server.
FirstOfWatchNow(k) == Len(changes[k]) \* faulty: from the present on
FirstOfWatch(k) == seen[k]
Watch(k) ==
  /\ phase[k] = "watch"
  /\ ~stopped
  /\ seen' = [seen EXCEPT ![k] = FirstOfWatch(k)]
  /\ phase' = [phase EXCEPT ![k] = "events"]
  /\ UNCHANGED <<store, factory, cache, lists, breaks, stopped, user, edited>>

Event(k) ==
  /\ phase[k] = "events"
  /\ ~stopped
  /\ seen[k] < Len(changes[k])
  /\ LET e == changes[k][seen[k] + 1]
     IN  cache' = [cache EXCEPT ![k][e.name] = e.version]
  /\ seen' = [seen EXCEPT ![k] = @ + 1]
  /\ UNCHANGED <<store, factory, phase, lists, breaks, stopped, user>>
  /\ Collect

\* The connection of the watch ends and the reflector lists again.
Break(k) ==
  /\ phase[k] = "events"
  /\ ~stopped
  /\ breaks < MaxBreaks
  /\ breaks' = breaks + 1
  /\ phase' = [phase EXCEPT ![k] = "list"]
  /\ UNCHANGED <<store, factory, cache, lists, seen, stopped, user, edited>>

-----------------------------------------------------------------------------
(* The typed clients' writes, as the server takes them. *)

MayWrite == Len(changes["SlurmJob"]) + Len(changes["WlmJob"]) < MaxWrites
NewVersion(k) == Len(changes[k]) + 1

Write(k, n, v) ==
  /\ MayWrite
  /\ changes' = [changes EXCEPT ![k] = Append(@, [name |-> n, version |-> v])]
  /\ server' = [server EXCEPT ![k][n] = v]

Others == UNCHANGED <<factory, informer, stopped, user, edited>>

Create(k, n) == server[k][n] = Absent /\ Write(k, n, NewVersion(k)) /\ Others
Patch(k, n) == server[k][n] /= Absent /\ Write(k, n, NewVersion(k)) /\ Others
Delete(k, n) == server[k][n] /= Absent /\ Write(k, n, Absent) /\ Others

-----------------------------------------------------------------------------
(* Goroutines that read, copy and write back a job. *)

Hold(u, pc, job) == user' = [user EXCEPT ![u].pc = pc, ![u].job = job]

\* Lister: the pointer that is in the cache; NotFound where there is none.
ListerGet(u, n) ==
  LET k == user[u].kind
  IN  /\ IsAt(u, "ready")
      /\ cache[k][n] /= Absent
      /\ Hold(u, "holding", Cached(k, n))
      /\ UNCHANGED <<store, factory, informer, stopped, edited>>

\* Get and List of the typed client decode into a new object.
ClientGet(u, n) ==
  LET k == user[u].kind
  IN  /\ IsAt(u, "ready")
      /\ server[k][n] /= Absent
      /\ Hold(u, "copied", Own(u, k, n, server[k][n]))
      /\ UNCHANGED <<store, factory, informer, stopped, edited>>

\* What DeepCopy returns for a job.
CopyFor(u, job) ==
  [job EXCEPT !.parts = [p \in Parts(job.kind) |->
                           IF p \in Copied(job.kind) THEN <<u, p>> ELSE job.parts[p]]]

DeepCopy(u) ==
  LET job == user[u].job
  IN  /\ IsAt(u, "holding")
      /\ Hold(u, "copied", CopyFor(u, job))
      /\ edited' = edited \cup {<<u, p>> : p \in {q \in Copied(job.kind) : job.parts[q] \in edited}}
      /\ UNCHANGED <<store, factory, informer, stopped>>

Edit(u, p) ==
  /\ IsAt(u, "copied")
  /\ p \in Parts(user[u].job.kind)
  /\ Goto(u, "edited")
  /\ edited' = edited \cup {user[u].job.parts[p]}
  /\ UNCHANGED <<store, factory, informer, stopped>>

\* The goroutine lets go of its job.
Release(u) == Hold(u, "ready", Nothing)

\* Update and UpdateStatus: taken if the job is still as it was read.
IsCurrent(job) == server[job.kind][job.name] = job.version
Update(u) ==
  LET job == user[u].job
  IN  /\ IsAt(u, "edited")
      /\ IsCurrent(job)
      /\ Write(job.kind, job.name, NewVersion(job.kind))
      /\ Release(u)
      /\ UNCHANGED <<factory, informer, stopped>>
      /\ Collect

\* Conflict or NotFound.
UpdateRefused(u) ==
  /\ IsAt(u, "edited")
  /\ ~IsCurrent(user[u].job)
  /\ Release(u)
  /\ UNCHANGED <<store, factory, informer, stopped>>
  /\ Collect

-----------------------------------------------------------------------------
Use(u) ==
  \/ \E k \in Kinds : InformerFor(u, k) \/ LateInformerFor(u, k)
  \/ Start(u) \/ WaitForCacheSync(u) \/ Synced(u) \/ NotSynced(u)
  \/ \E n \in Names : ListerGet(u, n) \/ ClientGet(u, n)
  \/ DeepCopy(u)
  \/ \E p \in SlurmJobSpec \cup WlmJobSpec : Edit(u, p)
  \/ Update(u) \/ UpdateRefused(u)

Reflect(k) == List(k) \/ Watch(k) \/ Event(k)

Clients(k) == \E n \in Names : Create(k, n) \/ Patch(k, n) \/ Delete(k, n)

Next ==
  \/ \E u \in Users : Use(u)
  \/ \E k \in Kinds : Reflect(k) \/ Break(k) \/ Clients(k)
  \/ Stop

(* The reflector of a running informer goes on, and a goroutine that asked
   for an informer calls Start and WaitForCacheSync. *)
Fairness ==
  /\ \A k \in Kinds : WF_vars(Reflect(k))
  /\ \A u \in Users : WF_vars(Start(u) \/ WaitForCacheSync(u) \/ Synced(u))

Spec == Init /\ [][Next]_vars /\ Fairness

-----------------------------------------------------------------------------
\* Every variable has its type; an informer runs at most once, and only when started.
TypeOK ==
  /\ \A k \in Kinds : /\ Len(changes[k]) <= MaxWrites
                      /\ server[k] \in [Names -> Versions \cup {Absent}]
                      /\ cache[k] \in [Names -> Versions \cup {Absent}]
  /\ informers \subseteq Kinds /\ startedInformers \subseteq informers
  /\ runs = [k \in Kinds |-> IF k \in startedInformers THEN 1 ELSE 0]
  /\ phase \in [Kinds -> {"idle", "list", "watch", "events"}]
  /\ lists \in [Kinds -> 0 .. MaxBreaks + 1] /\ seen \in [Kinds -> 0 .. MaxWrites]
  /\ stopped \in BOOLEAN
  /\ \A u \in Users : user[u].pc \in {"new", "requested", "started", "waiting", "ready",
                                      "holding", "copied", "edited", "done"}

(* A goroutine that has come out of WaitForCacheSync finds the cache of the
   informer it asked for filled, whichever goroutine's Start ran it. *)
WaitedIsFilled ==
  \A u \in Users : user[u].pc \in {"ready", "holding", "copied", "edited"} => HasSynced(user[u].kind)

(* What goroutines write into their copies does not reach the cache that all
   share: only the Prepare of a SlurmJob, which DeepCopy does not copy, may
   have been written. *)
CacheIsServedButPrepare ==
  \A k \in Kinds, n \in Names : \A p \in Parts(k) \ {"prepare"} :
    cache[k][n] /= Absent => Cached(k, n).parts[p] \notin edited

(* Until the channel is closed, the cache of a started informer comes to hold
   what the server holds, although watches break and writes fall between a
   list and its watch. *)
CacheCatchesUp ==
  \A k \in Kinds : k \in startedInformers ~> (stopped \/ cache[k] = server[k])

(* A goroutine that asked for an informer gets to read from it, or the channel
   is closed: nobody waits for an informer that no one starts. *)
UsersGetReady ==
  \A u \in Users : IsAt(u, "requested") ~> (stopped \/ IsAt(u, "ready"))
=============================================================================
