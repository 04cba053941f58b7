------------------------- MODULE SharedCacheProofs -------------------------
(***************************************************************************)
(* Theorems about SharedCache, for any names, goroutines and bounds.       *)
(***************************************************************************)
EXTENDS SharedCache, TLAPS

(* What the server and the informers keep: a phase tells whether the informer
   was started, and each list but the first follows a break. *)
StoreInv ==
  /\ changes \in [Kinds -> Seq([name : Names, version : Versions \cup {Absent}])]
  /\ server \in [Kinds -> [Names -> Versions \cup {Absent}]]
  /\ \A k \in Kinds : Len(changes[k]) <= MaxWrites

InformerInv ==
  /\ cache \in [Kinds -> [Names -> Versions \cup {Absent}]]
  /\ phase \in [Kinds -> {"idle", "list", "watch", "events"}]
  /\ lists \in [Kinds -> Nat] /\ seen \in [Kinds -> Nat]
  /\ breaks \in 0 .. MaxBreaks
  /\ stopped \in BOOLEAN
  /\ \A k \in Kinds : seen[k] <= Len(changes[k])
  /\ \A k \in Kinds : phase[k] = "idle" => lists[k] = 0
  /\ \A k \in Kinds : phase[k] = "list" => lists[k] <= breaks
  /\ \A k \in Kinds : lists[k] <= breaks + 1

FactoryInv ==
  /\ informers \subseteq Kinds /\ startedInformers \subseteq informers
  /\ runs = [k \in Kinds |-> IF k \in startedInformers THEN 1 ELSE 0]
  /\ \A k \in Kinds : phase[k] = "idle" <=> k \notin startedInformers

(* The cells that goroutines have of their own, and those of cached jobs. *)
AllParts == SlurmJobSpec \cup WlmJobSpec
OwnCells == Users \X AllParts
CacheCells == Kinds \X Names \X Nat \X (Versions \cup {Absent}) \X AllParts
Cells == OwnCells \cup CacheCells

Jobs == [kind : Kinds, name : Names, version : Versions \cup {Absent},
         parts : UNION {[Parts(k) -> Cells] : k \in Kinds}]

Steps == {"new", "requested", "started", "waiting", "ready",
          "holding", "copied", "edited", "done"}

UserStates == [pc : Steps, kind : Kinds \cup {"none"}, awaits : SUBSET Kinds,
               job : Jobs \cup {Nothing}]

(* A goroutine has a kind once it asked for an informer, and a job of that
   kind while it holds one. *)
UserInv ==
  /\ user \in [Users -> UserStates]
  /\ \A u \in Users : user[u].pc /= "new" => user[u].kind \in Kinds
  /\ \A u \in Users : user[u].pc \in {"holding", "copied", "edited"} =>
       user[u].job \in Jobs /\ user[u].job.parts \in [Parts(user[u].job.kind) -> Cells]

TypeInv == StoreInv /\ InformerInv /\ FactoryInv /\ UserInv

-----------------------------------------------------------------------------
(* Changes of one goroutine's state. *)

LEMMA GotoChanges ==
  ASSUME UserInv, NEW u \in Users, NEW pc \in Steps, Goto(u, pc)
  PROVE  /\ user' \in [Users -> UserStates]
         /\ user'[u].pc = pc /\ user'[u].kind = user[u].kind
         /\ user'[u].awaits = user[u].awaits /\ user'[u].job = user[u].job
         /\ \A w \in Users : w /= u => user'[w] = user[w]
<1>1. user[u] \in UserStates
  BY DEF UserInv
<1>2. QED
  BY <1>1 DEF UserInv, UserStates, Goto

LEMMA HoldChanges ==
  ASSUME UserInv, NEW u \in Users, NEW pc \in Steps, NEW job \in Jobs \cup {Nothing},
         Hold(u, pc, job)
  PROVE  /\ user' \in [Users -> UserStates]
         /\ user'[u].pc = pc /\ user'[u].kind = user[u].kind
         /\ user'[u].awaits = user[u].awaits /\ user'[u].job = job
         /\ \A w \in Users : w /= u => user'[w] = user[w]
<1>1. user[u] \in UserStates
  BY DEF UserInv
<1>2. QED
  BY <1>1 DEF UserInv, UserStates, Hold

LEMMA InformerForChanges ==
  ASSUME UserInv, NEW u \in Users, NEW k \in Kinds, InformerFor(u, k)
  PROVE  /\ user' \in [Users -> UserStates]
         /\ user'[u].pc = "requested" /\ user'[u].kind = k /\ user'[u].job = user[u].job
         /\ \A w \in Users : w /= u => user'[w] = user[w]
<1>1. user[u] \in UserStates
  BY DEF UserInv
<1>2. QED
  BY <1>1 DEF UserInv, UserStates, Steps, InformerFor

LEMMA WaitChanges ==
  ASSUME UserInv, FactoryInv, NEW u \in Users, WaitForCacheSync(u)
  PROVE  /\ user' \in [Users -> UserStates]
         /\ user'[u].pc = "waiting" /\ user'[u].kind = user[u].kind
         /\ user'[u].awaits = ToAwait /\ user'[u].job = user[u].job
         /\ \A w \in Users : w /= u => user'[w] = user[w]
<1>1. user[u] \in UserStates /\ ToAwait \in SUBSET Kinds
  BY DEF UserInv, FactoryInv, ToAwait
<1>2. QED
  BY <1>1 DEF UserInv, UserStates, Steps, WaitForCacheSync

(* A goroutine that moved to a step where it has a kind, and a job if it is to. *)
HasItsJob(u) ==
  /\ user[u].pc /= "new" => user[u].kind \in Kinds
  /\ user[u].pc \in {"holding", "copied", "edited"} =>
       user[u].job \in Jobs /\ user[u].job.parts \in [Parts(user[u].job.kind) -> Cells]

LEMMA OneUserChanged ==
  ASSUME UserInv, NEW u \in Users, user' \in [Users -> UserStates], HasItsJob(u)',
         \A w \in Users : w /= u => user'[w] = user[w]
  PROVE  UserInv'
<1>1. \A w \in Users : HasItsJob(w) /\ (w /= u => user'[w] = user[w])
  BY DEF UserInv, HasItsJob
<1>2. ASSUME NEW w \in Users PROVE HasItsJob(w)'
  BY <1>1 DEF HasItsJob
<1>3. QED
  BY <1>2 DEF UserInv, HasItsJob

-----------------------------------------------------------------------------
(* What a step leaves alone keeps its part of the invariant. *)

LEMMA StoreUnchanged ==
  ASSUME StoreInv, UNCHANGED store
  PROVE  StoreInv'
  BY DEF StoreInv, store

LEMMA InformerUnchanged ==
  ASSUME StoreInv, InformerInv, UNCHANGED <<informer, stopped>>,
         \A k \in Kinds : Len(changes'[k]) \in Nat /\ Len(changes'[k]) >= Len(changes[k])
  PROVE  InformerInv'
<1>1. \A k \in Kinds : Len(changes[k]) \in Nat /\ seen[k] \in Nat
  BY DEF StoreInv, InformerInv
<1>2. UNCHANGED <<phase, cache, lists, seen, breaks, stopped>>
  BY DEF informer
<1>3. \A k \in Kinds : seen'[k] <= Len(changes'[k])
  <2>1. \A a, b, c \in Nat : a <= b /\ c >= b => a <= c
    OBVIOUS
  <2>2. \A k \in Kinds : seen'[k] \in Nat /\ seen'[k] <= Len(changes[k])
    BY <1>1, <1>2, Zenon DEF InformerInv
  <2>3. QED
    BY <1>1, <2>1, <2>2, Zenon
<1>4. QED
  BY <1>2, <1>3 DEF InformerInv

LEMMA FactoryUnchanged ==
  ASSUME FactoryInv, UNCHANGED factory,
         \A k \in Kinds : phase'[k] = "idle" <=> phase[k] = "idle"
  PROVE  FactoryInv'
  BY DEF FactoryInv, factory

LEMMA UsersUnchanged ==
  ASSUME UserInv, UNCHANGED user
  PROVE  UserInv'
  BY DEF UserInv

(* A step of a goroutine that neither writes to the server nor starts an informer. *)
LEMMA OnlyUserChanged ==
  ASSUME TypeInv, UNCHANGED <<store, factory, informer, stopped>>, UserInv'
  PROVE  TypeInv'
<1>1. StoreInv'
  BY StoreUnchanged DEF TypeInv, store
<1>2. \A k \in Kinds : Len(changes'[k]) \in Nat /\ Len(changes'[k]) >= Len(changes[k])
  BY DEF TypeInv, StoreInv, store
<1>3. InformerInv'
  BY <1>2, InformerUnchanged DEF TypeInv
<1>4. FactoryInv'
  BY FactoryUnchanged DEF TypeInv, informer
<1>5. QED
  BY <1>1, <1>3, <1>4 DEF TypeInv

-----------------------------------------------------------------------------
(* Writes. *)

LEMMA NewVersionType ==
  ASSUME StoreInv, MayWrite, NEW k \in Kinds
  PROVE  NewVersion(k) \in Versions /\ Len(changes[k]) < MaxWrites
<1>1. \A c \in Kinds : Len(changes[c]) \in Nat
  BY DEF StoreInv
<1>2. Len(changes[k]) < MaxWrites
  <2>1. \A a, b, max \in Nat : a + b < max => a < max /\ b < max
    OBVIOUS
  <2>2. "SlurmJob" \in Kinds /\ "WlmJob" \in Kinds /\ k \in {"SlurmJob", "WlmJob"}
    BY DEF Kinds
  <2>3. Len(changes["SlurmJob"]) \in Nat /\ Len(changes["WlmJob"]) \in Nat
    BY <1>1, <2>2, Zenon
  <2>4. Len(changes["SlurmJob"]) + Len(changes["WlmJob"]) < MaxWrites /\ MaxWrites \in Nat
    BY BoundsAssumption, Zenon DEF MayWrite, BoundsAssumption
  <2>5. Len(changes["SlurmJob"]) < MaxWrites /\ Len(changes["WlmJob"]) < MaxWrites
    BY <2>1, <2>3, <2>4, Zenon
  <2>6. QED
    BY <2>2, <2>5, Zenon
<1>3. QED
  BY <1>1, <1>2, BoundsAssumption DEF NewVersion, Versions, BoundsAssumption

LEMMA WriteType ==
  ASSUME StoreInv, NEW k \in Kinds, NEW n \in Names, NEW v \in Versions \cup {Absent},
         Write(k, n, v)
  PROVE  /\ StoreInv'
         /\ \A c \in Kinds : Len(changes'[c]) \in Nat /\ Len(changes'[c]) >= Len(changes[c])
<1> DEFINE e == [name |-> n, version |-> v]
<1>1. /\ changes' = [changes EXCEPT ![k] = Append(changes[k], e)]
      /\ server' = [server EXCEPT ![k] = [server[k] EXCEPT ![n] = v]]
  BY DEF Write
<1>2. /\ changes[k] \in Seq([name : Names, version : Versions \cup {Absent}])
      /\ e \in [name : Names, version : Versions \cup {Absent}]
  BY DEF StoreInv
<1>3. /\ Append(changes[k], e) \in Seq([name : Names, version : Versions \cup {Absent}])
      /\ Len(Append(changes[k], e)) = Len(changes[k]) + 1 /\ Len(changes[k]) \in Nat
  BY <1>2
<1>4. /\ changes' \in [Kinds -> Seq([name : Names, version : Versions \cup {Absent}])]
      /\ server' \in [Kinds -> [Names -> Versions \cup {Absent}]]
  BY <1>1, <1>3 DEF StoreInv
<1>5. Len(changes[k]) + 1 <= MaxWrites
  BY <1>3, NewVersionType, BoundsAssumption DEF Write, BoundsAssumption
<1>6. \A c \in Kinds : /\ Len(changes'[c]) \in Nat /\ Len(changes'[c]) >= Len(changes[c])
                       /\ Len(changes'[c]) <= MaxWrites
  BY <1>1, <1>3, <1>5 DEF StoreInv
<1>7. QED
  BY <1>4, <1>6 DEF StoreInv

(* A client writes. *)
LEMMA OtherClientWrites ==
  ASSUME TypeInv, NEW k \in Kinds, NEW n \in Names, NEW v \in Versions \cup {Absent},
         Write(k, n, v), Others
  PROVE  TypeInv'
<1>1. /\ StoreInv'
      /\ \A c \in Kinds : Len(changes'[c]) \in Nat /\ Len(changes'[c]) >= Len(changes[c])
  BY WriteType DEF TypeInv
<1>2. UNCHANGED <<factory, informer, stopped, user>>
  BY DEF Others
<1>3. InformerInv'
  BY <1>1, <1>2, InformerUnchanged DEF TypeInv
<1>4. FactoryInv' /\ UserInv'
  BY <1>2, FactoryUnchanged, UsersUnchanged DEF TypeInv, informer
<1>5. QED
  BY <1>1, <1>3, <1>4 DEF TypeInv

LEMMA ClientsType ==
  ASSUME TypeInv, NEW k \in Kinds, Clients(k)
  PROVE  TypeInv'
<1>1. PICK n \in Names : Create(k, n) \/ Patch(k, n) \/ Delete(k, n)
  BY DEF Clients
<1>2. CASE Create(k, n) \/ Patch(k, n)
  <2>1. NewVersion(k) \in Versions
    BY <1>2, NewVersionType DEF TypeInv, Create, Patch, Write
  <2>2. Write(k, n, NewVersion(k)) /\ Others
    BY <1>2 DEF Create, Patch
  <2>3. QED
    BY <2>1, <2>2, OtherClientWrites
<1>3. CASE Delete(k, n)
  BY <1>3, OtherClientWrites DEF Delete
<1>4. QED
  BY <1>1, <1>2, <1>3

-----------------------------------------------------------------------------
(* Steps of an informer. *)

LEMMA ListType ==
  ASSUME TypeInv, NEW k \in Kinds, List(k)
  PROVE  TypeInv'
<1>1. UNCHANGED <<store, factory, breaks, stopped, user>>
  BY DEF List
<1>2. StoreInv' /\ UserInv'
  BY <1>1, StoreUnchanged, UsersUnchanged DEF TypeInv
<1>3. \A c \in Kinds : phase'[c] = "idle" <=> phase[c] = "idle"
  BY DEF TypeInv, InformerInv, List
<1>4. FactoryInv'
  BY <1>1, <1>3, FactoryUnchanged DEF TypeInv
<1>5. /\ cache' \in [Kinds -> [Names -> Versions \cup {Absent}]]
      /\ phase' \in [Kinds -> {"idle", "list", "watch", "events"}]
      /\ lists' \in [Kinds -> Nat] /\ seen' \in [Kinds -> Nat]
  BY DEF TypeInv, StoreInv, InformerInv, List
<1>6. \A c \in Kinds : seen'[c] <= Len(changes'[c])
  BY <1>1 DEF TypeInv, StoreInv, InformerInv, List, store
<1>7. lists[k] <= breaks /\ breaks \in Nat /\ lists[k] \in Nat
  BY DEF TypeInv, InformerInv, List
<1>8. \A c \in Kinds : /\ phase'[c] = "idle" => lists'[c] = 0
                       /\ phase'[c] = "list" => lists'[c] <= breaks
                       /\ lists'[c] <= breaks + 1
  BY <1>7 DEF TypeInv, InformerInv, List
<1>9. InformerInv'
  BY <1>1, <1>5, <1>6, <1>8 DEF TypeInv, InformerInv
<1>10. QED
  BY <1>2, <1>4, <1>9 DEF TypeInv

LEMMA WatchType ==
  ASSUME TypeInv, NEW k \in Kinds, Watch(k)
  PROVE  TypeInv'
<1>1. UNCHANGED <<store, factory, cache, lists, breaks, stopped, user>>
  BY DEF Watch
<1>2. StoreInv' /\ UserInv'
  BY <1>1, StoreUnchanged, UsersUnchanged DEF TypeInv
<1>3. \A c \in Kinds : /\ phase'[c] = "idle" <=> phase[c] = "idle"
                       /\ phase'[c] = "list" => phase[c] = "list"
  BY DEF TypeInv, InformerInv, Watch
<1>4. FactoryInv'
  BY <1>1, <1>3, FactoryUnchanged DEF TypeInv
<1>5. seen' = seen
  BY DEF TypeInv, InformerInv, Watch, FirstOfWatch
<1>6. phase' \in [Kinds -> {"idle", "list", "watch", "events"}]
  BY DEF TypeInv, InformerInv, Watch
<1>7. InformerInv'
  BY <1>1, <1>3, <1>5, <1>6 DEF TypeInv, InformerInv, store
<1>8. QED
  BY <1>2, <1>4, <1>7 DEF TypeInv

LEMMA NextElement ==
  ASSUME NEW S, NEW s \in Seq(S), NEW i \in Nat, i < Len(s)
  PROVE  s[i + 1] \in S /\ i + 1 \in Nat /\ i + 1 <= Len(s)
<1>1. i + 1 \in 1 .. Len(s)
  OBVIOUS
<1>2. QED
  BY <1>1

LEMMA EventType ==
  ASSUME TypeInv, NEW k \in Kinds, Event(k)
  PROVE  TypeInv'
<1>1. UNCHANGED <<store, factory, phase, lists, breaks, stopped, user>>
  BY DEF Event
<1>2. StoreInv' /\ UserInv'
  BY <1>1, StoreUnchanged, UsersUnchanged DEF TypeInv
<1>3. FactoryInv'
  BY <1>1, FactoryUnchanged DEF TypeInv
<1>4. /\ seen[k] \in Nat /\ seen[k] < Len(changes[k])
      /\ changes[k] \in Seq([name : Names, version : Versions \cup {Absent}])
  <2>1. seen[k] < Len(changes[k])
    BY Zenon DEF Event
  <2>2. seen[k] \in Nat
    BY DEF TypeInv, InformerInv
  <2>3. changes[k] \in Seq([name : Names, version : Versions \cup {Absent}])
    BY DEF TypeInv, StoreInv
  <2>4. QED
    BY <2>1, <2>2, <2>3, Zenon
<1>5. /\ changes[k][seen[k] + 1] \in [name : Names, version : Versions \cup {Absent}]
      /\ seen[k] + 1 \in Nat /\ seen[k] + 1 <= Len(changes[k])
  BY <1>4, NextElement, Zenon
<1>6. cache' \in [Kinds -> [Names -> Versions \cup {Absent}]]
  <2> DEFINE e == changes[k][seen[k] + 1]
  <2>1. cache' = [cache EXCEPT ![k] = [cache[k] EXCEPT ![e.name] = e.version]]
    BY DEF Event
  <2>2. e.name \in Names /\ e.version \in Versions \cup {Absent}
    BY <1>5
  <2>3. QED
    BY <2>1, <2>2 DEF TypeInv, InformerInv
<1>7. seen' \in [Kinds -> Nat]
  BY <1>5 DEF TypeInv, InformerInv, Event
<1>8. \A c \in Kinds : seen'[c] <= Len(changes'[c])
  BY <1>1, <1>5 DEF TypeInv, InformerInv, Event, store
<1>9. InformerInv'
  BY <1>1, <1>6, <1>7, <1>8 DEF TypeInv, InformerInv
<1>10. QED
  BY <1>2, <1>3, <1>9 DEF TypeInv

LEMMA BreakType ==
  ASSUME TypeInv, NEW k \in Kinds, Break(k)
  PROVE  TypeInv'
<1>1. UNCHANGED <<store, factory, cache, lists, seen, stopped, user>>
  BY DEF Break
<1>2. StoreInv' /\ UserInv'
  BY <1>1, StoreUnchanged, UsersUnchanged DEF TypeInv
<1>3. \A c \in Kinds : phase'[c] = "idle" <=> phase[c] = "idle"
  BY DEF TypeInv, InformerInv, Break
<1>4. FactoryInv'
  BY <1>1, <1>3, FactoryUnchanged DEF TypeInv
<1>5. phase' \in [Kinds -> {"idle", "list", "watch", "events"}]
  BY DEF TypeInv, InformerInv, Break
<1>6. breaks \in Nat /\ breaks' = breaks + 1 /\ breaks' \in 0 .. MaxBreaks
  BY BoundsAssumption DEF TypeInv, InformerInv, Break, BoundsAssumption
<1>7. \A c \in Kinds : lists[c] \in Nat /\ lists[c] <= breaks + 1
  BY DEF TypeInv, InformerInv
<1>8. \A c \in Kinds : lists'[c] <= breaks' /\ lists'[c] <= breaks' + 1
  BY <1>1, <1>6, <1>7
<1>9. \A c \in Kinds : seen'[c] <= Len(changes'[c]) /\ (phase'[c] = "idle" => lists'[c] = 0)
  BY <1>1, <1>3 DEF TypeInv, InformerInv, store
<1>10. InformerInv'
  BY <1>1, <1>5, <1>6, <1>8, <1>9 DEF TypeInv, InformerInv
<1>11. QED
  BY <1>2, <1>4, <1>10 DEF TypeInv

-----------------------------------------------------------------------------
(* Steps of a goroutine: the factory. *)

LEMMA RequestType ==
  ASSUME TypeInv, NEW k \in Kinds, Requested(k), UserInv',
         UNCHANGED <<store, startedInformers, runs, informer, stopped>>
  PROVE  TypeInv'
<1>1. StoreInv'
  BY StoreUnchanged DEF TypeInv, store
<1>2. \A c \in Kinds : Len(changes'[c]) \in Nat /\ Len(changes'[c]) >= Len(changes[c])
  BY DEF TypeInv, StoreInv, store
<1>3. InformerInv'
  BY <1>2, InformerUnchanged DEF TypeInv
<1>4. FactoryInv'
  BY DEF TypeInv, FactoryInv, Requested, informer
<1>5. QED
  BY <1>1, <1>3, <1>4 DEF TypeInv

LEMMA InformerForType ==
  ASSUME TypeInv, NEW u \in Users, NEW k \in Kinds, InformerFor(u, k)
  PROVE  TypeInv'
<1>1. /\ user' \in [Users -> UserStates]
      /\ user'[u].pc = "requested" /\ user'[u].kind = k
      /\ \A w \in Users : w /= u => user'[w] = user[w]
  BY InformerForChanges DEF TypeInv
<1>2. UserInv'
  BY <1>1, OneUserChanged DEF TypeInv, HasItsJob
<1>3. QED
  BY <1>2, RequestType DEF InformerFor

LEMMA LateInformerForType ==
  ASSUME TypeInv, NEW u \in Users, NEW k \in Kinds, LateInformerFor(u, k)
  PROVE  TypeInv'
<1>1. UserInv'
  BY UsersUnchanged DEF TypeInv, LateInformerFor
<1>2. QED
  BY <1>1, RequestType DEF LateInformerFor

LEMMA StartType ==
  ASSUME TypeInv, NEW u \in Users, Start(u)
  PROVE  TypeInv'
<1>1. UNCHANGED <<store, informers, cache, lists, seen, breaks, stopped>> /\ Goto(u, "started")
  BY DEF Start
<1>2. StoreInv'
  BY <1>1, StoreUnchanged DEF TypeInv
<1>3. /\ user' \in [Users -> UserStates]
      /\ user'[u].pc = "started" /\ user'[u].kind = user[u].kind
      /\ \A w \in Users : w /= u => user'[w] = user[w]
  BY <1>1, GotoChanges DEF TypeInv, Steps
<1>4. user[u].kind \in Kinds
  BY DEF TypeInv, UserInv, Start, IsAt
<1>5. UserInv'
  BY <1>3, <1>4, OneUserChanged DEF TypeInv, HasItsJob
<1>6. FactoryInv'
  <2>1. informers \subseteq Kinds /\ startedInformers' = informers /\ informers' = informers
    BY <1>1 DEF TypeInv, FactoryInv, Start
  <2>2. \A k \in Kinds : runs'[k] = IF k \in informers THEN 1 ELSE 0
    BY DEF TypeInv, FactoryInv, Start, ToStart
  <2>3. runs' = [k \in Kinds |-> IF k \in startedInformers' THEN 1 ELSE 0]
    BY <2>1, <2>2 DEF Start
  <2>4. \A k \in Kinds : phase'[k] = "idle" <=> k \notin startedInformers'
    BY <2>1 DEF TypeInv, FactoryInv, Start, ToStart
  <2>5. QED
    BY <2>1, <2>3, <2>4 DEF FactoryInv
<1>7. InformerInv'
  <2>1. phase' \in [Kinds -> {"idle", "list", "watch", "events"}]
    BY DEF TypeInv, InformerInv, Start
  <2>2. \A k \in Kinds : /\ phase'[k] = "idle" => phase[k] = "idle"
                         /\ phase'[k] = "list" => phase[k] \in {"idle", "list"}
    BY DEF TypeInv, FactoryInv, Start, ToStart
  <2>3. breaks \in Nat
    BY DEF TypeInv, InformerInv
  <2>4. \A k \in Kinds : /\ phase'[k] = "idle" => lists'[k] = 0
                         /\ phase'[k] = "list" => lists'[k] <= breaks
    BY <1>1, <2>2, <2>3 DEF TypeInv, InformerInv
  <2>5. QED
    BY <1>1, <2>1, <2>4 DEF TypeInv, InformerInv, store
<1>8. QED
  BY <1>2, <1>5, <1>6, <1>7 DEF TypeInv

LEMMA WaitType ==
  ASSUME TypeInv, NEW u \in Users,
         WaitForCacheSync(u) \/ Synced(u) \/ NotSynced(u)
  PROVE  TypeInv'
<1>1. user[u].kind \in Kinds
  BY DEF TypeInv, UserInv, WaitForCacheSync, Synced, NotSynced, IsAt
<1>2. /\ user' \in [Users -> UserStates]
      /\ user'[u].pc \in {"waiting", "ready", "done"} /\ user'[u].kind = user[u].kind
      /\ \A w \in Users : w /= u => user'[w] = user[w]
  <2>1. CASE WaitForCacheSync(u)
    BY <2>1, WaitChanges DEF TypeInv
  <2>2. CASE Synced(u)
    BY <2>2, GotoChanges DEF TypeInv, Synced, Steps
  <2>3. CASE NotSynced(u)
    BY <2>3, GotoChanges DEF TypeInv, NotSynced, Steps
  <2>4. QED
    BY <2>1, <2>2, <2>3
<1>3. UserInv'
  BY <1>1, <1>2, OneUserChanged DEF TypeInv, HasItsJob
<1>4. UNCHANGED <<store, factory, informer, stopped>>
  BY DEF WaitForCacheSync, Synced, NotSynced
<1>5. QED
  BY <1>3, <1>4, OnlyUserChanged

-----------------------------------------------------------------------------
(* Steps of a goroutine: jobs. *)

LEMMA PartsAreParts == \A k : Parts(k) \subseteq AllParts
  BY DEF Parts, AllParts

LEMMA CachedType ==
  ASSUME InformerInv, NEW k \in Kinds, NEW n \in Names
  PROVE  /\ Cached(k, n) \in Jobs /\ Cached(k, n).kind = k
         /\ Cached(k, n).parts \in [Parts(k) -> Cells]
<1>1. cache[k][n] \in Versions \cup {Absent} /\ lists[k] \in Nat
  BY DEF InformerInv
<1>2. \A p \in Parts(k) : <<k, n, lists[k], cache[k][n], p>> \in CacheCells
  BY <1>1, PartsAreParts DEF CacheCells
<1>3. [p \in Parts(k) |-> <<k, n, lists[k], cache[k][n], p>>] \in [Parts(k) -> Cells]
  BY <1>2 DEF Cells
<1>4. QED
  BY <1>1, <1>3 DEF Cached, Jobs

LEMMA OwnType ==
  ASSUME NEW u \in Users, NEW k \in Kinds, NEW n \in Names, NEW v \in Versions \cup {Absent}
  PROVE  /\ Own(u, k, n, v) \in Jobs /\ Own(u, k, n, v).kind = k
         /\ Own(u, k, n, v).parts \in [Parts(k) -> Cells]
<1>1. [p \in Parts(k) |-> <<u, p>>] \in [Parts(k) -> Cells]
  BY PartsAreParts DEF Cells, OwnCells
<1>2. QED
  BY <1>1 DEF Own, Jobs

LEMMA CopyType ==
  ASSUME NEW u \in Users, NEW job \in Jobs, job.parts \in [Parts(job.kind) -> Cells]
  PROVE  /\ CopyFor(u, job) \in Jobs /\ CopyFor(u, job).kind = job.kind
         /\ CopyFor(u, job).parts \in [Parts(job.kind) -> Cells]
<1> DEFINE parts == [p \in Parts(job.kind) |->
                       IF p \in Copied(job.kind) THEN <<u, p>> ELSE job.parts[p]]
<1>1. \A p \in Parts(job.kind) : <<u, p>> \in Cells /\ job.parts[p] \in Cells
  BY PartsAreParts DEF Cells, OwnCells
<1>2. parts \in [Parts(job.kind) -> Cells]
  BY <1>1
<1>3. job.kind \in Kinds
  BY DEF Jobs
<1>4. parts \in UNION {[Parts(k) -> Cells] : k \in Kinds}
  BY <1>2, <1>3
<1>5. CopyFor(u, job) = [job EXCEPT !.parts = parts]
  BY DEF CopyFor
<1> HIDE DEF parts
<1>6. QED
  BY <1>2, <1>4, <1>5 DEF Jobs

LEMMA HoldType ==
  ASSUME UserInv, NEW u \in Users, user[u].pc /= "new", NEW pc \in Steps,
         NEW job \in Jobs, job.parts \in [Parts(job.kind) -> Cells], Hold(u, pc, job)
  PROVE  UserInv'
<1>1. /\ user' \in [Users -> UserStates]
      /\ user'[u].kind = user[u].kind /\ user'[u].job = job
      /\ \A w \in Users : w /= u => user'[w] = user[w]
  BY HoldChanges
<1>2. user[u].kind \in Kinds
  BY DEF UserInv
<1>3. QED
  BY <1>1, <1>2, OneUserChanged DEF HasItsJob

LEMMA GetType ==
  ASSUME TypeInv, NEW u \in Users, NEW n \in Names, ListerGet(u, n) \/ ClientGet(u, n)
  PROVE  TypeInv'
<1> DEFINE k == user[u].kind
<1>1. user[u].pc = "ready" /\ k \in Kinds
  BY DEF TypeInv, UserInv, ListerGet, ClientGet, IsAt
<1>2. ASSUME ListerGet(u, n) PROVE UserInv'
  <2>1. Hold(u, "holding", Cached(k, n))
    BY <1>2 DEF ListerGet
  <2>2. Cached(k, n) \in Jobs /\ Cached(k, n).parts \in [Parts(Cached(k, n).kind) -> Cells]
    BY <1>1, CachedType DEF TypeInv
  <2>3. QED
    BY <1>1, <2>1, <2>2, HoldType DEF TypeInv, Steps
<1>3. ASSUME ClientGet(u, n) PROVE UserInv'
  <2> DEFINE job == Own(u, k, n, server[k][n])
  <2>1. Hold(u, "copied", job)
    BY <1>3 DEF ClientGet
  <2>2. server[k][n] \in Versions \cup {Absent}
    BY <1>1 DEF TypeInv, StoreInv
  <2>3. job \in Jobs /\ job.parts \in [Parts(job.kind) -> Cells]
    BY <1>1, <2>2, OwnType
  <2>4. QED
    BY <1>1, <2>1, <2>3, HoldType DEF TypeInv, Steps
<1>4. UserInv'
  BY <1>2, <1>3
<1>5. UNCHANGED <<store, factory, informer, stopped>>
  BY DEF ListerGet, ClientGet
<1>6. QED
  BY <1>4, <1>5, OnlyUserChanged

LEMMA DeepCopyType ==
  ASSUME TypeInv, NEW u \in Users, DeepCopy(u)
  PROVE  TypeInv'
<1> DEFINE job == user[u].job
<1>1. user[u].pc = "holding"
  BY DEF DeepCopy, IsAt
<1>2. job \in Jobs /\ job.parts \in [Parts(job.kind) -> Cells]
  BY <1>1 DEF TypeInv, UserInv
<1>3. Hold(u, "copied", CopyFor(u, job))
  BY DEF DeepCopy
<1>4. /\ CopyFor(u, job) \in Jobs
      /\ CopyFor(u, job).parts \in [Parts(CopyFor(u, job).kind) -> Cells]
  BY <1>2, CopyType
<1>5. UserInv'
  BY <1>1, <1>3, <1>4, HoldType DEF TypeInv, Steps
<1>6. UNCHANGED <<store, factory, informer, stopped>>
  BY DEF DeepCopy
<1>7. QED
  BY <1>5, <1>6, OnlyUserChanged

LEMMA EditType ==
  ASSUME TypeInv, NEW u \in Users, NEW p, Edit(u, p)
  PROVE  TypeInv'
<1>1. user[u].pc = "copied" /\ HasItsJob(u)
  BY DEF TypeInv, UserInv, HasItsJob, Edit, IsAt
<1>2. /\ user' \in [Users -> UserStates]
      /\ user'[u].pc = "edited" /\ user'[u].kind = user[u].kind /\ user'[u].job = user[u].job
      /\ \A w \in Users : w /= u => user'[w] = user[w]
  BY GotoChanges DEF TypeInv, Edit, Steps
<1>3. UserInv'
  BY <1>1, <1>2, OneUserChanged DEF TypeInv, HasItsJob
<1>4. UNCHANGED <<store, factory, informer, stopped>>
  BY DEF Edit
<1>5. QED
  BY <1>3, <1>4, OnlyUserChanged

LEMMA ReleaseType ==
  ASSUME UserInv, NEW u \in Users, user[u].pc = "edited", Release(u)
  PROVE  UserInv'
<1>1. /\ user' \in [Users -> UserStates]
      /\ user'[u].pc = "ready" /\ user'[u].kind = user[u].kind
      /\ \A w \in Users : w /= u => user'[w] = user[w]
  BY HoldChanges DEF Release, Steps
<1>2. user[u].kind \in Kinds
  BY DEF UserInv
<1>3. QED
  BY <1>1, <1>2, OneUserChanged DEF HasItsJob

LEMMA UpdateType ==
  ASSUME TypeInv, NEW u \in Users, Update(u) \/ UpdateRefused(u)
  PROVE  TypeInv'
<1> DEFINE job == user[u].job
<1>1. user[u].pc = "edited" /\ Release(u)
  BY DEF Update, UpdateRefused, IsAt
<1>2. UserInv'
  BY <1>1, ReleaseType DEF TypeInv
<1>3. CASE UpdateRefused(u)
  BY <1>2, <1>3, OnlyUserChanged DEF UpdateRefused
<1>4. CASE Update(u)
  <2>1. job.kind \in Kinds /\ job.name \in Names
    BY <1>1 DEF TypeInv, UserInv, Jobs
  <2>2. Write(job.kind, job.name, NewVersion(job.kind))
    BY <1>4 DEF Update
  <2>3. NewVersion(job.kind) \in Versions
    BY <2>1, <2>2, NewVersionType DEF TypeInv, Write
  <2>4. /\ StoreInv'
        /\ \A c \in Kinds : Len(changes'[c]) \in Nat /\ Len(changes'[c]) >= Len(changes[c])
    BY <2>1, <2>2, <2>3, WriteType DEF TypeInv
  <2>5. UNCHANGED <<factory, informer, stopped>>
    BY <1>4 DEF Update
  <2>6. InformerInv'
    BY <2>4, <2>5, InformerUnchanged DEF TypeInv
  <2>7. FactoryInv'
    BY <2>5, FactoryUnchanged DEF TypeInv, informer
  <2>8. QED
    BY <1>2, <2>4, <2>6, <2>7 DEF TypeInv
<1>5. QED
  BY <1>3, <1>4

-----------------------------------------------------------------------------
LEMMA InitType == Init => TypeInv
<1> SUFFICES ASSUME Init PROVE TypeInv
  OBVIOUS
<1>1. StoreInv
  BY BoundsAssumption DEF Init, StoreInv, BoundsAssumption
<1>2. InformerInv
  <2>1. \A k \in Kinds : Len(changes[k]) = 0 /\ seen[k] = 0 /\ lists[k] = 0 /\ phase[k] = "idle"
    BY DEF Init
  <2>2. \A k \in Kinds : seen[k] <= Len(changes[k]) /\ lists[k] <= breaks + 1
    BY <2>1 DEF Init
  <2>3. /\ cache \in [Kinds -> [Names -> Versions \cup {Absent}]]
        /\ phase \in [Kinds -> {"idle", "list", "watch", "events"}]
        /\ lists \in [Kinds -> Nat] /\ seen \in [Kinds -> Nat]
    BY DEF Init
  <2>4. stopped \in BOOLEAN
    BY DEF Init
  <2>5. breaks \in 0 .. MaxBreaks
    BY BoundsAssumption DEF Init, BoundsAssumption
  <2>6. QED
    BY <2>1, <2>2, <2>3, <2>4, <2>5 DEF InformerInv
<1>3. FactoryInv
  BY DEF Init, FactoryInv
<1>4. UserInv
  <2>1. [pc |-> "new", kind |-> "none", awaits |-> {}, job |-> Nothing] \in UserStates
    BY DEF UserStates, Steps
  <2>2. QED
    BY <2>1 DEF Init, UserInv
<1>5. QED
  BY <1>1, <1>2, <1>3, <1>4 DEF TypeInv

LEMMA NextType == TypeInv /\ [Next]_vars => TypeInv'
<1> SUFFICES ASSUME TypeInv, [Next]_vars PROVE TypeInv'
  OBVIOUS
<1>1. ASSUME NEW u \in Users, Use(u) PROVE TypeInv'
  BY <1>1, InformerForType, LateInformerForType, StartType, WaitType, GetType, DeepCopyType,
     EditType, UpdateType DEF Use
<1>2. ASSUME NEW k \in Kinds, Reflect(k) \/ Break(k) \/ Clients(k) PROVE TypeInv'
  BY <1>2, ListType, WatchType, EventType, BreakType, ClientsType DEF Reflect
<1>3. CASE Stop
  <2>1. UNCHANGED <<store, factory, informer, user>> /\ stopped' \in BOOLEAN
    BY <1>3 DEF Stop
  <2>2. StoreInv' /\ UserInv'
    BY <2>1, StoreUnchanged, UsersUnchanged DEF TypeInv
  <2>3. FactoryInv'
    BY <2>1, FactoryUnchanged DEF TypeInv, informer
  <2>4. InformerInv'
    BY <2>1 DEF TypeInv, InformerInv, informer, store
  <2>5. QED
    BY <2>2, <2>3, <2>4 DEF TypeInv
<1>4. CASE UNCHANGED vars
  <2>1. UNCHANGED <<store, factory, informer, stopped, user>>
    BY <1>4 DEF vars
  <2>2. QED
    BY <2>1, UsersUnchanged, OnlyUserChanged DEF TypeInv
<1>5. QED
  BY <1>1, <1>2, <1>3, <1>4 DEF Next

LEMMA TypeInvHolds == Spec => []TypeInv
  BY InitType, NextType, PTL DEF Spec

(* Every variable keeps its type, and an informer runs at most once, whichever
   goroutines start the factory and how often. *)
THEOREM TypeCorrect == Spec => []TypeOK
<1>1. TypeInv => TypeOK
  <2> SUFFICES ASSUME TypeInv PROVE TypeOK
    OBVIOUS
  <2>1. \A k \in Kinds : Len(changes[k]) \in Nat /\ Len(changes[k]) <= MaxWrites
    BY DEF TypeInv, StoreInv
  <2>2. seen \in [Kinds -> 0 .. MaxWrites]
    BY <2>1, BoundsAssumption DEF TypeInv, InformerInv, BoundsAssumption
  <2>3. lists \in [Kinds -> 0 .. MaxBreaks + 1]
    BY BoundsAssumption DEF TypeInv, InformerInv, BoundsAssumption
  <2>4. \A u \in Users : user[u].pc \in Steps
    BY DEF TypeInv, UserInv, UserStates
  <2>5. QED
    BY <2>1, <2>2, <2>3, <2>4 DEF TypeInv, StoreInv, InformerInv, FactoryInv, TypeOK, Steps
<1>2. QED
  BY <1>1, TypeInvHolds, PTL

-----------------------------------------------------------------------------
(* A goroutine's informer is requested before it starts the factory, started
   before it waits, and among those it waits for. *)
Waits(u) ==
  /\ user[u].pc /= "new" => user[u].kind \in informers
  /\ user[u].pc \notin {"new", "requested"} => user[u].kind \in startedInformers
  /\ user[u].pc = "waiting" => user[u].kind \in user[u].awaits
  /\ user[u].pc \in {"ready", "holding", "copied", "edited"} => lists[user[u].kind] > 0

WaitInv == \A u \in Users : Waits(u)

(* Nothing a goroutine depends on is taken back while another one moves. *)
LEMMA OthersWait ==
  ASSUME TypeInv, TypeInv', WaitInv, informers \subseteq informers',
         startedInformers \subseteq startedInformers',
         \A k \in Kinds : lists'[k] >= lists[k],
         NEW w \in Users, user'[w] = user[w]
  PROVE  Waits(w)'
<1>1. Waits(w)
  BY DEF WaitInv, Waits
<1>2. user[w].pc /= "new" => user[w].kind \in Kinds
  BY DEF TypeInv, UserInv
<1>3. \A k \in Kinds : lists[k] \in Nat /\ lists'[k] \in Nat
  BY DEF TypeInv, InformerInv
<1>4. \A k \in Kinds : lists[k] > 0 => lists'[k] > 0
  BY <1>3
<1>5. QED
  BY <1>1, <1>2, <1>4 DEF Waits

(* A goroutine that moves between steps at which it reads from the cache. *)
LEMMA ReaderWaits ==
  ASSUME TypeInv, TypeInv', WaitInv, NEW u \in Users,
         user[u].pc \in {"ready", "holding", "copied", "edited"},
         user'[u].pc \in {"ready", "holding", "copied", "edited"},
         user'[u].kind = user[u].kind,
         UNCHANGED <<factory, informer>>,
         \A w \in Users : w /= u => user'[w] = user[w]
  PROVE  WaitInv'
<1>1. /\ user[u].kind \in informers /\ user[u].kind \in startedInformers
      /\ lists[user[u].kind] > 0
  BY DEF WaitInv, Waits
<1>2. UNCHANGED <<informers, startedInformers, lists>>
  BY DEF factory, informer
<1>3. Waits(u)'
  BY <1>1, <1>2 DEF Waits
<1>4. \A k \in Kinds : lists'[k] >= lists[k]
  BY <1>2 DEF TypeInv, InformerInv
<1>5. \A w \in Users : Waits(w)'
  BY <1>2, <1>3, <1>4, OthersWait
<1>6. QED
  BY <1>5 DEF WaitInv

LEMMA NextWaits == TypeInv /\ TypeInv' /\ WaitInv /\ [Next]_vars => WaitInv'
<1> SUFFICES ASSUME TypeInv, TypeInv', WaitInv, [Next]_vars PROVE WaitInv'
  OBVIOUS
<1>1. ASSUME UNCHANGED user, informers \subseteq informers',
             startedInformers = startedInformers',
             \A k \in Kinds : lists'[k] >= lists[k]
      PROVE  WaitInv'
  <2>1. \A w \in Users : Waits(w)'
    BY <1>1, OthersWait
  <2>2. QED
    BY <2>1 DEF WaitInv
<1>2. \A k \in Kinds : lists[k] \in Nat
  BY DEF TypeInv, InformerInv
<1>3. ASSUME NEW u \in Users, Use(u) PROVE WaitInv'
  <2>1. ASSUME NEW k \in Kinds, InformerFor(u, k) PROVE WaitInv'
    <3>1. /\ user'[u].pc = "requested" /\ user'[u].kind = k
          /\ \A w \in Users : w /= u => user'[w] = user[w]
      BY <2>1, InformerForChanges DEF TypeInv
    <3>2. /\ informers' = informers \cup {k} /\ UNCHANGED <<startedInformers, lists>>
      BY <2>1 DEF InformerFor, Requested, informer
    <3>3. Waits(u)'
      BY <3>1, <3>2 DEF Waits
    <3>4. \A w \in Users : Waits(w)'
      BY <1>2, <3>1, <3>2, <3>3, OthersWait
    <3>5. QED
      BY <3>4 DEF WaitInv
  <2>2. ASSUME NEW k \in Kinds, LateInformerFor(u, k) PROVE WaitInv'
    <3>1. UNCHANGED <<user, startedInformers, lists>> /\ informers \subseteq informers'
      BY <2>2 DEF LateInformerFor, Requested, informer
    <3>2. QED
      BY <1>1, <1>2, <3>1
  <2>3. CASE Start(u)
    <3>1. user[u].pc = "requested" /\ user[u].kind \in informers
      BY <2>3 DEF Start, IsAt, WaitInv, Waits
    <3>2. /\ user'[u].pc = "started" /\ user'[u].kind = user[u].kind
          /\ \A w \in Users : w /= u => user'[w] = user[w]
      BY <2>3, GotoChanges DEF TypeInv, Start, Steps
    <3>3. /\ UNCHANGED <<informers, lists>> /\ startedInformers' = informers
          /\ startedInformers \subseteq informers
      BY <2>3 DEF Start, TypeInv, FactoryInv
    <3>4. Waits(u)'
      BY <3>1, <3>2, <3>3 DEF Waits
    <3>5. \A w \in Users : Waits(w)'
      BY <1>2, <3>2, <3>3, <3>4, OthersWait
    <3>6. QED
      BY <3>5 DEF WaitInv
  <2>4. CASE WaitForCacheSync(u)
    <3>1. /\ user[u].kind \in informers /\ user[u].kind \in startedInformers
      BY <2>4 DEF WaitForCacheSync, IsAt, WaitInv, Waits
    <3>2. /\ user'[u].pc = "waiting" /\ user'[u].kind = user[u].kind
          /\ user'[u].awaits = ToAwait
          /\ \A w \in Users : w /= u => user'[w] = user[w]
      BY <2>4, WaitChanges DEF TypeInv
    <3>3. UNCHANGED <<informers, startedInformers, lists>>
      BY <2>4 DEF WaitForCacheSync, factory, informer
    <3>4. Waits(u)'
      BY <3>1, <3>2, <3>3 DEF Waits, ToAwait
    <3>5. \A w \in Users : Waits(w)'
      BY <1>2, <3>2, <3>3, <3>4, OthersWait
    <3>6. QED
      BY <3>5 DEF WaitInv
  <2>5. CASE Synced(u) \/ NotSynced(u)
    <3>1. /\ user[u].kind \in informers /\ user[u].kind \in startedInformers
          /\ user[u].kind \in user[u].awaits
      BY <2>5 DEF Synced, NotSynced, IsAt, WaitInv, Waits
    <3>2. /\ user'[u].kind = user[u].kind
          /\ \A w \in Users : w /= u => user'[w] = user[w]
          /\ \/ user'[u].pc = "ready" /\ lists[user[u].kind] > 0
             \/ user'[u].pc = "done"
      BY <2>5, <3>1, GotoChanges DEF TypeInv, Synced, NotSynced, HasSynced, Steps
    <3>3. UNCHANGED <<informers, startedInformers, lists>>
      BY <2>5 DEF Synced, NotSynced, factory, informer
    <3>4. Waits(u)'
      BY <3>1, <3>2, <3>3 DEF Waits
    <3>5. \A w \in Users : Waits(w)'
      BY <1>2, <3>2, <3>3, <3>4, OthersWait
    <3>6. QED
      BY <3>5 DEF WaitInv
  <2>6. ASSUME NEW n \in Names, ListerGet(u, n) \/ ClientGet(u, n) PROVE WaitInv'
    <3>1. user[u].pc = "ready" /\ UNCHANGED <<factory, informer>>
      BY <2>6 DEF ListerGet, ClientGet, IsAt
    <3>2. /\ user'[u].pc \in {"holding", "copied"} /\ user'[u].kind = user[u].kind
          /\ \A w \in Users : w /= u => user'[w] = user[w]
      BY <2>6 DEF TypeInv, UserInv, UserStates, ListerGet, ClientGet, Hold
    <3>3. QED
      BY <3>1, <3>2, ReaderWaits
  <2>7. CASE DeepCopy(u)
    <3>1. user[u].pc = "holding" /\ UNCHANGED <<factory, informer>>
      BY <2>7 DEF DeepCopy, IsAt
    <3>2. /\ user'[u].pc = "copied" /\ user'[u].kind = user[u].kind
          /\ \A w \in Users : w /= u => user'[w] = user[w]
      BY <2>7 DEF TypeInv, UserInv, UserStates, DeepCopy, Hold
    <3>3. QED
      BY <3>1, <3>2, ReaderWaits
  <2>8. ASSUME NEW p, Edit(u, p) PROVE WaitInv'
    <3>1. user[u].pc = "copied" /\ UNCHANGED <<factory, informer>>
      BY <2>8 DEF Edit, IsAt
    <3>2. /\ user'[u].pc = "edited" /\ user'[u].kind = user[u].kind
          /\ \A w \in Users : w /= u => user'[w] = user[w]
      BY <2>8, GotoChanges DEF TypeInv, Edit, Steps
    <3>3. QED
      BY <3>1, <3>2, ReaderWaits
  <2>9. CASE Update(u) \/ UpdateRefused(u)
    <3>1. user[u].pc = "edited" /\ UNCHANGED <<factory, informer>> /\ Release(u)
      BY <2>9 DEF Update, UpdateRefused, IsAt
    <3>2. /\ user'[u].pc = "ready" /\ user'[u].kind = user[u].kind
          /\ \A w \in Users : w /= u => user'[w] = user[w]
      BY <3>1, HoldChanges DEF TypeInv, Release, Steps
    <3>3. QED
      BY <3>1, <3>2, ReaderWaits
  <2>10. QED
    BY <1>3, <2>1, <2>2, <2>3, <2>4, <2>5, <2>6, <2>7, <2>8, <2>9 DEF Use
<1>4. ASSUME NEW k \in Kinds, Reflect(k) \/ Break(k) \/ Clients(k) PROVE WaitInv'
  <2>1. UNCHANGED <<user, informers, startedInformers>>
    BY <1>4 DEF Reflect, List, Watch, Event, Break, Clients, Create, Patch, Delete, Others, factory
  <2>2. lists' = lists \/ lists' = [lists EXCEPT ![k] = lists[k] + 1]
    BY <1>4 DEF Reflect, List, Watch, Event, Break, Clients, Create, Patch, Delete, Others, informer
  <2>3. \A c \in Kinds : lists'[c] >= lists[c]
    <3>1. CASE lists' = lists
      BY <1>2, <3>1
    <3>2. CASE lists' = [lists EXCEPT ![k] = lists[k] + 1]
      <4>1. lists \in [Kinds -> Nat]
        BY DEF TypeInv, InformerInv
      <4>2. QED
        BY <1>2, <3>2, <4>1
    <3>3. QED
      BY <2>2, <3>1, <3>2
  <2>4. QED
    BY <1>1, <2>1, <2>3
<1>5. CASE Stop \/ UNCHANGED vars
  <2>1. UNCHANGED <<user, informers, startedInformers, lists>>
    BY <1>5 DEF Stop, vars, factory, informer
  <2>2. QED
    BY <1>1, <1>2, <2>1
<1>6. QED
  BY <1>3, <1>4, <1>5 DEF Next

(* Whoever comes out of WaitForCacheSync reads from a filled cache, however many
   goroutines ask for informers and start them in whatever order. *)
THEOREM WaitersFindCachesFilled == Spec => []WaitedIsFilled
<1>1. Init => WaitInv
  BY DEF Init, WaitInv, Waits
<1>2. WaitInv => WaitedIsFilled
  BY DEF WaitInv, Waits, WaitedIsFilled, HasSynced
<1>3. QED
  BY <1>1, <1>2, NextWaits, TypeInvHolds, PTL DEF Spec

-----------------------------------------------------------------------------
(* A cell that goroutines may write: one of their own, or a Prepare. *)
IsWritable(c) == DOMAIN c = 1 .. 2 \/ c[5] = "prepare"

(* What a copy shares with the job it was made of is no part but Prepare. *)
CellInv ==
  /\ \A c \in edited : IsWritable(c)
  /\ \A u \in Users : user[u].pc = "holding" =>
       \A p \in Parts(user[u].job.kind) \ Copied(user[u].job.kind) :
         IsWritable(user[u].job.parts[p])
  /\ \A u \in Users : user[u].pc \in {"copied", "edited"} =>
       \A p \in Parts(user[u].job.kind) : IsWritable(user[u].job.parts[p])

LEMMA OwnIsWritable == \A u, p : IsWritable(<<u, p>>)
  BY DEF IsWritable

LEMMA CachedIsWritable ==
  ASSUME NEW k \in Kinds, NEW n \in Names, NEW p \in Parts(k)
  PROVE  IsWritable(Cached(k, n).parts[p]) <=> p = "prepare"
<1>1. Cached(k, n).parts[p] = <<k, n, lists[k], cache[k][n], p>>
  BY DEF Cached
<1>2. /\ DOMAIN <<k, n, lists[k], cache[k][n], p>> = 1 .. 5
      /\ <<k, n, lists[k], cache[k][n], p>>[5] = p
      /\ 5 \in 1 .. 5 /\ 5 \notin 1 .. 2
  OBVIOUS
<1>3. QED
  BY <1>1, <1>2 DEF IsWritable

LEMMA NotCopiedIsPrepare ==
  \A k \in Kinds : \A p \in Parts(k) \ Copied(k) : p = "prepare"
  BY DEF Kinds, Parts, Copied, SlurmJobSpec, WlmJobSpec, CopiedSlurmJobSpec, CopiedWlmJobSpec

LEMMA CellsUnchanged ==
  ASSUME CellInv, UNCHANGED user, edited' \subseteq edited
  PROVE  CellInv'
  BY DEF CellInv

LEMMA NextCells == TypeInv /\ CellInv /\ [Next]_vars => CellInv'
<1> SUFFICES ASSUME TypeInv, CellInv, [Next]_vars PROVE CellInv'
  OBVIOUS
<1>1. ASSUME NEW u \in Users,
             user'[u].pc \notin {"holding", "copied", "edited"}, edited' \subseteq edited,
             \A w \in Users : w /= u => user'[w] = user[w]
      PROVE  CellInv'
  BY <1>1 DEF CellInv
<1>2. ASSUME NEW u \in Users, Use(u) PROVE CellInv'
  <2>1. ASSUME NEW k \in Kinds, InformerFor(u, k) PROVE CellInv'
    <3>1. user'[u].pc = "requested" /\ \A w \in Users : w /= u => user'[w] = user[w]
      BY <2>1, InformerForChanges DEF TypeInv
    <3>2. QED
      BY <1>1, <2>1, <3>1 DEF InformerFor
  <2>2. ASSUME NEW k \in Kinds, LateInformerFor(u, k) PROVE CellInv'
    BY <2>2, CellsUnchanged DEF LateInformerFor
  <2>3. CASE Start(u) \/ Synced(u) \/ NotSynced(u)
    <3>1. /\ user'[u].pc \in {"started", "ready", "done"}
          /\ \A w \in Users : w /= u => user'[w] = user[w]
      BY <2>3, GotoChanges DEF TypeInv, Start, Synced, NotSynced, Steps
    <3>2. QED
      BY <1>1, <2>3, <3>1 DEF Start, Synced, NotSynced
  <2>4. CASE WaitForCacheSync(u)
    <3>1. user'[u].pc = "waiting" /\ \A w \in Users : w /= u => user'[w] = user[w]
      BY <2>4, WaitChanges DEF TypeInv
    <3>2. QED
      BY <1>1, <2>4, <3>1 DEF WaitForCacheSync
  <2>5. ASSUME NEW n \in Names, ListerGet(u, n) PROVE CellInv'
    <3> DEFINE k == user[u].kind
    <3>1. k \in Kinds /\ Hold(u, "holding", Cached(k, n)) /\ edited' = edited
      BY <2>5 DEF TypeInv, UserInv, ListerGet, IsAt
    <3>2. Cached(k, n) \in Jobs /\ Cached(k, n).kind = k
      BY <3>1, CachedType DEF TypeInv
    <3>3. /\ user'[u].pc = "holding" /\ user'[u].job = Cached(k, n)
          /\ \A w \in Users : w /= u => user'[w] = user[w]
      BY <3>1, <3>2, HoldChanges DEF TypeInv, Steps
    <3>4. \A p \in Parts(k) \ Copied(k) : IsWritable(Cached(k, n).parts[p])
      BY <3>1, NotCopiedIsPrepare, CachedIsWritable
    <3>5. QED
      BY <3>1, <3>2, <3>3, <3>4 DEF CellInv
  <2>6. ASSUME NEW n \in Names, ClientGet(u, n) PROVE CellInv'
    <3> DEFINE k == user[u].kind
               job == Own(u, k, n, server[k][n])
    <3>1. k \in Kinds /\ Hold(u, "copied", job) /\ edited' = edited
      BY <2>6 DEF TypeInv, UserInv, ClientGet, IsAt
    <3>2. server[k][n] \in Versions \cup {Absent}
      BY <3>1 DEF TypeInv, StoreInv
    <3>3. job \in Jobs /\ job.kind = k
      BY <3>1, <3>2, OwnType
    <3>4. /\ user'[u].pc = "copied" /\ user'[u].job = job
          /\ \A w \in Users : w /= u => user'[w] = user[w]
      BY <3>1, <3>3, HoldChanges DEF TypeInv, Steps
    <3>5. \A p \in Parts(k) : IsWritable(job.parts[p])
      BY OwnIsWritable DEF Own
    <3>6. QED
      BY <3>1, <3>3, <3>4, <3>5 DEF CellInv
  <2>7. CASE DeepCopy(u)
    <3> DEFINE job == user[u].job
    <3>1. user[u].pc = "holding" /\ Hold(u, "copied", CopyFor(u, job))
      BY <2>7 DEF DeepCopy, IsAt
    <3>2. job \in Jobs /\ job.parts \in [Parts(job.kind) -> Cells]
      BY <3>1 DEF TypeInv, UserInv
    <3>3. CopyFor(u, job) \in Jobs /\ CopyFor(u, job).kind = job.kind
      BY <3>2, CopyType
    <3>4. /\ user'[u].pc = "copied" /\ user'[u].job = CopyFor(u, job)
          /\ \A w \in Users : w /= u => user'[w] = user[w]
      BY <3>1, <3>3, HoldChanges DEF TypeInv, Steps
    <3>5. \A p \in Parts(job.kind) : CopyFor(u, job).parts[p] =
            IF p \in Copied(job.kind) THEN <<u, p>> ELSE job.parts[p]
      BY <3>2 DEF CopyFor, Jobs
    <3>6. \A p \in Parts(job.kind) : IsWritable(CopyFor(u, job).parts[p])
      BY <3>1, <3>5, OwnIsWritable DEF CellInv
    <3>7. \A c \in edited' : IsWritable(c)
      BY <2>7, OwnIsWritable DEF DeepCopy, CellInv
    <3>8. QED
      BY <3>3, <3>4, <3>6, <3>7 DEF CellInv
  <2>8. ASSUME NEW p, Edit(u, p) PROVE CellInv'
    <3>1. /\ user[u].pc = "copied" /\ p \in Parts(user[u].job.kind)
          /\ edited' = edited \cup {user[u].job.parts[p]}
      BY <2>8 DEF Edit, IsAt
    <3>2. /\ user'[u].pc = "edited" /\ user'[u].job = user[u].job
          /\ \A w \in Users : w /= u => user'[w] = user[w]
      BY <2>8, GotoChanges DEF TypeInv, Edit, Steps
    <3>3. QED
      BY <3>1, <3>2 DEF CellInv
  <2>9. CASE Update(u) \/ UpdateRefused(u)
    <3>1. Release(u) /\ edited' \subseteq edited
      BY <2>9 DEF Update, UpdateRefused, Collect
    <3>2. user'[u].pc = "ready" /\ \A w \in Users : w /= u => user'[w] = user[w]
      BY <3>1, HoldChanges DEF TypeInv, Release, Steps
    <3>3. QED
      BY <1>1, <3>1, <3>2
  <2>10. QED
    BY <1>2, <2>1, <2>2, <2>3, <2>4, <2>5, <2>6, <2>7, <2>8, <2>9 DEF Use
<1>3. ASSUME NEW k \in Kinds, Reflect(k) \/ Break(k) \/ Clients(k) PROVE CellInv'
  <2>1. UNCHANGED user /\ edited' \subseteq edited
    BY <1>3 DEF Reflect, List, Watch, Event, Break, Clients, Create, Patch, Delete, Others, Collect
  <2>2. QED
    BY <2>1, CellsUnchanged
<1>4. CASE Stop \/ UNCHANGED vars
  BY <1>4, CellsUnchanged DEF Stop, vars
<1>5. QED
  BY <1>2, <1>3, <1>4 DEF Next

(* The copies that DeepCopy makes share nothing with the cache but the Prepare of
   a SlurmJob: whatever goroutines write into them, every other part of every
   cached job stays as the server sent it. *)
THEOREM CachesAreServed == Spec => []CacheIsServedButPrepare
<1>1. Init => CellInv
  BY DEF Init, CellInv
<1>2. CellInv => CacheIsServedButPrepare
  BY CachedIsWritable DEF CellInv, CacheIsServedButPrepare
<1>3. QED
  BY <1>1, <1>2, NextCells, TypeInvHolds, PTL DEF Spec
=============================================================================
