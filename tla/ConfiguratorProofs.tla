------------------------- MODULE ConfiguratorProofs -------------------------
(***************************************************************************)
(* Configurators leave one another's virtual kubelets, and those of the    *)
(* partitions that Slurm lists, alone: Configurator satisfies TypeOK and   *)
(* KubeletsAreLeftAlone for all clusters, partitions, orders of the lists, *)
(* changes, failures and crashes.                                          *)
(***************************************************************************)
EXTENDS Configurator, WellFoundedInduction, TLAPS

----------------------------------------------------------------------------
(* Lists                                                                   *)

(* Induction over the natural numbers, for a set in place of a predicate.  *)
LEMMA SetInduction ==
    ASSUME NEW S, 0 \in S, \A n \in Nat : n \in S => n + 1 \in S
    PROVE  Nat \subseteq S
<1> DEFINE T == Nat \ S
           R == {ss \in Nat \X Nat : ss[1] < ss[2]}
<1>1. SUFFICES ASSUME T # {} PROVE FALSE
  OBVIOUS
<1>2. IsWellFoundedOn(R, Nat)
  BY NatLessThanWellFounded DEF OpToRel
<1>3. T \subseteq Nat
  OBVIOUS
<1> HIDE DEF T, R
<1>4. PICK m \in T : \A y \in T : ~ (<<y, m>> \in R)
  BY <1>1, <1>2, <1>3, WFMin, Zenon
<1>5. m \in Nat /\ m \notin S
  BY <1>4 DEF T
<1>6. m # 0 /\ m - 1 \in Nat
  BY <1>5
<1>7. m - 1 \in T
  BY <1>5, <1>6 DEF T
<1>8. <<m - 1, m>> \in R
  BY <1>5, <1>6 DEF R
<1>9. QED
  BY <1>4, <1>7, <1>8

(* What is kept of the first i elements, given what is of those before.    *)
KeptOf(s, S, kept, i) ==
    IF i = 0 THEN <<>>
    ELSE IF s[i] \in S THEN Append(kept[i - 1], s[i]) ELSE kept[i - 1]

KeepsUpTo(s, S, kept, n) == kept = [i \in 0..n |-> KeptOf(s, S, kept, i)]

LEMMA KeepExists ==
    ASSUME NEW s, NEW S
    PROVE  \A n \in Nat : \E kept : KeepsUpTo(s, S, kept, n)
<1> DEFINE Good == {n \in Nat : \E kept : KeepsUpTo(s, S, kept, n)}
<1>1. 0 \in Good
  <2> DEFINE kept == [i \in 0..0 |-> <<>>]
  <2>1. KeepsUpTo(s, S, kept, 0)
    BY DEF KeepsUpTo, KeptOf
  <2>2. QED
    BY <2>1
<1>2. ASSUME NEW n \in Nat, n \in Good PROVE n + 1 \in Good
  <2>1. PICK kept : KeepsUpTo(s, S, kept, n)
    BY <1>2
  <2> DEFINE more == [i \in 0..(n + 1) |-> IF i <= n THEN kept[i] ELSE KeptOf(s, S, kept, i)]
  <2>2. \A i \in 0..n : more[i] = KeptOf(s, S, kept, i)
    BY <2>1 DEF KeepsUpTo
  <2>3. \A i \in 0..(n + 1) : more[i] = KeptOf(s, S, kept, i)
    <3>1. \A i \in 0..(n + 1) : i \in 0..n \/ ~(i <= n)
      OBVIOUS
    <3>2. \A i \in 0..(n + 1) : ~(i <= n) => more[i] = KeptOf(s, S, kept, i)
      BY Zenon
    <3>3. QED
      BY <2>2, <3>1, <3>2, Zenon
  <2>4. \A i \in 0..(n + 1) : i # 0 => more[i - 1] = kept[i - 1]
    OBVIOUS
  <2>5. \A i \in 0..(n + 1) : KeptOf(s, S, kept, i) = KeptOf(s, S, more, i)
    BY <2>4 DEF KeptOf
  <2>6. more = [i \in 0..(n + 1) |-> KeptOf(s, S, more, i)]
    BY <2>3, <2>5
  <2>7. KeepsUpTo(s, S, more, n + 1)
    BY <2>6 DEF KeepsUpTo
  <2>8. QED
    BY <2>7
<1>3. Nat \subseteq Good
  <2> HIDE DEF Good
  <2>1. QED
    BY <1>1, <1>2, SetInduction
<1>4. QED
  BY <1>3

LEMMA KeepElements ==
    ASSUME NEW T, NEW s \in Seq(T), NEW S
    PROVE  Keep(s, S) \in Seq(T \cap S)
<1> DEFINE kept == CHOOSE kept : KeepsUpTo(s, S, kept, Len(s))
           Good == {n \in Nat : n <= Len(s) => kept[n] \in Seq(T \cap S)}
<1>1. Keep(s, S) = kept[Len(s)]
  BY Zenon DEF Keep, KeepsUpTo, KeptOf
<1>2. KeepsUpTo(s, S, kept, Len(s))
  <2>1. \E x : KeepsUpTo(s, S, x, Len(s))
    <3>1. Len(s) \in Nat
      OBVIOUS
    <3>2. QED
      BY <3>1, KeepExists, Zenon
  <2>2. QED
    BY <2>1, Zenon
<1> HIDE DEF kept
<1>3. \A i \in 0..Len(s) : kept[i] = KeptOf(s, S, kept, i)
  BY <1>2 DEF KeepsUpTo
<1>4. 0 \in Good
  <2>1. kept[0] = <<>>
    BY <1>3 DEF KeptOf
  <2>2. kept[0] \in Seq(T \cap S)
    BY <2>1
  <2>3. QED
    BY <2>2
<1>5. ASSUME NEW n \in Nat, n \in Good PROVE n + 1 \in Good
  <2> SUFFICES ASSUME n + 1 <= Len(s) PROVE kept[n + 1] \in Seq(T \cap S)
    OBVIOUS
  <2>1. kept[n] \in Seq(T \cap S)
    BY <1>5
  <2>2. kept[n + 1] = IF s[n + 1] \in S THEN Append(kept[n], s[n + 1]) ELSE kept[n]
    BY <1>3 DEF KeptOf
  <2>3. s[n + 1] \in T
    OBVIOUS
  <2>4. QED
    BY <2>1, <2>2, <2>3
<1>6. Nat \subseteq Good
  <2> HIDE DEF Good
  <2>1. QED
    BY <1>4, <1>5, SetInduction
<1>7. Len(s) \in Good
  BY <1>6
<1>8. QED
  BY <1>1, <1>7

LEMMA NotInElements ==
    ASSUME NEW T, NEW s \in Seq(T), NEW t
    PROVE  NotIn(s, t) \in Seq(T) /\ Range(NotIn(s, t)) \cap Range(t) = {}
<1>1. NotIn(s, t) \in Seq(T \cap (Range(s) \ Range(t)))
  BY KeepElements DEF NotIn
<1> DEFINE x == NotIn(s, t)
<1>2. \A i \in DOMAIN x : x[i] \in T /\ x[i] \notin Range(t)
  BY <1>1
<1>3. x \in Seq(T)
  BY <1>1, <1>2
<1>4. QED
  BY <1>2, <1>3 DEF Range

LEMMA NamesOfSlurm ==
    ASSUME TypeOK, NEW h \in Hosts
    PROVE  PartitionNames(h) \in Seq(Partitions \cup {None})
<1>1. Listing \in Seq(Partitions)
  BY ConstantsAssumption
<1>2. Keep(Listing, partitions[h]) \in Seq(Partitions \cap partitions[h])
  BY <1>1, KeepElements
<1>3. Keep(Listing, partitions[h]) \in Seq(Partitions \cup {None})
  BY <1>2
<1>4. <<None>> \in Seq(Partitions \cup {None})
  OBVIOUS
<1>5. QED
  BY <1>3, <1>4, Zenon DEF PartitionNames

(* A label that is taken from a node names a partition.                    *)
LEMMA NamesOfNodes ==
    ASSUME TypeOK
    PROVE  LabelsOfNodes \in Seq(Partitions)
<1> DEFINE labelled == Keep(NodeListing, {n \in Names : IsLabelled(n)})
<1>1. labelled \in Seq(Names \cap {n \in Names : IsLabelled(n)})
  BY ConstantsAssumption, KeepElements
<1>2. LabelsOfNodes = [i \in DOMAIN labelled |-> node[labelled[i]]]
  BY DEF LabelsOfNodes
<1> HIDE DEF labelled
<1>3. \A i \in 1..Len(labelled) : node[labelled[i]] \in Partitions
  BY <1>1 DEF IsLabelled, TypeOK
<1>4. DOMAIN labelled = 1..Len(labelled) /\ Len(labelled) \in Nat
  BY <1>1
<1>5. QED
  BY <1>2, <1>3, <1>4

----------------------------------------------------------------------------
(* The invariant: what a pass is about to delete is not among the          *)
(* partitions Slurm listed in it.                                          *)

ListsApart == \A h \in Hosts : Range(pass[h].delete) \cap Range(pass[h].found) = {}

PassInv == TypeOK /\ ListsApart

PassRecord ==
    [pc : {"idle", "nodes", "create", "delete"}, found : Seq(Partitions \cup {None}),
     create : Seq(Partitions \cup {None}), delete : Seq(Partitions)]
PodRecord ==
    [state : {"none", "created", "running", "terminating"},
     partition : Partitions \cup {None}]

GoodPass(x) == x \in PassRecord /\ Range(x.delete) \cap Range(x.found) = {}

LEMMA IdleIsGood == GoodPass(Idle)
  BY DEF GoodPass, Idle, PassRecord, Range

LEMMA AnswerIsGood ==
    ASSUME NEW names \in Seq(Partitions \cup {None})
    PROVE  GoodPass([pc |-> "nodes", found |-> names, create |-> <<>>, delete |-> <<>>])
  BY DEF GoodPass, PassRecord, Range

LEMMA PassChanges ==
    ASSUME PassInv, NEW h \in Hosts, NEW x, GoodPass(x), pass' = [pass EXCEPT ![h] = x]
    PROVE  pass' \in [Hosts -> PassRecord] /\ ListsApart'
  BY DEF PassInv, TypeOK, ListsApart, PassRecord, GoodPass

LEMMA PodChanges ==
    ASSUME TypeOK, NEW n \in Names, NEW x \in PodRecord, pod' = [pod EXCEPT ![n] = x]
    PROVE  pod' \in [Names -> PodRecord]
  BY DEF TypeOK, PodRecord

LEMMA TypesAre ==
    TypeOK <=> /\ partitions \in [Hosts -> SUBSET Partitions]
               /\ pod \in [Names -> PodRecord]
               /\ node \in [Names -> Partitions \cup {None}]
               /\ pass \in [Hosts -> PassRecord]
               /\ budget \in [changes : Nat, failures : Nat]
  BY Zenon DEF TypeOK, PodRecord, PassRecord

LEMMA TypesStay ==
    ASSUME partitions' \in [Hosts -> SUBSET Partitions], pod' \in [Names -> PodRecord],
           node' \in [Names -> Partitions \cup {None}], pass' \in [Hosts -> PassRecord],
           budget' \in [changes : Nat, failures : Nat]
    PROVE  TypeOK'
  BY Zenon DEF TypeOK, PodRecord, PassRecord

LEMMA InitPassInv == Init => PassInv
<1> SUFFICES ASSUME Init PROVE PassInv
  OBVIOUS
<1>1. pass \in [Hosts -> PassRecord] /\ ListsApart
  BY IdleIsGood DEF Init, GoodPass, ListsApart
<1>2. pod \in [Names -> PodRecord]
  BY DEF Init, NoPod, PodRecord
<1>3. QED
  BY <1>1, <1>2, ConstantsAssumption, TypesAre DEF Init, PassInv

(* Slurm, the kubelet and the virtual kubelets change no pass.             *)
LEMMA ClusterStep ==
    ASSUME PassInv,
           \/ \E h \in Hosts, p \in Partitions : ChangePartition(h, p)
           \/ \E n \in Names : RegisterNode(n) \/ Evict(n) \/ PodStops(n) \/ NodeGoes(n)
    PROVE  PassInv'
<1>1. TypeOK /\ ListsApart
  BY DEF PassInv
<1>2. pass' = pass
  BY DEF ChangePartition, RegisterNode, Evict, PodStops, NodeGoes
<1>3. ListsApart'
  BY <1>1, <1>2 DEF ListsApart
<1>4. CASE \E h \in Hosts, p \in Partitions : ChangePartition(h, p)
  <2>1. PICK h \in Hosts, p \in Partitions : ChangePartition(h, p)
    BY <1>4
  <2>2. TypeOK'
    BY <1>1, <1>2, <2>1, TypesAre, TypesStay DEF ChangePartition
  <2>3. QED
    BY <1>3, <2>2 DEF PassInv
<1>5. ASSUME NEW n \in Names, RegisterNode(n) PROVE TypeOK'
  <2>1. [pod[n] EXCEPT !.state = "running"] \in PodRecord /\ pod[n].partition \in Partitions \cup {None}
    BY <1>1, TypesAre DEF PodRecord
  <2>2. pod' = [pod EXCEPT ![n] = [pod[n] EXCEPT !.state = "running"]]
    BY <1>5 DEF RegisterNode
  <2>3. QED
    BY <1>1, <1>2, <1>5, <2>1, <2>2, PodChanges, TypesAre, TypesStay DEF RegisterNode
<1>6. ASSUME NEW n \in Names, Evict(n) PROVE TypeOK'
  <2>1. [pod[n] EXCEPT !.state = "terminating"] \in PodRecord
    BY <1>1, TypesAre DEF PodRecord
  <2>2. pod' = [pod EXCEPT ![n] = [pod[n] EXCEPT !.state = "terminating"]]
    BY <1>6 DEF Evict
  <2>3. QED
    BY <1>1, <1>2, <1>6, <2>1, <2>2, PodChanges, TypesAre, TypesStay DEF Evict
<1>7. ASSUME NEW n \in Names, PodStops(n) PROVE TypeOK'
  <2>1. NoPod \in PodRecord
    BY DEF NoPod, PodRecord
  <2>2. QED
    BY <1>1, <1>2, <1>7, <2>1, PodChanges, TypesAre, TypesStay DEF PodStops
<1>8. ASSUME NEW n \in Names, NodeGoes(n) PROVE TypeOK'
  BY <1>1, <1>2, <1>8, TypesAre, TypesStay DEF NodeGoes
<1>9. QED
  BY <1>3, <1>4, <1>5, <1>6, <1>7, <1>8 DEF PassInv

(* The two questions of a pass, and the end of one.                        *)
LEMMA AskingStep ==
    ASSUME PassInv, NEW h \in Hosts,
           \/ FindPartitions(h) \/ FindNodes(h) \/ FindFails(h)
           \/ Created(h) \/ Deleted(h) \/ Crash(h)
    PROVE  PassInv'
<1>1. TypeOK /\ pass[h] \in PassRecord /\ Range(pass[h].delete) \cap Range(pass[h].found) = {}
  BY TypesAre DEF PassInv, ListsApart
<1>2. /\ partitions' = partitions /\ pod' = pod /\ node' = node
      /\ budget' \in [changes : Nat, failures : Nat]
  BY <1>1, TypesAre DEF FindPartitions, FindNodes, FindFails, Created, Deleted, Crash
<1>3. \E x : GoodPass(x) /\ pass' = [pass EXCEPT ![h] = x]
  <2>1. CASE FindPartitions(h)
    <3> DEFINE x == [pc |-> "nodes", found |-> PartitionNames(h),
                     create |-> <<>>, delete |-> <<>>]
    <3>1. PartitionNames(h) \in Seq(Partitions \cup {None})
      BY <1>1, NamesOfSlurm
    <3>2. GoodPass(x)
      BY <3>1, AnswerIsGood
    <3>3. QED
      BY <2>1, <3>2 DEF FindPartitions
  <2>2. CASE FindNodes(h)
    <3> DEFINE x == [pc |-> "create", found |-> pass[h].found,
                     create |-> NotIn(pass[h].found, LabelsOfNodes),
                     delete |-> NotIn(LabelsOfNodes, pass[h].found)]
    <3>1. pass[h].found \in Seq(Partitions \cup {None}) /\ LabelsOfNodes \in Seq(Partitions)
      BY <1>1, NamesOfNodes DEF PassRecord
    <3>2. /\ x.create \in Seq(Partitions \cup {None}) /\ x.delete \in Seq(Partitions)
          /\ Range(x.delete) \cap Range(x.found) = {}
      BY <3>1, NotInElements
    <3>3. GoodPass(x)
      BY <3>1, <3>2 DEF GoodPass, PassRecord
    <3>4. QED
      BY <2>2, <3>3 DEF FindNodes
  <2>3. CASE Created(h)
    <3> DEFINE x == [pass[h] EXCEPT !.pc = "delete"]
    <3>1. GoodPass(x)
      BY <1>1 DEF GoodPass, PassRecord
    <3>2. pass' = [pass EXCEPT ![h] = x]
      BY <2>3 DEF Created
    <3>3. QED
      BY <3>1, <3>2
  <2>4. CASE FindFails(h) \/ Deleted(h) \/ Crash(h)
    BY <2>4, IdleIsGood DEF FindFails, Deleted, Crash
  <2>5. QED
    BY <2>1, <2>2, <2>3, <2>4
<1>4. pass' \in [Hosts -> PassRecord] /\ ListsApart'
  BY <1>3, PassChanges
<1>5. QED
  BY <1>1, <1>2, <1>4, TypesAre, TypesStay DEF PassInv

LEMMA RestOfList ==
    ASSUME NEW T, NEW s \in Seq(T), s # <<>>
    PROVE  Head(s) \in T /\ Tail(s) \in Seq(T) /\ Range(Tail(s)) \subseteq Range(s)
<1>1. Head(s) \in T /\ Tail(s) \in Seq(T) /\ Len(Tail(s)) = Len(s) - 1
  OBVIOUS
<1>2. \A i \in 1..Len(Tail(s)) : Tail(s)[i] = s[i + 1] /\ i + 1 \in 1..Len(s)
  OBVIOUS
<1>3. QED
  BY <1>1, <1>2 DEF Range

LEMMA GoodNow ==
    ASSUME PassInv, NEW h \in Hosts
    PROVE  TypeOK /\ GoodPass(pass[h])
  BY TypesAre DEF PassInv, ListsApart, GoodPass

(* A pod is created for a partition and deleted by its name.               *)
LEMMA CreateStep ==
    ASSUME PassInv, NEW h \in Hosts, CreatePod(h) \/ CreateFails(h)
    PROVE  PassInv'
<1>1. TypeOK /\ GoodPass(pass[h])
  BY GoodNow
<1> DEFINE todo == pass[h].create
<1>2. todo \in Seq(Partitions \cup {None}) /\ todo # <<>>
  BY <1>1 DEF GoodPass, PassRecord, CreatePod, CreateFails
<1>3. Head(todo) \in Partitions \cup {None} /\ Tail(todo) \in Seq(Partitions \cup {None})
  BY <1>2
<1>4. /\ partitions' = partitions /\ node' = node
      /\ budget' \in [changes : Nat, failures : Nat]
  BY <1>1, TypesAre DEF CreatePod, CreateFails
<1>5. pod' \in [Names -> PodRecord]
  <2>1. CASE pod' = pod
    BY <1>1, <2>1, TypesAre
  <2>2. CASE MayCreate(h, Head(todo)) /\ Create(h, Head(todo))
    <3>1. Head(todo) \in Partitions
      BY <1>3, <2>2 DEF MayCreate
    <3>2. NameOf[h, Head(todo)] \in Names
      BY <3>1, ConstantsAssumption
    <3>3. [state |-> "created", partition |-> Head(todo)] \in PodRecord
      BY <3>1 DEF PodRecord
    <3>4. QED
      BY <1>1, <2>2, <3>2, <3>3, PodChanges DEF Create
  <2>3. QED
    BY <2>1, <2>2 DEF CreatePod, CreateFails
<1>6. \/ pass' = [pass EXCEPT ![h] = [pass[h] EXCEPT !.create = Tail(todo)]]
      \/ pass' = [pass EXCEPT ![h] = [pass[h] EXCEPT !.create = <<>>]]
  BY DEF CreatePod, CreateFails
<1>7. /\ GoodPass([pass[h] EXCEPT !.create = Tail(todo)])
      /\ GoodPass([pass[h] EXCEPT !.create = <<>>])
  <2> DEFINE x == pass[h]
  <2>1. \A t \in Seq(Partitions \cup {None}) : GoodPass([x EXCEPT !.create = t])
    BY <1>1 DEF GoodPass, PassRecord
  <2>2. <<>> \in Seq(Partitions \cup {None})
    OBVIOUS
  <2>3. QED
    BY <1>3, <2>1, <2>2
<1>8. pass' \in [Hosts -> PassRecord] /\ ListsApart'
  BY <1>6, <1>7, PassChanges
<1>9. QED
  BY <1>1, <1>4, <1>5, <1>8, TypesAre, TypesStay DEF PassInv

LEMMA DeleteStep ==
    ASSUME PassInv, NEW h \in Hosts, DeletePod(h) \/ DeleteFails(h)
    PROVE  PassInv'
<1>1. TypeOK /\ GoodPass(pass[h])
  BY GoodNow
<1> DEFINE todo == pass[h].delete
           n == NameOf[h, Head(todo)]
<1>2. todo \in Seq(Partitions) /\ todo # <<>>
  BY <1>1 DEF GoodPass, PassRecord, DeletePod, DeleteFails
<1>3. /\ Head(todo) \in Partitions /\ Tail(todo) \in Seq(Partitions)
      /\ Range(Tail(todo)) \subseteq Range(todo)
  BY <1>2, RestOfList
<1>4. /\ partitions' = partitions /\ node' = node
      /\ budget' \in [changes : Nat, failures : Nat]
  BY <1>1, TypesAre DEF DeletePod, DeleteFails
<1>5. pod' \in [Names -> PodRecord]
  <2>1. CASE pod' = pod
    BY <1>1, <2>1, TypesAre
  <2>2. CASE Delete(n)
    <3>1. n \in Names
      BY <1>3, ConstantsAssumption
    <3>2. [pod[n] EXCEPT !.state = "terminating"] \in PodRecord
      BY <1>1, <3>1, TypesAre DEF PodRecord
    <3>3. pod' = [pod EXCEPT ![n] = [pod[n] EXCEPT !.state = "terminating"]]
      BY <2>2 DEF Delete
    <3>4. QED
      BY <1>1, <3>1, <3>2, <3>3, PodChanges
  <2>3. QED
    BY <2>1, <2>2 DEF DeletePod, DeleteFails, NamesToDelete
<1>6. \/ pass' = [pass EXCEPT ![h] = [pass[h] EXCEPT !.delete = Tail(todo)]]
      \/ pass' = [pass EXCEPT ![h] = [pass[h] EXCEPT !.delete = <<>>]]
  BY DEF DeletePod, DeleteFails, NamesToDelete
<1>7. <<>> \in Seq(Partitions) /\ Range(<<>>) = {}
  BY DEF Range
<1>8. /\ GoodPass([pass[h] EXCEPT !.delete = Tail(todo)])
      /\ GoodPass([pass[h] EXCEPT !.delete = <<>>])
  <2> DEFINE x == pass[h]
  <2>1. \A t \in Seq(Partitions) : Range(t) \subseteq Range(x.delete) =>
          GoodPass([x EXCEPT !.delete = t])
    BY <1>1 DEF GoodPass, PassRecord
  <2>2. QED
    BY <1>3, <1>7, <2>1
<1>9. pass' \in [Hosts -> PassRecord] /\ ListsApart'
  BY <1>6, <1>8, PassChanges
<1>10. QED
  BY <1>1, <1>4, <1>5, <1>9, TypesAre, TypesStay DEF PassInv

LEMMA PassInvariant == Spec => []PassInv
<1>1. PassInv /\ [Next]_vars => PassInv'
  <2> SUFFICES ASSUME PassInv, [Next]_vars PROVE PassInv'
    OBVIOUS
  <2>1. CASE UNCHANGED vars
    <3>1. ListsApart'
      BY <2>1 DEF PassInv, ListsApart, vars
    <3>2. TypeOK'
      BY <2>1, TypesAre, TypesStay DEF PassInv, vars
    <3>3. QED
      BY <3>1, <3>2 DEF PassInv
  <2>2. CASE Next
    BY <2>2, ClusterStep, AskingStep, CreateStep, DeleteStep, Zenon DEF Next, PassStep
  <2>3. QED
    BY <2>1, <2>2
<1>2. QED
  BY <1>1, InitPassInv, PTL DEF Spec

----------------------------------------------------------------------------
(* The properties                                                          *)

(* In any cluster every variable has its type: what a pass deletes are     *)
(* names of partitions, since labels are taken from labelled nodes only,   *)
(* and the name an empty answer of Slurm is read as creates no pod.        *)
THEOREM TypeCorrect == Spec => []TypeOK
<1>1. PassInv => TypeOK
  BY DEF PassInv
<1>2. QED
  BY <1>1, PassInvariant, PTL

(* partitionNodeName gives different partitions and hosts different names: *)
(* no host has two partitions that differ only in the case of letters.     *)
DistinctNames ==
    \A g, h \in Hosts : \A p, q \in Partitions :
      NameOf[g, p] = NameOf[h, q] => g = h /\ p = q

Differ(x, r, y, t) == NameOf[x, r] = NameOf[y, t] => x = y /\ r = t

LEMMA NamesDiffer ==
    ASSUME DistinctNames
    PROVE  \A x, y \in Hosts : \A r, t \in Partitions : Differ(x, r, y, t)
  BY DEF DistinctNames, Differ

LEMMA TailDiffers ==
    ASSUME NEW T, NEW s \in Seq(T), s # <<>>
    PROVE  Tail(s) # s
<1>1. Len(Tail(s)) = Len(s) - 1 /\ Len(s) \in Nat
  OBVIOUS
<1>2. ASSUME Tail(s) = s PROVE FALSE
  <2>1. Len(Tail(s)) = Len(s)
    BY <1>2, Zenon
  <2>2. QED
    BY <1>1, <2>1
<1>3. QED
  BY <1>2, Zenon

LEMMA DeletedNames ==
    ASSUME PassInv, NEW h \in Hosts, DeletePod(h) \/ DeleteFails(h)
    PROVE  /\ Head(pass[h].delete) \in Partitions
           /\ Head(pass[h].delete) \notin Range(pass[h].found)
           /\ pass'[h] # pass[h]
<1> DEFINE todo == pass[h].delete
<1>1. /\ pass \in [Hosts -> PassRecord] /\ todo \in Seq(Partitions) /\ todo # <<>>
      /\ Range(todo) \cap Range(pass[h].found) = {}
  <2>1. TypeOK /\ GoodPass(pass[h])
    BY GoodNow
  <2>2. QED
    BY <2>1, TypesAre DEF GoodPass, PassRecord, DeletePod, DeleteFails
<1>2. \/ pass' = [pass EXCEPT ![h] = [pass[h] EXCEPT !.delete = Tail(todo)]]
      \/ pass' = [pass EXCEPT ![h] = [pass[h] EXCEPT !.delete = <<>>]]
  BY DEF DeletePod, DeleteFails, NamesToDelete
<1>3. pass'[h].delete = Tail(todo) \/ pass'[h].delete = <<>>
  BY <1>1, <1>2 DEF PassRecord
<1>4. Tail(todo) # todo /\ <<>> # todo
  BY <1>1, TailDiffers
<1>5. Head(todo) \in Range(todo) /\ Head(todo) \in Partitions
  BY <1>1 DEF Range
<1>6. QED
  BY <1>1, <1>3, <1>4, <1>5

LEMMA Decreases == \A a \in Nat : \A b : b = a - 1 => b < a
  OBVIOUS

(* createNodeForPartitions and deleteControllingPod of one configurator    *)
(* stop no virtual kubelet of another and none whose partition Slurm       *)
(* listed in the same pass, although its lists hold the nodes of all.      *)
THEOREM OthersAreLeftAlone == DistinctNames => (Spec => KubeletsAreLeftAlone)
<1>0. SUFFICES ASSUME DistinctNames PROVE Spec => KubeletsAreLeftAlone
  OBVIOUS
<1> DEFINE Stopped(h, p) ==
             IsAlive(NameOf[h, p]) /\ ~IsAlive(NameOf[h, p])'
           Excused(h, p) ==
             \/ budget'.changes < budget.changes
             \/ pass'[h] # pass[h] /\ p \notin Range(pass[h].found)
           LeftAlone == \A h \in Hosts : \A p \in PartitionsOf[h] :
                          Stopped(h, p) => Excused(h, p)
<1>1. PassInv /\ [Next]_vars => [LeftAlone]_vars
  <2> SUFFICES ASSUME PassInv, Next, NEW h \in Hosts, NEW p \in PartitionsOf[h],
                      Stopped(h, p)
               PROVE  Excused(h, p)
    BY Zenon DEF KubeletsAreLeftAlone
  <2> DEFINE name == NameOf[h, p]
  <2>1. p \in Partitions /\ name \in Names
    BY ConstantsAssumption
  <2>2. TypeOK /\ pod \in [Names -> PodRecord] /\ pod[name] \in PodRecord
    BY <2>1, TypesAre DEF PassInv
  <2>3. pod[name].state \in {"created", "running"} /\ ~(pod'[name].state \in {"created", "running"})
    BY DEF IsAlive
  <2>4. CASE pod' = pod
    BY <2>3, <2>4
  <2>5. ASSUME NEW n \in Names, RegisterNode(n) PROVE FALSE
    <3>1. pod'[name] = pod[name] \/ pod'[name].state = "running"
      BY <2>1, <2>2, <2>5 DEF RegisterNode, PodRecord
    <3>2. QED
      BY <2>3, <3>1
  <2>6. ASSUME NEW n \in Names, Evict(n) PROVE Excused(h, p)
    <3>1. budget.changes \in Nat /\ budget'.changes = budget.changes - 1
      BY <2>2, <2>6, TypesAre DEF Evict
    <3>2. budget'.changes < budget.changes
      BY <3>1, Decreases, Zenon
    <3>3. QED
      BY <3>2, Zenon
  <2>7. ASSUME NEW n \in Names, PodStops(n) PROVE FALSE
    BY <2>1, <2>2, <2>3, <2>7, TypesAre DEF PodStops
  <2>8. ASSUME NEW g \in Hosts, NEW q, MayCreate(g, q), Create(g, q) PROVE FALSE
    BY <2>1, <2>2, <2>3, <2>8, TypesAre DEF Create
  <2>9. ASSUME NEW g \in Hosts, DeletePod(g) \/ DeleteFails(g), pod' # pod
        PROVE  Excused(h, p)
    <3> DEFINE first == Head(pass[g].delete)
    <3>1. first \in Partitions /\ first \notin Range(pass[g].found) /\ pass'[g] # pass[g]
      BY <2>9, DeletedNames
    <3>2. Delete(NameOf[g, first])
      BY <2>9, Zenon DEF DeletePod, DeleteFails, NamesToDelete
    <3>3. NameOf[g, first] = name
      BY <2>1, <2>2, <2>3, <3>2, TypesAre DEF Delete
    <3>4. g = h /\ first = p
      <4>1. PICK q \in Partitions : q = first
        BY <3>1, Zenon
      <4>2. NameOf[g, q] = NameOf[h, p]
        BY <3>3, <4>1, Zenon
      <4>3. g = h /\ q = p
        <5>1. \A x, y \in Hosts : \A r, t \in Partitions : Differ(x, r, y, t)
          BY <1>0, NamesDiffer, Zenon
        <5>2. Differ(g, q, h, p)
          BY <2>1, <2>9, <4>1, <5>1, Zenon
        <5>3. QED
          BY <4>2, <5>2, Zenon DEF Differ
      <4>4. QED
        BY <4>1, <4>3, Zenon
    <3>5. QED
      BY <3>1, <3>4
  <2>10. CASE \E g \in Hosts, q \in Partitions : ChangePartition(g, q)
    BY <2>4, <2>10 DEF ChangePartition
  <2>11. ASSUME NEW g \in Hosts, PassStep(g) \/ FindFails(g) \/ CreateFails(g)
                                 \/ DeleteFails(g) \/ Crash(g)
         PROVE  Excused(h, p)
    <3>1. CASE CreatePod(g) \/ CreateFails(g)
      BY <2>4, <2>8, <3>1, Zenon DEF CreatePod, CreateFails
    <3>2. CASE DeletePod(g) \/ DeleteFails(g)
      BY <2>4, <2>9, <3>2, Zenon
    <3>3. CASE FindPartitions(g) \/ FindNodes(g) \/ Created(g) \/ Deleted(g)
               \/ FindFails(g) \/ Crash(g)
      <4>1. pod' = pod
        BY <3>3 DEF FindPartitions, FindNodes, Created, Deleted, FindFails, Crash
      <4>2. QED
        BY <2>4, <4>1
    <3>4. QED
      BY <2>11, <3>1, <3>2, <3>3, Zenon DEF PassStep
  <2>12. ASSUME NEW n \in Names, NodeGoes(n) PROVE Excused(h, p)
    BY <2>4, <2>12 DEF NodeGoes
  <2>13. QED
    BY <2>5, <2>6, <2>7, <2>10, <2>11, <2>12, Zenon DEF Next
<1>2. QED
  BY <1>1, PassInvariant, PTL DEF Spec, KubeletsAreLeftAlone

(* The virtual kubelet under the name of a partition is of this partition, *)
(* and so is the label of its node.                                        *)
Tells(h, p) ==
    /\ pod[NameOf[h, p]] = NoPod \/ pod[NameOf[h, p]].partition = p
    /\ node[NameOf[h, p]] \in {p, None}

LabelsTell == \A h \in Hosts : \A p \in Partitions : Tells(h, p)

LEMMA CreatedTells ==
    ASSUME PassInv, LabelsTell, NEW g \in Hosts, NEW q \in Partitions, Create(g, q), node' = node
    PROVE  DistinctNames => LabelsTell'
<1> SUFFICES ASSUME NEW h \in Hosts, NEW p \in Partitions
             PROVE  DistinctNames => Tells(h, p)'
  BY DEF LabelsTell
<1>1. Tells(h, p) /\ NameOf[h, p] \in Names /\ NameOf[g, q] \in Names
      /\ pod \in [Names -> PodRecord]
  BY ConstantsAssumption, TypesAre DEF LabelsTell, PassInv
<1>2. CASE NameOf[g, q] = NameOf[h, p]
  <2>1. pod'[NameOf[h, p]].partition = q
    BY <1>1, <1>2 DEF Create
  <2>2. DistinctNames => q = p
    BY <1>2 DEF DistinctNames
  <2>3. QED
    BY <1>1, <2>1, <2>2 DEF Tells
<1>3. CASE NameOf[g, q] # NameOf[h, p]
  <2>1. pod'[NameOf[h, p]] = pod[NameOf[h, p]]
    BY <1>1, <1>3 DEF Create
  <2>2. QED
    BY <1>1, <2>1 DEF Tells
<1>4. QED
  BY <1>2, <1>3

(* A pod that stays keeps its partition.                                   *)
LEMMA OthersTell ==
    ASSUME LabelsTell,
           \A n \in Names : /\ pod'[n] = NoPod \/ (pod[n] # NoPod /\ pod'[n].partition = pod[n].partition)
                            /\ \/ node'[n] \in {node[n], None}
                               \/ pod[n] # NoPod /\ node'[n] = pod[n].partition
    PROVE  LabelsTell'
<1> SUFFICES ASSUME NEW h \in Hosts, NEW p \in Partitions
             PROVE  Tells(h, p)'
  BY DEF LabelsTell
<1>1. Tells(h, p) /\ NameOf[h, p] \in Names
  BY ConstantsAssumption DEF LabelsTell
<1>2. QED
  BY <1>1 DEF Tells

LEMMA NextTells ==
    ASSUME PassInv, LabelsTell, [Next]_vars
    PROVE  DistinctNames => LabelsTell'
<1>1. pod \in [Names -> PodRecord] /\ node \in [Names -> Partitions \cup {None}]
  BY TypesAre DEF PassInv
<1>2. pod' = pod /\ node' = node => LabelsTell'
  BY DEF LabelsTell, Tells
<1>3. ASSUME NEW n \in Names, RegisterNode(n) PROVE LabelsTell'
  <2>1. pod[n] # NoPod
    BY <1>3 DEF RegisterNode, NoPod
  <2>2. QED
    BY <1>1, <1>3, <2>1, OthersTell DEF RegisterNode, PodRecord
<1>4. ASSUME NEW n \in Names, Evict(n) PROVE LabelsTell'
  BY <1>1, <1>4, OthersTell DEF Evict, PodRecord
<1>5. ASSUME NEW n \in Names, PodStops(n) PROVE LabelsTell'
  BY <1>1, <1>5, OthersTell DEF PodStops, PodRecord
<1>6. ASSUME NEW n \in Names, NodeGoes(n) PROVE LabelsTell'
  BY <1>1, <1>6, OthersTell DEF NodeGoes, PodRecord
<1>7. ASSUME NEW n \in Names, Delete(n), pod[n] # NoPod, node' = node PROVE LabelsTell'
  BY <1>1, <1>7, OthersTell DEF Delete, PodRecord
<1>8. ASSUME NEW g \in Hosts, CreatePod(g) \/ CreateFails(g) PROVE DistinctNames => LabelsTell'
  <2> DEFINE q == Head(pass[g].create)
  <2>1. node' = node /\ (pod' = pod \/ (MayCreate(g, q) /\ Create(g, q)))
    BY <1>8, Zenon DEF CreatePod, CreateFails
  <2>2. q \in Partitions \cup {None}
    <3>1. pass[g] \in PassRecord /\ pass[g].create # <<>>
      BY <1>8, TypesAre DEF PassInv, CreatePod, CreateFails
    <3>2. QED
      BY <3>1 DEF PassRecord
  <2>3. QED
    BY <1>2, <2>1, <2>2, CreatedTells DEF MayCreate
<1>9. ASSUME NEW g \in Hosts, DeletePod(g) \/ DeleteFails(g) PROVE LabelsTell'
  <2> DEFINE n == NameOf[g, Head(pass[g].delete)]
  <2>1. n \in Names
    BY <1>9, DeletedNames, ConstantsAssumption
  <2>2. node' = node /\ (pod' = pod \/ (pod[n] # NoPod /\ Delete(n)))
    BY <1>9, Zenon DEF DeletePod, DeleteFails, NamesToDelete
  <2>3. CASE pod' = pod
    <3>1. pod' = pod /\ node' = node
      BY <2>2, <2>3
    <3>2. QED
      BY <1>2, <3>1
  <2>4. CASE pod[n] # NoPod /\ Delete(n)
    <3>1. \A m \in Names : Delete(m) /\ pod[m] # NoPod /\ node' = node => LabelsTell'
      BY <1>7, Zenon
    <3>2. QED
      BY <2>1, <2>2, <2>4, <3>1, Zenon
  <2>5. QED
    BY <2>2, <2>3, <2>4, Zenon
<1>10. ASSUME NEW g \in Hosts, FindPartitions(g) \/ FindNodes(g) \/ Created(g) \/ Deleted(g)
                               \/ FindFails(g) \/ Crash(g)
       PROVE  LabelsTell'
  <2>1. pod' = pod /\ node' = node
    BY <1>10 DEF FindPartitions, FindNodes, Created, Deleted, FindFails, Crash
  <2>2. QED
    BY <1>2, <2>1
<1>11. CASE \E g \in Hosts, q \in Partitions : ChangePartition(g, q)
  BY <1>2, <1>11 DEF ChangePartition
<1>12. CASE UNCHANGED vars
  BY <1>2, <1>12 DEF vars
<1>13. QED
  BY <1>3, <1>4, <1>5, <1>6, <1>8, <1>9, <1>10, <1>11, <1>12, Zenon DEF Next, PassStep

(* virtualKubeletPodTemplate: wherever the node of a partition of a host   *)
(* is found, its label is that of this partition, although labels are read *)
(* from the nodes of all hosts and pods are deleted by name alone.         *)
THEOREM NamesTellPartitions == DistinctNames => (Spec => []LabelsTell)
<1> SUFFICES ASSUME DistinctNames PROVE Spec => []LabelsTell
  OBVIOUS
<1>1. Init => LabelsTell
  BY ConstantsAssumption DEF Init, LabelsTell, Tells
<1>2. PassInv /\ LabelsTell /\ [Next]_vars => LabelsTell'
  BY NextTells
<1>3. QED
  BY <1>1, <1>2, PassInvariant, PTL DEF Spec
=============================================================================
