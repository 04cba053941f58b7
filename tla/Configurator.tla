--------------------------- MODULE Configurator ---------------------------
(***************************************************************************)
(* The configurators, one beside each Slurm cluster.  Each keeps, pass by  *)
(* pass, one virtual kubelet pod for every partition of its cluster; the   *)
(* virtual kubelet registers a virtual node labelled with the partition.   *)
(*                                                                         *)
(* A pass asks Slurm for the partitions, asks Kubernetes for the virtual   *)
(* nodes, creates the pods that are missing and deletes those that have no *)
(* partition any more.  Each of these calls may fail, and the first        *)
(* failure ends the loop it happens in.                                    *)
(***************************************************************************)
EXTENDS Naturals, Sequences, SequencesExt

CONSTANTS
    Hosts,       \* the nodes the configurators run on, one for each cluster
    Partitions,  \* names of partitions
    None,        \* the empty name
    Names,       \* names that pods and nodes can have
    NameOf,      \* partitionNodeName of a host and a partition
    Refused,     \* names that Kubernetes takes for no pod, as one with "_"
    Listing,     \* the order in which Slurm lists partitions
    NodeListing, \* the order in which Kubernetes lists nodes
    PartitionsOf, \* the partitions each cluster may have
    MaxChanges,  \* bound: partitions added or removed, and evictions
    MaxFailures  \* bound: calls that fail for no reason of their own, crashes

ASSUME ConstantsAssumption ==
    /\ None \notin Partitions
    /\ \A h \in Hosts, p \in Partitions : NameOf[h, p] \in Names
    /\ Refused \subseteq Names
    /\ Listing \in Seq(Partitions) /\ NodeListing \in Seq(Names)
    /\ PartitionsOf \in [Hosts -> SUBSET Partitions]
    /\ MaxChanges \in Nat /\ MaxFailures \in Nat

VARIABLES
    partitions, \* the partitions of each cluster
    pod,        \* of each name: the state of the pod and its partition
    node,       \* of each name: the label of the virtual node, or None
    pass,       \* the pass of each configurator
    budget      \* changes and failures still allowed

vars == <<partitions, pod, node, pass, budget>>

NoPod == [state |-> "none", partition |-> None]
Idle == [pc |-> "idle", found |-> <<>>, create |-> <<>>, delete |-> <<>>]

Init ==
    /\ partitions = PartitionsOf
    /\ pod = [n \in Names |-> NoPod]
    /\ node = [n \in Names |-> None]
    /\ pass = [h \in Hosts |-> Idle]
    /\ budget = [changes |-> MaxChanges, failures |-> MaxFailures]

----------------------------------------------------------------------------
(* Slurm, the kubelet and the virtual kubelets *)

ChangePartition(h, p) ==
    /\ p \in PartitionsOf[h]
    /\ budget.changes > 0
    /\ budget' = [budget EXCEPT !.changes = @ - 1]
    /\ partitions' = [partitions EXCEPT ![h] = IF p \in @ THEN @ \ {p} ELSE @ \cup {p}]
    /\ UNCHANGED <<pod, node, pass>>

RegisterNode(n) ==
    /\ pod[n].state = "created"
    /\ node' = [node EXCEPT ![n] = pod[n].partition]
    /\ pod' = [pod EXCEPT ![n].state = "running"]
    /\ UNCHANGED <<partitions, pass, budget>>

(* A user or an eviction deletes a virtual kubelet. *)
Evict(n) ==
    /\ pod[n] # NoPod
    /\ budget.changes > 0
    /\ budget' = [budget EXCEPT !.changes = @ - 1]
    /\ pod' = [pod EXCEPT ![n].state = "terminating"]
    /\ UNCHANGED <<partitions, node, pass>>

(* A pod that was deleted lives on for its grace period, under its name. *)
PodStops(n) ==
    /\ pod[n].state = "terminating"
    /\ pod' = [pod EXCEPT ![n] = NoPod]
    /\ UNCHANGED <<partitions, node, pass, budget>>

NodeGoes(n) ==
    /\ pod[n] = NoPod
    /\ node[n] # None
    /\ node' = [node EXCEPT ![n] = None]
    /\ UNCHANGED <<partitions, pod, pass, budget>>

----------------------------------------------------------------------------
(* A pass *)

(* The elements of a sequence that are in a set, in their order. *)
Keep(s, S) ==
    LET kept[i \in 0..Len(s)] ==
          IF i = 0 THEN <<>>
          ELSE IF s[i] \in S THEN Append(kept[i - 1], s[i]) ELSE kept[i - 1]
    IN  kept[Len(s)]

(* An answer of Slurm without any partition is parsed as one, without name. *)
PartitionNames(h) ==
    IF partitions[h] = {} THEN <<None>> ELSE Keep(Listing, partitions[h])

IsLabelledAlways(n) == TRUE       \* faulty: the label is taken unseen
IsLabelled(n) == node[n] # None

LabelsOfNodes ==
    LET labelled == Keep(NodeListing, {n \in Names : IsLabelled(n)})
    IN [i \in DOMAIN labelled |-> node[labelled[i]]]

NotInByLength(s, t) ==            \* faulty: names are not compared
    IF Len(s) > Len(t) THEN s ELSE <<>>
NotIn(s, t) == Keep(s, Range(s) \ Range(t))

FindPartitions(h) ==
    /\ pass[h].pc = "idle"
    /\ pass' = [pass EXCEPT ![h] = [pc |-> "nodes", found |-> PartitionNames(h),
                                    create |-> <<>>, delete |-> <<>>]]
    /\ UNCHANGED <<partitions, pod, node, budget>>

FindNodes(h) ==
    /\ pass[h].pc = "nodes"
    /\ pass' = [pass EXCEPT ![h] =
                  [pc |-> "create", found |-> pass[h].found,
                   create |-> NotIn(pass[h].found, LabelsOfNodes),
                   delete |-> NotIn(LabelsOfNodes, pass[h].found)]]
    /\ UNCHANGED <<partitions, pod, node, budget>>

(* The call fails without an effect, and so does the pass. *)
FindFails(h) ==
    /\ pass[h].pc \in {"idle", "nodes"}
    /\ budget.failures > 0
    /\ budget' = [budget EXCEPT !.failures = @ - 1]
    /\ pass' = [pass EXCEPT ![h] = Idle]
    /\ UNCHANGED <<partitions, pod, node>>

(* A pod needs a name that Kubernetes takes, and the name must be free.    *)
MayCreate(h, p) ==
    /\ p # None
    /\ NameOf[h, p] \notin Refused
    /\ pod[NameOf[h, p]] = NoPod

Create(h, p) ==
    pod' = [pod EXCEPT ![NameOf[h, p]] = [state |-> "created", partition |-> p]]

(* An error drops the names that are left. *)
CreatePod(h) ==
    /\ pass[h].pc = "create"
    /\ pass[h].create # <<>>
    /\ LET name == Head(pass[h].create) IN
         IF MayCreate(h, name)
         THEN Create(h, name) /\ pass' = [pass EXCEPT ![h].create = Tail(@)]
         ELSE UNCHANGED pod /\ pass' = [pass EXCEPT ![h].create = <<>>]
    /\ UNCHANGED <<partitions, node, budget>>

(* A call that fails may have had its effect all the same. *)
CreateFails(h) ==
    /\ pass[h].pc = "create"
    /\ pass[h].create # <<>>
    /\ budget.failures > 0
    /\ budget' = [budget EXCEPT !.failures = @ - 1]
    /\ \/ UNCHANGED pod
       \/ MayCreate(h, Head(pass[h].create)) /\ Create(h, Head(pass[h].create))
    /\ pass' = [pass EXCEPT ![h].create = <<>>]
    /\ UNCHANGED <<partitions, node>>

Created(h) ==
    /\ pass[h].pc = "create"
    /\ pass[h].create = <<>>
    /\ pass' = [pass EXCEPT ![h].pc = "delete"]
    /\ UNCHANGED <<partitions, pod, node, budget>>

NamesOfAnyHost(h, p) == {NameOf[g, p] : g \in Hosts}  \* faulty: all clusters
NamesToDelete(h, p) == {NameOf[h, p]}

Delete(n) == pod' = [pod EXCEPT ![n].state = "terminating"]

DeletePod(h) ==
    /\ pass[h].pc = "delete"
    /\ pass[h].delete # <<>>
    /\ \E n \in NamesToDelete(h, Head(pass[h].delete)) :
         IF pod[n] # NoPod
         THEN Delete(n) /\ pass' = [pass EXCEPT ![h].delete = Tail(@)]
         ELSE UNCHANGED pod /\ pass' = [pass EXCEPT ![h].delete = <<>>]
    /\ UNCHANGED <<partitions, node, budget>>

DeleteFails(h) ==
    /\ pass[h].pc = "delete"
    /\ pass[h].delete # <<>>
    /\ budget.failures > 0
    /\ budget' = [budget EXCEPT !.failures = @ - 1]
    /\ \/ UNCHANGED pod
       \/ \E n \in NamesToDelete(h, Head(pass[h].delete)) : pod[n] # NoPod /\ Delete(n)
    /\ pass' = [pass EXCEPT ![h].delete = <<>>]
    /\ UNCHANGED <<partitions, node>>

Deleted(h) ==
    /\ pass[h].pc = "delete"
    /\ pass[h].delete = <<>>
    /\ pass' = [pass EXCEPT ![h] = Idle]
    /\ UNCHANGED <<partitions, pod, node, budget>>

(* A configurator that starts again keeps nothing of its old pass. *)
Crash(h) ==
    /\ pass[h].pc # "idle"
    /\ budget.failures > 0
    /\ budget' = [budget EXCEPT !.failures = @ - 1]
    /\ pass' = [pass EXCEPT ![h] = Idle]
    /\ UNCHANGED <<partitions, pod, node>>

----------------------------------------------------------------------------
PassStep(h) == \/ FindPartitions(h) \/ FindNodes(h)
               \/ CreatePod(h) \/ Created(h)
               \/ DeletePod(h) \/ Deleted(h)

Next == \/ \E h \in Hosts :
             \/ \E p \in Partitions : ChangePartition(h, p)
             \/ PassStep(h)
             \/ FindFails(h) \/ CreateFails(h) \/ DeleteFails(h)
             \/ Crash(h)
        \/ \E n \in Names : \/ RegisterNode(n) \/ Evict(n)
                            \/ PodStops(n) \/ NodeGoes(n)

Spec == Init /\ [][Next]_vars

(***************************************************************************)
(* The ticker keeps starting passes, virtual kubelets come up, pods stop   *)
(* when their grace period is over, and the node of a virtual kubelet that *)
(* is gone is removed.  No change and no failure is owed.                  *)
(***************************************************************************)
FairSpec ==
    /\ Spec
    /\ \A h \in Hosts : WF_vars(PassStep(h))
    /\ \A n \in Names : /\ WF_vars(RegisterNode(n))
                         /\ WF_vars(PodStops(n)) /\ WF_vars(NodeGoes(n))

----------------------------------------------------------------------------
(* Properties *)

(* Every variable holds the kind of value the code keeps there. *)
TypeOK ==
    /\ partitions \in [Hosts -> SUBSET Partitions]
    /\ pod \in [Names -> [state : {"none", "created", "running", "terminating"},
                          partition : Partitions \cup {None}]]
    /\ node \in [Names -> Partitions \cup {None}]
    /\ pass \in [Hosts -> [pc : {"idle", "nodes", "create", "delete"},
                           found : Seq(Partitions \cup {None}),
                           create : Seq(Partitions \cup {None}),
                           delete : Seq(Partitions)]]
    /\ budget \in [changes : Nat, failures : Nat]

IsRepresented(h, p) == node[NameOf[h, p]] = p

(* A partition is held up by a refused name at its place or before it: the *)
(* creation of that pod fails in every pass, and the error drops the rest. *)
IsHeldUp(h, p) ==
    \E i \in DOMAIN Listing :
      /\ Listing[i] \in partitions[h] /\ NameOf[h, Listing[i]] \in Refused
      /\ \E j \in DOMAIN Listing : i <= j /\ Listing[j] = p

(* In the end every partition of every cluster has its virtual node, but   *)
(* for those that a refused name holds up.                                 *)
EveryPartitionIsRepresented ==
    \A h \in Hosts, p \in Partitions :
      <>[](p \in partitions[h] /\ ~IsHeldUp(h, p) => IsRepresented(h, p))

IsStale(h, p) == p \notin partitions[h] /\ pod[NameOf[h, p]] # NoPod

Place(n) == CHOOSE i \in DOMAIN NodeListing : NodeListing[i] = n

(* Kubernetes lists the nodes of this cluster before those of the others.  *)
IsListedFirst(h) ==
    \A g \in Hosts \ {h} : \A p \in PartitionsOf[h], q \in PartitionsOf[g] :
      Place(NameOf[h, p]) < Place(NameOf[g, q])

(* In the end no partition that is gone from Slurm has a virtual kubelet,  *)
(* for the cluster that is listed first: there no name of another cluster  *)
(* fails before its own names are deleted.                                 *)
StalePodsOfFirstGo ==
    \A h \in Hosts, p \in Partitions : IsListedFirst(h) => <>[](~IsStale(h, p))

IsAlive(n) == pod[n].state \in {"created", "running"}

(* A configurator stops no virtual kubelet but those of its own cluster    *)
(* whose partition Slurm did not list in this pass, though it has the nodes*)
(* of all clusters in its lists; any other that stops was evicted.         *)
KubeletsAreLeftAlone ==
    [][\A h \in Hosts : \A p \in PartitionsOf[h] :
          IsAlive(NameOf[h, p]) /\ ~IsAlive(NameOf[h, p])'
          => \/ budget'.changes < budget.changes
             \/ pass'[h] # pass[h] /\ p \notin Range(pass[h].found)]_vars
=============================================================================
