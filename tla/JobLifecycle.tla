---------------------------- MODULE JobLifecycle ----------------------------
(***************************************************************************)
(* What the operator promises of a job: one pod is started for it, and its *)
(* status follows the phases of that pod - never ahead of it, never back,  *)
(* and in the end equal to it.  A pod that is started for a job after its  *)
(* deletion is collected.                                                  *)
(***************************************************************************)
EXTENDS Naturals

CONSTANT Jobs

VARIABLES
    life,    \* of each job: not submitted yet, live, or deleted
    status,  \* of each job: the status its object shows, "" before the first
    phase    \* of each job: the phase of its pod, "" when there is none

vars == <<life, status, phase>>

Phases == {"Pending", "Running", "Succeeded", "Failed"}

Rank(p) == CASE p = "" -> 0
             [] p = "Pending" -> 1
             [] p = "Running" -> 2
             [] OTHER -> 3

Init == /\ life = [j \in Jobs |-> "none"]
        /\ status = [j \in Jobs |-> ""]
        /\ phase = [j \in Jobs |-> ""]

Submit(j) == /\ life[j] = "none"
             /\ life' = [life EXCEPT ![j] = "live"]
             /\ UNCHANGED <<status, phase>>

Delete(j) == /\ life[j] = "live"
             /\ life' = [life EXCEPT ![j] = "deleted"]
             /\ status' = [status EXCEPT ![j] = ""]
             /\ UNCHANGED phase

(* While a job is live its pod does not go, so this happens once. *)
StartPod(j) == /\ life[j] # "none"
               /\ phase[j] = ""
               /\ phase' = [phase EXCEPT ![j] = "Pending"]
               /\ UNCHANGED <<life, status>>

Advance(j) == /\ phase[j] # ""
              /\ \E p \in Phases : /\ Rank(p) > Rank(phase[j])
                                   /\ phase' = [phase EXCEPT ![j] = p]
              /\ UNCHANGED <<life, status>>

Collect(j) == /\ life[j] = "deleted"
              /\ phase[j] # ""
              /\ phase' = [phase EXCEPT ![j] = ""]
              /\ UNCHANGED <<life, status>>

(* The status moves on, to the phase of the pod or to one it has passed. *)
Report(j) == /\ life[j] = "live"
             /\ \E p \in Phases : /\ Rank(p) > Rank(status[j])
                                  /\ Rank(p) < Rank(phase[j]) \/ p = phase[j]
                                  /\ status' = [status EXCEPT ![j] = p]
             /\ UNCHANGED <<life, phase>>

Next == \E j \in Jobs : \/ Submit(j) \/ Delete(j)
                        \/ StartPod(j) \/ Advance(j) \/ Collect(j)
                        \/ Report(j)

Spec == Init /\ [][Next]_vars

(* A live job gets its pod, and a status that is behind is brought on. *)
FairSpec == /\ Spec
            /\ \A j \in Jobs : /\ WF_vars(life[j] = "live" /\ StartPod(j))
                               /\ WF_vars(Report(j))
=============================================================================
