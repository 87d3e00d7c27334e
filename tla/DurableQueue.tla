----------------------------- MODULE DurableQueue -----------------------------
(***************************************************************************)
(* What the durable mailbox promises (docs/project/agent_runtime.md): an    *)
(* accepted message is never lost, consumers see new messages of a target   *)
(* in the order of acceptance, a message is finished at most once and only  *)
(* after some consumer has seen it, and at most Capacity messages wait.     *)
(* Leases, retries, restarts and redelivery do not appear.                  *)
(***************************************************************************)
EXTENDS Naturals, FiniteSets

CONSTANTS Message, Target, TargetOf, Capacity

VARIABLES
    rank,      \* place of each message in the order of acceptance, 0 before
    handed,    \* messages some consumer has seen
    finished   \* messages whose processing was acknowledged

vars == <<rank, handed, finished>>

Accepted == {m \in Message : rank[m] # 0}
Waiting == Accepted \ finished

Init ==
    /\ rank = [m \in Message |-> 0]
    /\ handed = {}
    /\ finished = {}

(* m becomes the last message.                                              *)
Accept(m) ==
    /\ rank[m] = 0
    /\ Cardinality(Waiting) < Capacity
    /\ \A n \in Message : rank[n] < rank'[m]
    /\ \A n \in Message \ {m} : rank'[n] = rank[n]
    /\ DOMAIN rank' = Message
    /\ UNCHANGED <<handed, finished>>

(* A consumer sees m for the first time; nothing earlier for the same        *)
(* target is still unseen.                                                  *)
HandOut(m) ==
    /\ m \in Accepted \ handed
    /\ \A n \in Accepted : TargetOf[n] = TargetOf[m] /\ rank[n] < rank[m] => n \in handed
    /\ handed' = handed \cup {m}
    /\ UNCHANGED <<rank, finished>>

Finish(m) ==
    /\ m \in handed \ finished
    /\ finished' = finished \cup {m}
    /\ UNCHANGED <<rank, handed>>

Next == \E m \in Message : Accept(m) \/ HandOut(m) \/ Finish(m)

Spec == Init /\ [][Next]_vars
=============================================================================
