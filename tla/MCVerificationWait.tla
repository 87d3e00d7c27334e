-------------------------- MODULE MCVerificationWait --------------------------
(* Two small models with fairness that share no state: the verification of a *)
(* node by one orchestrator, and the wait of two receivers for their mail.  *)
(* An initial state chooses which of them moves.                            *)
EXTENDS Verification, WakeSignal

VARIABLE part

MCInit == Init /\ WakeInit /\ part \in {"verification", "wait"}

MCNext ==
    \/ part = "verification" /\ Next /\ UNCHANGED <<part, wakeVars>>
    \/ part = "wait" /\ WakeNext /\ UNCHANGED <<part, vars>>

MCSpec == MCInit /\ [][MCNext]_<<vars, wakeVars, part>> /\ Fairness /\ WakeFairness
===============================================================================
