-------------------------- MODULE MCModuleContainer --------------------------
(* Two workers of one module, with the same boundary or with different      *)
(* ones; the names of the first worker and of its key do not matter.        *)
EXTENDS ModuleContainer

MCInit == Init /\ keyOf[CHOOSE r \in Run : TRUE] = CHOOSE k \in Key : TRUE
MCSpec == MCInit /\ [][Next]_vars /\ Fairness
=============================================================================
