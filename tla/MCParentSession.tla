--------------------------- MODULE MCParentSession ---------------------------
(* A session for TLC: turns, generations, faults and crashes are bounded by  *)
(* the configuration.                                                       *)
EXTENDS ParentSession
=============================================================================
