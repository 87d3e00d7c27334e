---------------------------- MODULE MCVerification ----------------------------
(* Small instances of the verification gates.                               *)
EXTENDS Verification, TLC
WorkerSymmetry == Permutations(Worker)
===============================================================================
