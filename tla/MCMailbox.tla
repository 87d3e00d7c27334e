------------------------------ MODULE MCMailbox ------------------------------
(* Small instances of the mailbox, with one address.                        *)
EXTENDS Mailbox, TLC
OneTarget == [m \in Message |-> CHOOSE t \in Target : TRUE]
Symmetry == Permutations(Consumer) \cup Permutations(Message)
=============================================================================
