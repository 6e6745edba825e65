------------------------------- MODULE MCCliPool -------------------------------
(* A small instance of CliPool: the first turn opens a conversation, the second *)
(* one joins it, opens another one, or replies to the first.                     *)
EXTENDS CliPool

CONSTANTS First, Known

MCInit == Init /\ key[First] = Known

MCSpec == MCInit /\ [][Next]_vars /\ Fairness
=============================================================================
