------------------------------- MODULE MCTail -------------------------------
(* Instance of Tail for TLC: one inode per content. *)
EXTENDS Tail

CONSTANTS i1, i2
=============================================================================
