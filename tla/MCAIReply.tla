----------------------------- MODULE MCAIReply ------------------------------
(* An instance of AIReply. *)
EXTENDS AIReply, TLC

Symmetry == Permutations(Workers) \cup Permutations(Messages)
=============================================================================
