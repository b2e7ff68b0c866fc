-------------------------- MODULE MCRelayOutbound --------------------------
(* Instances of RelayOutbound for TLC. *)
EXTENDS RelayOutbound, Naturals, TLC

\* At most three store calls whose replies were lost are still to run.
FewStrays == Cardinality({lost \in Requests \X StoreOps : lost[2] \in stray[lost[1]]}) <= 3

RequestSymmetry == Permutations(Requests) \cup Permutations(Digests)
=============================================================================
