----------------------------- MODULE MCChainSync -----------------------------
(* Small instances of ChainSync: consecutive sales of one inscription. *)
EXTENDS ChainSync

CONSTANTS s1, s2, i1, c1

OneInscription == [s \in Sales |-> i1]

=============================================================================
