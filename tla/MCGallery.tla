------------------------------ MODULE MCGallery -----------------------------
(* Two addresses and two inscriptions; the first and the third block hold  *)
(* them, and the explored trait is on the last three blocks.               *)
EXTENDS Gallery, TLC

CONSTANTS a1, a2, i1, i2

MCAddrs == {a1, a2}
MCOuts == {i1, i2}
MCRowOf == (0 :> i1) @@ (1 :> None) @@ (2 :> i2) @@ (3 :> None)
Symmetric == Permutations(MCAddrs)
MCRare == 1..3
=============================================================================
