------------------------------ MODULE MCTrading ------------------------------
(***************************************************************************)
(* Small instances of Trading: every listing and every offer is about one  *)
(* inscription, the case in which purchases compete.                       *)
(***************************************************************************)
EXTENDS Trading, TLC

CONSTANTS l1, l2, o1, o2, b1, b2, r1, r2, i1

OneInscription == [x \in Listings \cup Offers |-> i1]

\* No handler reads the activity feed: runs whose properties do not mention it
\* need not tell states apart by it.
WithoutFeed == <<listing, offer, sales, owner, built, nodeVars, req>>

OrderSymmetry == Permutations(Buyers) \cup Permutations(Requests)
OfferSymmetry == Permutations(Offers) \cup Permutations(Requests)

=============================================================================
