----------------------------- MODULE MCAccounts -----------------------------
(* Small instances of Accounts. *)
EXTENDS Accounts, TLC

CONSTANTS a1, a2, p1, p2, n1, n2, n3, r1, r2, r3

Symmetry == Permutations(Addresses) \cup Permutations(Profiles)
              \cup Permutations(Nonces) \cup Permutations(Requests)
=============================================================================
