----------------------------- MODULE MCSalePsbt -----------------------------
(* Small instances of SalePsbt: amounts just above and below each threshold. *)
EXTENDS SalePsbt, TLC

CONSTANTS b1, b2, Fees

Coins(kinds, values) == [kind : kinds, value : values]

\* The seller's key on both sides of the marketplace's in each of the orders.
Keys == [odd : BOOLEAN, x : {1, 3}]
Market == [odd |-> FALSE, x |-> 2]

InscriptionCoins ==
  Coins({"p2tr"}, {100, 342, 343, 441, 12000000}) \cup Coins({"p2sh", "p2wpkh"}, {343, 475})
Gas == Coins({"p2wpkh"}, {178, 179, 409}) \cup Coins({"p2sh"}, {202})

\* Around what an order at 600 satoshi requires at 1 and at 7.3 sat/vB.
Purses == Coins({"p2sh", "p2wpkh"}, {2480, 4500, 27000}) \cup Coins({"p2tr"}, {4500})
Purse  == Coins({"p2wpkh"}, {4500})

BuyerSymmetry == Permutations(Buyers)
=============================================================================
