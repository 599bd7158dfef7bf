------------------------------ MODULE SaleBook -------------------------------
(***************************************************************************)
(* What the trading handlers promise of the table sales, with requests,    *)
(* listings, offers and faults left out: a sale enters the book only after *)
(* the Bitcoin network has taken its transaction, no entry is ever changed *)
(* or removed, and an inscription changes owner only by an entry, in the   *)
(* same step, to the buyer the entry names.                                *)
(***************************************************************************)
EXTENDS Naturals, Sequences

CONSTANTS Items, Txs, Parties, FirstOwner

VARIABLES taken, book, owner

Init == /\ taken = {}
        /\ book = <<>>
        /\ owner = [i \in Items |-> FirstOwner]

\* The network takes a sale transaction.
Take(tx) == /\ taken' = taken \cup {tx}
            /\ UNCHANGED <<book, owner>>

\* A taken sale is recorded, and the item changes hands.
Record(i, tx, p) ==
  /\ tx \in taken
  /\ book' = Append(book, [item |-> i, tx |-> tx, buyer |-> p])
  /\ owner' = [owner EXCEPT ![i] = p]
  /\ UNCHANGED taken

Next == \/ \E tx \in Txs : Take(tx)
        \/ \E i \in Items, tx \in Txs, p \in Parties : Record(i, tx, p)

Spec == Init /\ [][Next]_<<taken, book, owner>>

=============================================================================
