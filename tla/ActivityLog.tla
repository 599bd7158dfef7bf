----------------------------- MODULE ActivityLog -----------------------------
(***************************************************************************)
(* What the background tasks promise of the tables, with blocks, snapshots *)
(* and faults left out: a sale is on record before it is confirmed and     *)
(* confirmed before it is reported, an inscription is known before its     *)
(* mint is reported, each is reported once at most, and nothing is taken   *)
(* back.                                                                   *)
(***************************************************************************)
EXTENDS Naturals

CONSTANTS Sales, Inscriptions

VARIABLES
  recorded, confirmed,  \* sales that have a row, and whose confirmed_at is set
  known,                \* inscriptions that have a row
  reported, minted      \* rows of the feed, per sale and per inscription

logVars == <<recorded, confirmed, known, reported, minted>>

Init == /\ recorded = {} /\ confirmed = {} /\ known = {}
        /\ reported = [s \in Sales |-> 0]
        /\ minted = [i \in Inscriptions |-> 0]

Record(s) == /\ s \notin recorded
             /\ recorded' = recorded \cup {s}
             /\ UNCHANGED <<confirmed, known, reported, minted>>

Confirm(s) == /\ s \in recorded \ confirmed
              /\ confirmed' = confirmed \cup {s}
              /\ UNCHANGED <<recorded, known, reported, minted>>

Report(s) == /\ s \in confirmed /\ reported[s] = 0
             /\ reported' = [reported EXCEPT ![s] = 1]
             /\ UNCHANGED <<recorded, confirmed, known, minted>>

Discover(i) == /\ i \notin known
               /\ known' = known \cup {i}
               /\ UNCHANGED <<recorded, confirmed, reported, minted>>

ReportMint(i) == /\ i \in known /\ minted[i] = 0
                 /\ minted' = [minted EXCEPT ![i] = 1]
                 /\ UNCHANGED <<recorded, confirmed, known, reported>>

Next == \/ \E s \in Sales : Record(s) \/ Confirm(s) \/ Report(s)
        \/ \E i \in Inscriptions : Discover(i) \/ ReportMint(i)

Spec == Init /\ [][Next]_logVars

=============================================================================
