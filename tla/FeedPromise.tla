---------------------------- MODULE FeedPromise ----------------------------
(***************************************************************************)
(* What the live feed promises a subscriber: from the moment it joins it   *)
(* is told the announcements it wants, in the order they were published,   *)
(* none of them twice, and it misses one only when at least Capacity       *)
(* younger ones have been published since.  Nothing published before it    *)
(* joined is ever told.                                                    *)
(***************************************************************************)
EXTENDS Naturals, Sequences

CONSTANTS
  Parties,     \* subscribers
  Topics,      \* what an announcement can be about
  Capacity     \* announcements the feed retains

VARIABLES
  published,   \* topics of the announcements, in order
  wants,       \* the topics each subscriber is told about
  since,       \* position from which it listens; 0: it is not subscribed
  told         \* positions it has been told, in order

vars == <<published, wants, since, told>>

Init ==
  /\ published = <<>>
  /\ wants = [c \in Parties |-> {}]
  /\ since = [c \in Parties |-> 0]
  /\ told = [c \in Parties |-> <<>>]

\* The position up to which the subscriber has been served.
Served(c) == IF told[c] = <<>> THEN since[c] - 1 ELSE told[c][Len(told[c])]

Publish(topic) ==
  /\ published' = Append(published, topic)
  /\ UNCHANGED <<wants, since, told>>

Join(c, topics) ==
  /\ since[c] = 0
  /\ since' = [since EXCEPT ![c] = Len(published) + 1]
  /\ wants' = [wants EXCEPT ![c] = topics]
  /\ UNCHANGED <<published, told>>

Tell(c, n) ==
  /\ since[c] # 0
  /\ Served(c) < n
  /\ published[n] \in wants[c]
  /\ \A m \in Served(c) + 1 .. n - 1 :
       published[m] \in wants[c] => m + Capacity <= Len(published)
  /\ told' = [told EXCEPT ![c] = Append(@, n)]
  /\ UNCHANGED <<published, wants, since>>

Leave(leavers) ==
  /\ since' = [c \in Parties |-> IF c \in leavers THEN 0 ELSE since[c]]
  /\ wants' = [c \in Parties |-> IF c \in leavers THEN {} ELSE wants[c]]
  /\ told' = [c \in Parties |-> IF c \in leavers THEN <<>> ELSE told[c]]
  /\ UNCHANGED published

Next ==
  \/ \E topic \in Topics : Publish(topic)
  \/ \E c \in Parties, topics \in SUBSET Topics : Join(c, topics)
  \/ \E c \in Parties, n \in 1 .. Len(published) : Tell(c, n)
  \/ \E leavers \in SUBSET Parties : Leave(leavers)

Spec == Init /\ [][Next]_vars

=============================================================================
