---------------------------- MODULE WsFeedProofs ----------------------------
(***************************************************************************)
(* Proofs about WsFeed, for every set of clients, inscriptions and         *)
(* filters, every capacity of the channel and every number of rows.        *)
(***************************************************************************)
EXTENDS WsFeed, SequenceTheorems, TLAPS

USE ConstantsAssumption

PCs == {"gone", "greeting", "listening", "sending"}

-----------------------------------------------------------------------------
\* The inductive invariant, split into the tables and the task of each client.

Tables ==
  /\ rows \in Seq(Inscriptions)
  /\ owed \subseteq 1 .. Len(rows)
  /\ sent \in Seq(1 .. Len(rows))

Domains ==
  /\ pc \in [Clients -> PCs]
  /\ open \in [Clients -> BOOLEAN]
  /\ filter \in [Clients -> Filters \cup {None}]
  /\ since \in [Clients -> Nat]
  /\ next \in [Clients -> Nat]
  /\ seen \in [Clients -> Seq(Nat)]

\* Where the positions of a task lie.
Positions(c) ==
  /\ since[c] <= Len(sent) + 1 /\ next[c] <= Len(sent) + 1
  /\ \A k \in 1 .. Len(seen[c]) : seen[c][k] \in 1 .. Len(sent)

\* InOrder for one client.
Ordered(c) ==
  /\ Subscribed(c) => 1 <= since[c] /\ since[c] <= next[c]
  /\ ~Subscribed(c) => since[c] = 0 /\ seen[c] = <<>> /\ filter[c] = None
  /\ pc[c] = "sending" => since[c] < next[c] /\ Matches(c, next[c] - 1)
  /\ \A k \in 1 .. Len(seen[c]) :
       /\ since[c] <= seen[c][k] /\ seen[c][k] < next[c]
       /\ pc[c] = "sending" => seen[c][k] < next[c] - 1
       /\ \A j \in 1 .. k - 1 : seen[c][j] < seen[c][k]

\* OnlyOverwrittenMissed for one client and one position.
Excused(c, n) ==
  \/ ~Matches(c, n)
  \/ \E k \in 1 .. Len(seen[c]) : seen[c][k] = n
  \/ pc[c] = "sending" /\ n = next[c] - 1
  \/ Overwritten(n)
NoGap(c) == Subscribed(c) /\ open[c] => \A n \in since[c] .. next[c] - 1 : Excused(c, n)

\* What a task keeps, whatever the others do.
Task(c) == Positions(c) /\ Ordered(c) /\ NoGap(c)

Inv == Tables /\ Domains /\ \A c \in Clients : Task(c)

LEMMA InvImplies ==
  ASSUME Inv
  PROVE  TypeOK /\ InOrder /\ OnlyOverwrittenMissed
<1>1. \A c \in Clients : /\ Task(c)
                         /\ seen[c] \in Seq(Nat)
                         /\ DOMAIN seen[c] = 1 .. Len(seen[c])
                         /\ Len(seen[c]) \in Nat
  BY LenProperties DEF Inv, Domains
<1>2. \A c \in Clients : seen[c] \in Seq(1 .. Len(sent))
  <2> SUFFICES ASSUME NEW c \in Clients PROVE seen[c] \in Seq(1 .. Len(sent))
    OBVIOUS
  <2>1. \A k \in 1 .. Len(seen[c]) : seen[c][k] \in 1 .. Len(sent) BY <1>1 DEF Task, Positions
  <2>2. seen[c] = [k \in 1 .. Len(seen[c]) |-> seen[c][k]] BY <1>1
  <2> QED BY <1>1, <2>1, <2>2, IsASeq
<1>3. TypeOK
  <2>1. Len(sent) \in Nat BY LenProperties DEF Inv, Tables
  <2>2. \A c \in Clients : since[c] \in 0 .. Len(sent) + 1 /\ next[c] \in 0 .. Len(sent) + 1
    <3>1. \A c \in Clients : since[c] \in Nat /\ next[c] \in Nat BY DEF Inv, Domains
    <3>2. \A c \in Clients : since[c] <= Len(sent) + 1 /\ next[c] <= Len(sent) + 1
      BY <1>1 DEF Task, Positions
    <3> HIDE <1>1
    <3> SUFFICES ASSUME NEW c \in Clients
                 PROVE  since[c] \in 0 .. Len(sent) + 1 /\ next[c] \in 0 .. Len(sent) + 1
      OBVIOUS
    <3> QED BY <2>1, <3>1, <3>2
  <2> QED BY <1>2, <2>2 DEF Inv, Tables, Domains, TypeOK, PCs
<1>4. InOrder BY <1>1 DEF Task, Ordered, InOrder
<1>5. OnlyOverwrittenMissed
  BY <1>1 DEF Task, NoGap, Excused, OnlyOverwrittenMissed, Receivers, Delivered
<1> QED BY <1>3, <1>4, <1>5

\* A task that has not subscribed has no positions.
LEMMA Unsubscribed ==
  ASSUME NEW c, Len(sent) \in Nat, ~Subscribed(c),
         since[c] = 0, next[c] = 0, seen[c] = <<>>, filter[c] = None
  PROVE  Task(c)
<1>1. Len(seen[c]) = 0 OBVIOUS
<1>2. Positions(c) BY <1>1 DEF Positions
<1>3. Ordered(c)
  <2>1. pc[c] # "sending" BY DEF Subscribed
  <2> QED BY <1>1, <2>1 DEF Ordered
<1>4. NoGap(c) BY DEF NoGap
<1> QED BY <1>2, <1>3, <1>4 DEF Task

LEMMA UnsubscribedNext ==
  ASSUME NEW c, Len(sent') \in Nat, ~Subscribed(c)',
         since'[c] = 0, next'[c] = 0, seen'[c] = <<>>, filter'[c] = None
  PROVE  Task(c)'
<1>1. Len(seen'[c]) = 0 OBVIOUS
<1>2. Positions(c)' BY <1>1 DEF Positions
<1>3. Ordered(c)'
  <2>1. pc'[c] # "sending" BY DEF Subscribed
  <2> QED BY <1>1, <2>1 DEF Ordered
<1>4. NoGap(c)' BY DEF NoGap
<1> QED BY <1>2, <1>3, <1>4 DEF Task

LEMMA InitInv == Init => Inv
<1> SUFFICES ASSUME Init PROVE Inv
  OBVIOUS
<1>1. Tables BY DEF Init, Tables
<1>2. Domains BY DEF Init, Domains, PCs
<1>3. \A c \in Clients : Task(c)
  <2>1. Len(sent) \in Nat BY DEF Init
  <2> SUFFICES ASSUME NEW c \in Clients PROVE Task(c) OBVIOUS
  <2>2. /\ ~Subscribed(c) /\ since[c] = 0 /\ next[c] = 0
        /\ seen[c] = <<>> /\ filter[c] = None
    BY DEF Init, Subscribed
  <2> QED BY <2>1, <2>2, Unsubscribed
<1> QED BY <1>1, <1>2, <1>3 DEF Inv

-----------------------------------------------------------------------------
\* The invariant is preserved.

\* The positions of a task that does nothing keep their meaning while the tables
\* it does not write only grow.
LEMMA TaskUntouched ==
  ASSUME Inv, Tables', NEW c \in Clients,
         Len(sent) <= Len(sent'),
         \A n \in 1 .. Len(sent) : sent'[n] = sent[n],
         \A n \in 1 .. Len(rows) : rows'[n] = rows[n],
         pc'[c] = pc[c], open'[c] = open[c], filter'[c] = filter[c],
         since'[c] = since[c], next'[c] = next[c], seen'[c] = seen[c]
  PROVE  Task(c)'
<1>1. /\ Len(sent) \in Nat /\ Len(sent') \in Nat
      /\ Task(c) /\ since[c] \in Nat /\ next[c] \in Nat
  BY LenProperties DEF Inv, Tables, Domains
<1>2. \A n \in 1 .. Len(sent) : /\ sent[n] \in 1 .. Len(rows)
                                /\ Matches(c, n)' = Matches(c, n)
  <2>1. \A n \in 1 .. Len(sent) : sent[n] \in 1 .. Len(rows)
    BY ElementOfSeq DEF Inv, Tables
  <2> QED BY <2>1, <1>1 DEF Matches
<1>3. \A n : Overwritten(n) /\ n \in Nat => Overwritten(n)' BY <1>1 DEF Overwritten
<1>4. Subscribed(c)' = Subscribed(c) BY DEF Subscribed
<1>5. Subscribed(c) => since[c] - 1 \in Nat /\ next[c] - 1 \in 0 .. Len(sent)
  BY <1>1 DEF Task, Ordered, Positions
<1>6. Positions(c)'
  <2>1. 1 .. Len(sent) \subseteq 1 .. Len(sent') BY <1>1
  <2> QED BY <1>1, <2>1 DEF Task, Positions
<1>7. Ordered(c)'
  <2>1. pc[c] = "sending" => Matches(c, next[c] - 1)'
    <3>1. pc[c] = "sending" => next[c] - 1 \in 1 .. Len(sent)
      BY <1>1, <1>5 DEF Task, Ordered, Subscribed
    <3> QED BY <1>1, <1>2, <3>1 DEF Task, Ordered
  <2> QED BY <1>1, <1>4, <2>1 DEF Task, Ordered
<1>8. NoGap(c)'
  <2> SUFFICES ASSUME Subscribed(c), open[c], NEW n \in since[c] .. next[c] - 1
               PROVE  Excused(c, n)'
    BY <1>4 DEF NoGap
  <2>1. n \in 1 .. Len(sent) /\ n \in Nat BY <1>1, <1>5
  <2>2. Excused(c, n) BY <1>1 DEF Task, NoGap
  <2> QED BY <1>2, <1>3, <2>1, <2>2 DEF Excused
<1> QED BY <1>6, <1>7, <1>8 DEF Task

\* A step of the handlers: the tables grow, the clients stay.
LEMMA HandlersKeep ==
  ASSUME Inv,
         \/ \E i \in Inscriptions : CommitRow(i)
         \/ \E n \in owed : Announce(n) \/ DropHandler(n)
  PROVE  Inv'
<1>1. /\ rows \in Seq(Inscriptions) /\ owed \subseteq 1 .. Len(rows)
      /\ sent \in Seq(1 .. Len(rows)) /\ Len(rows) \in Nat /\ Len(sent) \in Nat
  BY LenProperties DEF Inv, Tables
<1>2. /\ Tables'
      /\ Len(sent) <= Len(sent')
      /\ \A n \in 1 .. Len(sent) : sent'[n] = sent[n]
      /\ \A n \in 1 .. Len(rows) : rows'[n] = rows[n]
  <2>1. ASSUME NEW i \in Inscriptions, CommitRow(i)
        PROVE  /\ Tables' /\ sent' = sent
               /\ \A n \in 1 .. Len(rows) : rows'[n] = rows[n]
    <3>1. rows' = Append(rows, i) /\ sent' = sent /\ owed' = owed \cup {Len(rows) + 1}
      BY <2>1 DEF CommitRow
    <3>2. /\ rows' \in Seq(Inscriptions)
          /\ Len(rows') = Len(rows) + 1
          /\ \A n \in 1 .. Len(rows) : rows'[n] = rows[n]
      BY <1>1, <3>1, AppendProperties
    <3>3. 1 .. Len(rows) \subseteq 1 .. Len(rows') BY <1>1, <3>2
    <3>4. sent \in Seq(1 .. Len(rows')) BY <1>1, <3>3, SeqMonotonic
    <3>5. owed' \subseteq 1 .. Len(rows')
      <4>1. Len(rows) + 1 \in 1 .. Len(rows') BY <1>1, <3>2
      <4> QED BY <1>1, <3>1, <3>3, <4>1
    <3> QED BY <3>1, <3>2, <3>4, <3>5 DEF Tables
  <2>2. ASSUME NEW n \in owed, Announce(n)
        PROVE  /\ Tables' /\ rows' = rows /\ Len(sent) <= Len(sent')
               /\ \A m \in 1 .. Len(sent) : sent'[m] = sent[m]
    <3>1. rows' = rows /\ owed' \subseteq owed /\ sent' \in {sent, Append(sent, n)}
      BY <2>2 DEF Announce, handlerVars
    <3>2. n \in 1 .. Len(rows) BY <1>1
    <3>3. /\ Append(sent, n) \in Seq(1 .. Len(rows))
          /\ Len(Append(sent, n)) = Len(sent) + 1
          /\ \A m \in 1 .. Len(sent) : Append(sent, n)[m] = sent[m]
      BY <1>1, <3>2, AppendProperties
    <3>4. CASE sent' = sent BY <1>1, <3>1, <3>4 DEF Tables
    <3>5. CASE sent' = Append(sent, n) BY <1>1, <3>1, <3>3, <3>5 DEF Tables
    <3> QED BY <3>1, <3>4, <3>5
  <2>3. ASSUME NEW n \in owed, DropHandler(n)
        PROVE  Tables' /\ rows' = rows /\ sent' = sent
    BY <1>1, <2>3 DEF DropHandler, Tables
  <2> QED BY <1>1, <2>1, <2>2, <2>3
<1>3. UNCHANGED clientVars BY DEF CommitRow, Announce, DropHandler
<1>4. Domains' BY <1>3 DEF Inv, Domains, clientVars
<1>5. \A c \in Clients : Task(c)'
  <2> SUFFICES ASSUME NEW c \in Clients PROVE Task(c)' OBVIOUS
  <2> QED BY <1>2, <1>3, TaskUntouched DEF clientVars
<1> QED BY <1>2, <1>4, <1>5 DEF Inv

\* Tasks that end leave nothing behind.
LEMMA EndKeeps ==
  ASSUME Inv, NEW clients, End(clients), UNCHANGED <<rows, sent>>, owed' \subseteq owed
  PROVE  Inv'
<1>1. Tables' /\ Len(sent) \in Nat BY LenProperties DEF Inv, Tables
<1>2. Domains'
  <2>1. <<>> \in Seq(Nat) OBVIOUS
  <2>2. seen' \in [Clients -> Seq(Nat)] BY <2>1 DEF Inv, Domains, End
  <2> QED BY <2>2 DEF Inv, Domains, End, PCs
<1>3. ASSUME NEW c \in Clients PROVE Task(c)'
  <2>1. CASE c \notin clients
    <3>1. /\ pc'[c] = pc[c] /\ open'[c] = open[c] /\ filter'[c] = filter[c]
          /\ since'[c] = since[c] /\ next'[c] = next[c] /\ seen'[c] = seen[c]
      BY <2>1 DEF End
    <3> QED BY <1>1, <3>1, TaskUntouched
  <2>2. CASE c \in clients
    <3>1. /\ ~Subscribed(c)' /\ since'[c] = 0 /\ next'[c] = 0
          /\ seen'[c] = <<>> /\ filter'[c] = None
      BY <2>2 DEF End, Subscribed
    <3>2. Len(sent') \in Nat BY <1>1
    <3> QED BY <3>1, <3>2, UnsubscribedNext
  <2> QED BY <2>1, <2>2
<1> QED BY <1>1, <1>2, <1>3 DEF Inv

\* A step of the task of c, or of its client, leaves the tables and the other
\* tasks alone.
LEMMA OneTask ==
  ASSUME Inv, UNCHANGED <<handlerVars, sent>>, NEW c \in Clients,
         NEW p \in PCs, NEW b \in BOOLEAN, NEW f \in Filters \cup {None},
         NEW s \in Nat, NEW x \in Nat, NEW q \in Seq(Nat),
         pc' = [pc EXCEPT ![c] = p], open' = [open EXCEPT ![c] = b],
         filter' = [filter EXCEPT ![c] = f], since' = [since EXCEPT ![c] = s],
         next' = [next EXCEPT ![c] = x], seen' = [seen EXCEPT ![c] = q],
         Task(c)'
  PROVE  Inv'
<1>1. Tables' /\ Len(sent) \in Nat
  BY LenProperties DEF Inv, Tables, handlerVars
<1>2. Domains' BY DEF Inv, Domains
<1>3. ASSUME NEW d \in Clients \ {c} PROVE Task(d)'
  <2>1. /\ pc'[d] = pc[d] /\ open'[d] = open[d] /\ filter'[d] = filter[d]
        /\ since'[d] = since[d] /\ next'[d] = next[d] /\ seen'[d] = seen[d]
    BY DEF Inv, Domains
  <2> QED BY <1>1, <2>1, TaskUntouched DEF handlerVars
<1> QED BY <1>1, <1>2, <1>3 DEF Inv

LEMMA ConnectKeeps ==
  ASSUME Inv, NEW c \in Clients, Connect(c)
  PROVE  Inv'
<1>1. /\ pc' = [pc EXCEPT ![c] = "greeting"] /\ open' = [open EXCEPT ![c] = TRUE]
      /\ UNCHANGED <<handlerVars, sent, filter, since, next, seen>> /\ pc[c] = "gone"
  BY DEF Connect
<1>2. /\ filter' = [filter EXCEPT ![c] = filter[c]] /\ since' = [since EXCEPT ![c] = since[c]]
      /\ next' = [next EXCEPT ![c] = next[c]] /\ seen' = [seen EXCEPT ![c] = seen[c]]
      /\ filter[c] \in Filters \cup {None} /\ since[c] \in Nat /\ next[c] \in Nat
      /\ seen[c] \in Seq(Nat) /\ pc'[c] = "greeting"
  BY <1>1 DEF Inv, Domains
<1>3. Task(c)'
  <2>1. Task(c) /\ Len(sent) \in Nat BY LenProperties DEF Inv, Tables
  <2>2. ~Subscribed(c) /\ ~Subscribed(c)' BY <1>1, <1>2 DEF Subscribed
  <2>3. since[c] = 0 /\ seen[c] = <<>> /\ filter[c] = None BY <2>1, <2>2 DEF Task, Ordered
  <2>4. Len(seen[c]) = 0 BY <2>3
  <2>5. Positions(c)' BY <1>1, <2>1 DEF Task, Positions
  <2>6. Ordered(c)' BY <1>1, <1>2, <2>2, <2>3, <2>4 DEF Ordered
  <2>7. NoGap(c)' BY <2>2 DEF NoGap
  <2> QED BY <2>5, <2>6, <2>7 DEF Task
<1> QED BY <1>1, <1>2, <1>3, OneTask DEF PCs

LEMMA SubscribeKeeps ==
  ASSUME Inv, NEW c \in Clients, Subscribe(c)
  PROVE  Inv'
<1> DEFINE x == Len(sent) + 1
<1>1. PICK f \in Filters \cup {None} :
        /\ pc' = [pc EXCEPT ![c] = "listening"] /\ filter' = [filter EXCEPT ![c] = f]
        /\ since' = [since EXCEPT ![c] = x] /\ next' = [next EXCEPT ![c] = x]
        /\ UNCHANGED <<handlerVars, sent, open, seen>> /\ pc[c] = "greeting"
  BY DEF Subscribe
<1>2. x \in Nat /\ Len(sent) \in Nat BY LenProperties DEF Inv, Tables
<1>3. /\ open' = [open EXCEPT ![c] = open[c]] /\ seen' = [seen EXCEPT ![c] = seen[c]]
      /\ open[c] \in BOOLEAN /\ seen[c] \in Seq(Nat)
      /\ pc'[c] = "listening" /\ since'[c] = x /\ next'[c] = x /\ seen'[c] = seen[c]
  BY <1>1 DEF Inv, Domains
<1>4. Task(c)'
  <2>1. Task(c) /\ ~Subscribed(c) BY <1>1 DEF Inv, Subscribed
  <2>2. seen'[c] = <<>> /\ Len(seen'[c]) = 0 BY <1>3, <2>1 DEF Task, Ordered
  <2>3. Subscribed(c)' BY <1>3 DEF Subscribed
  <2>4. Positions(c)' BY <1>1, <1>2, <1>3, <2>2 DEF Positions
  <2>5. Ordered(c)' BY <1>2, <1>3, <2>2, <2>3 DEF Ordered
  <2>6. NoGap(c)' BY <1>2, <1>3 DEF NoGap
  <2> QED BY <2>4, <2>5, <2>6 DEF Task
<1> HIDE DEF x
<1> QED BY <1>1, <1>2, <1>3, <1>4, OneTask DEF PCs

\* What a receiver's steps share: the task, its positions and its events.
LEMMA Receiving ==
  ASSUME Inv, NEW c \in Clients, Subscribed(c)
  PROVE  /\ Task(c) /\ Len(sent) \in Nat /\ since[c] \in Nat /\ next[c] \in Nat
         /\ 1 <= since[c] /\ since[c] <= next[c]
         /\ seen[c] \in Seq(Nat) /\ Len(seen[c]) \in Nat
         /\ DOMAIN seen[c] = 1 .. Len(seen[c])
         /\ open[c] \in BOOLEAN /\ filter[c] \in Filters \cup {None}
BY LenProperties DEF Inv, Tables, Domains, Task, Ordered

\* The receiver passes over the positions up to y: Matches and Overwritten do not
\* change, and what lies between has an excuse.
LEMMA Advance ==
  ASSUME Inv, NEW c \in Clients, pc[c] = "listening",
         NEW p \in {"listening", "sending"}, NEW y \in Nat,
         next[c] < y, y <= Len(sent) + 1,
         pc' = [pc EXCEPT ![c] = p], next' = [next EXCEPT ![c] = y],
         UNCHANGED <<handlerVars, sent, open, filter, since, seen>>,
         p = "sending" => Matches(c, y - 1),
         \A n \in next[c] .. y - 1 :
           ~Matches(c, n) \/ Overwritten(n) \/ (p = "sending" /\ n = y - 1)
  PROVE  Inv'
<1>1. Subscribed(c) BY DEF Subscribed
<1>2. /\ Task(c) /\ Len(sent) \in Nat /\ since[c] \in Nat /\ next[c] \in Nat
      /\ 1 <= since[c] /\ since[c] <= next[c]
      /\ seen[c] \in Seq(Nat) /\ open[c] \in BOOLEAN /\ filter[c] \in Filters \cup {None}
  BY <1>1, Receiving
<1>3. /\ open' = [open EXCEPT ![c] = open[c]] /\ seen' = [seen EXCEPT ![c] = seen[c]]
      /\ filter' = [filter EXCEPT ![c] = filter[c]] /\ since' = [since EXCEPT ![c] = since[c]]
      /\ pc'[c] = p /\ next'[c] = y /\ since'[c] = since[c] /\ seen'[c] = seen[c]
      /\ open'[c] = open[c]
  BY DEF Inv, Domains
<1>4. \A n : Matches(c, n)' = Matches(c, n) /\ Overwritten(n)' = Overwritten(n)
  BY DEF Matches, Overwritten, handlerVars
<1>5. Positions(c)' BY <1>2, <1>3 DEF Task, Positions
<1>6. Ordered(c)'
  <2>1. Subscribed(c)' BY <1>3 DEF Subscribed
  <2>2. \A k \in 1 .. Len(seen[c]) :
          /\ since[c] <= seen[c][k] /\ seen[c][k] < next[c] /\ seen[c][k] \in Nat
          /\ \A j \in 1 .. k - 1 : seen[c][j] < seen[c][k]
    BY <1>2 DEF Task, Ordered, Positions
  <2>3. \A k \in 1 .. Len(seen[c]) : seen[c][k] < y - 1
    BY <1>2, <2>2
  <2>4. since[c] < y /\ since[c] <= y BY <1>2
  <2>5. p = "sending" => Matches(c, next[c] - 1)'
    BY <1>3 DEF Matches, handlerVars
  <2>6. \A k \in 1 .. Len(seen'[c]) :
          /\ since'[c] <= seen'[c][k] /\ seen'[c][k] < next'[c]
          /\ seen'[c][k] < next'[c] - 1
          /\ \A j \in 1 .. k - 1 : seen'[c][j] < seen'[c][k]
    <3>1. ASSUME NEW k \in 1 .. Len(seen[c]) PROVE seen[c][k] < y
      <4>1. seen[c][k] \in Nat /\ seen[c][k] < y - 1 BY <2>2, <2>3
      <4> QED BY <4>1
    <3> QED BY <1>3, <2>2, <2>3, <3>1
  <2>7. 1 <= since'[c] /\ since'[c] <= next'[c] /\ since'[c] < next'[c]
    BY <1>2, <1>3, <2>4
  <2>8. pc'[c] = p BY <1>3
  <2> QED BY <2>1, <2>5, <2>6, <2>7, <2>8 DEF Ordered
<1>7. NoGap(c)'
  <2> SUFFICES ASSUME open[c], NEW n \in since[c] .. y - 1 PROVE Excused(c, n)'
    BY <1>3 DEF NoGap
  <2>1. CASE n \in since[c] .. next[c] - 1
    <3>1. Excused(c, n) BY <1>1, <1>2, <2>1 DEF Task, NoGap
    <3> QED BY <1>3, <1>4, <3>1 DEF Excused
  <2>2. CASE n \in next[c] .. y - 1 BY <1>3, <1>4, <2>2 DEF Excused
  <2> QED BY <1>2, <2>1, <2>2
<1>8. Task(c)' BY <1>5, <1>6, <1>7 DEF Task
<1>9. p \in PCs /\ UNCHANGED <<handlerVars, sent>> BY DEF PCs
<1>10. /\ open[c] \in BOOLEAN /\ filter[c] \in Filters \cup {None}
       /\ since[c] \in Nat /\ seen[c] \in Seq(Nat)
  BY <1>2
<1>11. /\ open' = [open EXCEPT ![c] = open[c]] /\ seen' = [seen EXCEPT ![c] = seen[c]]
       /\ filter' = [filter EXCEPT ![c] = filter[c]]
       /\ since' = [since EXCEPT ![c] = since[c]]
  BY <1>3
<1> QED BY <1>8, <1>9, <1>10, <1>11, OneTask, Zenon

LEMMA SkipMissedKeeps ==
  ASSUME Inv, NEW c \in Clients, SkipMissed(c)
  PROVE  Inv'
<1> DEFINE y == Len(sent) - Capacity + 1
<1>1. /\ pc[c] = "listening" /\ next[c] <= Len(sent) /\ next[c] + Capacity <= Len(sent)
      /\ next' = [next EXCEPT ![c] = y]
      /\ UNCHANGED <<handlerVars, sent, pc, open, filter, since, seen>>
  BY DEF SkipMissed, Overwritten
<1>2. next[c] \in Nat /\ Len(sent) \in Nat BY LenProperties DEF Inv, Domains, Tables
<1>3. y \in Nat /\ next[c] < y /\ y <= Len(sent) + 1 BY <1>1, <1>2
<1>4. \A n \in next[c] .. y - 1 : Overwritten(n) BY <1>2 DEF Overwritten
<1>5. pc' = [pc EXCEPT ![c] = "listening"] BY <1>1 DEF Inv, Domains
<1> HIDE DEF y
<1> QED BY <1>1, <1>3, <1>4, <1>5, Advance

LEMMA TakeEventKeeps ==
  ASSUME Inv, NEW c \in Clients, TakeEvent(c)
  PROVE  Inv'
<1> DEFINE p == IF Matches(c, next[c]) THEN "sending" ELSE "listening"
           y == next[c] + 1
<1>1. /\ pc[c] = "listening" /\ next[c] <= Len(sent)
      /\ next' = [next EXCEPT ![c] = y] /\ pc' = [pc EXCEPT ![c] = p]
      /\ UNCHANGED <<handlerVars, sent, open, filter, since, seen>>
  BY DEF TakeEvent
<1>2. next[c] \in Nat /\ Len(sent) \in Nat BY LenProperties DEF Inv, Domains, Tables
<1>3. y \in Nat /\ next[c] < y /\ y <= Len(sent) + 1 /\ y - 1 = next[c] BY <1>1, <1>2
<1>4. /\ p = "sending" => Matches(c, y - 1)
      /\ \A n \in next[c] .. y - 1 :
           ~Matches(c, n) \/ Overwritten(n) \/ (p = "sending" /\ n = y - 1)
  <2>1. \A n \in next[c] .. y - 1 : n = next[c] BY <1>2, <1>3
  <2> QED BY <1>3, <2>1
<1>5. p \in {"listening", "sending"} OBVIOUS
<1> HIDE DEF y, p
<1> QED BY <1>1, <1>3, <1>4, <1>5, Advance

LEMMA SendFrameKeeps ==
  ASSUME Inv, NEW c \in Clients, SendFrame(c)
  PROVE  Inv'
<1> DEFINE n == next[c] - 1
           q == IF open[c] THEN Append(seen[c], n) ELSE seen[c]
<1>1. /\ pc[c] = "sending" /\ pc' = [pc EXCEPT ![c] = "listening"]
      /\ seen' = [seen EXCEPT ![c] = q]
      /\ UNCHANGED <<handlerVars, sent, open, filter, since, next>>
  BY DEF SendFrame, Inv, Domains
<1>2. /\ Task(c) /\ Len(sent) \in Nat /\ since[c] \in Nat /\ next[c] \in Nat
      /\ 1 <= since[c] /\ since[c] <= n /\ n \in 1 .. Len(sent)
      /\ seen[c] \in Seq(Nat) /\ Len(seen[c]) \in Nat
      /\ open[c] \in BOOLEAN /\ filter[c] \in Filters \cup {None}
  <2>1. Subscribed(c) BY <1>1 DEF Subscribed
  <2>2. since[c] < next[c] /\ next[c] <= Len(sent) + 1
    BY <1>1, <2>1, Receiving DEF Task, Ordered, Positions
  <2> QED BY <2>1, <2>2, Receiving
<1>3. /\ q \in Seq(Nat)
      /\ Len(q) \in Nat /\ Len(q) \in {Len(seen[c]), Len(seen[c]) + 1}
      /\ Len(q) = Len(seen[c]) => ~open[c]
      /\ \A k \in 1 .. Len(seen[c]) : q[k] = seen[c][k]
      /\ Len(q) = Len(seen[c]) + 1 => q[Len(q)] = n
  <2>1. CASE open[c] BY <1>2, <2>1, AppendProperties
  <2>2. CASE ~open[c] BY <1>2, <2>2
  <2> QED BY <2>1, <2>2
<1>4. /\ open' = [open EXCEPT ![c] = open[c]] /\ next' = [next EXCEPT ![c] = next[c]]
      /\ filter' = [filter EXCEPT ![c] = filter[c]] /\ since' = [since EXCEPT ![c] = since[c]]
      /\ pc'[c] = "listening" /\ seen'[c] = q
  BY <1>1 DEF Inv, Domains
<1>5. \A m : Matches(c, m)' = Matches(c, m) /\ Overwritten(m)' = Overwritten(m)
  BY <1>1 DEF Matches, Overwritten, handlerVars
<1> HIDE DEF q, n
<1>6. n = next[c] - 1 BY DEF n
<1>7. \A k \in 1 .. Len(q) : \/ k \in 1 .. Len(seen[c]) /\ q[k] = seen[c][k]
                             \/ k = Len(seen[c]) + 1 /\ q[k] = n
  <2> SUFFICES ASSUME NEW k \in 1 .. Len(q), k \notin 1 .. Len(seen[c])
               PROVE  k = Len(seen[c]) + 1 /\ q[k] = n
    BY <1>3
  <2> QED BY <1>2, <1>3
<1>8. \A k \in 1 .. Len(seen[c]) :
        /\ seen[c][k] \in 1 .. Len(sent) /\ since[c] <= seen[c][k] /\ seen[c][k] < n
        /\ \A j \in 1 .. k - 1 : seen[c][j] < seen[c][k]
  BY <1>1, <1>2, <1>6 DEF Task, Positions, Ordered
<1>9. Positions(c)' BY <1>1, <1>2, <1>4, <1>7, <1>8 DEF Task, Positions
<1>10. Ordered(c)'
  <2>1. Subscribed(c)' BY <1>4 DEF Subscribed
  <2>2. ASSUME NEW k \in 1 .. Len(q)
        PROVE  /\ since[c] <= q[k] /\ q[k] < next[c]
               /\ \A j \in 1 .. k - 1 : q[j] < q[k]
    <3>1. CASE k \in 1 .. Len(seen[c])
      <4>1. \A j \in 1 .. k - 1 : j \in 1 .. Len(seen[c]) BY <1>2, <3>1
      <4> QED BY <1>2, <1>3, <1>6, <1>8, <3>1, <4>1
    <3>2. CASE k = Len(seen[c]) + 1 /\ q[k] = n
      <4>1. \A j \in 1 .. k - 1 : j \in 1 .. Len(seen[c]) BY <1>2, <3>2
      <4> QED BY <1>2, <1>3, <1>6, <1>8, <3>2, <4>1
    <3> QED BY <1>7, <3>1, <3>2
  <2>3. since[c] <= next[c] BY <1>2, <1>6
  <2> QED BY <1>1, <1>2, <1>4, <2>1, <2>2, <2>3 DEF Ordered
<1>11. NoGap(c)'
  <2> SUFFICES ASSUME open[c], NEW m \in since[c] .. next[c] - 1 PROVE Excused(c, m)'
    BY <1>1, <1>4 DEF NoGap
  <2>1. Len(q) = Len(seen[c]) + 1 BY <1>3
  <2>2. CASE m = n
    <3>1. Len(q) \in 1 .. Len(q) /\ q[Len(q)] = m BY <1>2, <1>3, <2>1, <2>2
    <3> QED BY <1>4, <3>1 DEF Excused
  <2>3. CASE m # n
    <3>1. Excused(c, m) BY <1>1, <1>2 DEF Task, NoGap, Subscribed
    <3>2. ASSUME NEW k \in 1 .. Len(seen[c]), seen[c][k] = m
          PROVE  k \in 1 .. Len(q) /\ q[k] = m
      <4>1. Len(seen[c]) \in Nat /\ k \in 1 .. Len(seen[c]) BY <1>2
      <4>2. q[k] = m BY <1>3, <3>2
      <4>3. k \in 1 .. Len(q) BY <2>1, <4>1
      <4> QED BY <4>2, <4>3
    <3> QED BY <1>4, <1>5, <1>6, <2>3, <3>1, <3>2 DEF Excused
  <2> QED BY <2>2, <2>3
<1>12. Task(c)' BY <1>9, <1>10, <1>11 DEF Task
<1>13. /\ pc' = [pc EXCEPT ![c] = "listening"] /\ seen' = [seen EXCEPT ![c] = q]
       /\ UNCHANGED <<handlerVars, sent>> /\ "listening" \in PCs
  BY <1>1 DEF PCs
<1> QED BY <1>2, <1>3, <1>4, <1>12, <1>13, OneTask

LEMMA DisconnectKeeps ==
  ASSUME Inv, NEW c \in Clients, Disconnect(c)
  PROVE  Inv'
<1>1. /\ open' = [open EXCEPT ![c] = FALSE]
      /\ UNCHANGED <<handlerVars, sent, pc, filter, since, next, seen>>
  BY DEF Disconnect
<1>2. /\ pc' = [pc EXCEPT ![c] = pc[c]] /\ next' = [next EXCEPT ![c] = next[c]]
      /\ filter' = [filter EXCEPT ![c] = filter[c]] /\ since' = [since EXCEPT ![c] = since[c]]
      /\ seen' = [seen EXCEPT ![c] = seen[c]] /\ ~open'[c]
      /\ pc[c] \in PCs /\ next[c] \in Nat /\ since[c] \in Nat /\ seen[c] \in Seq(Nat)
      /\ filter[c] \in Filters \cup {None}
  BY <1>1 DEF Inv, Domains
<1>3. Task(c)'
  <2>1. Task(c) BY DEF Inv
  <2>2. Positions(c)' BY <1>1, <2>1 DEF Task, Positions
  <2>3. Ordered(c)' BY <1>1, <2>1 DEF Task, Ordered, Subscribed, Matches, handlerVars
  <2>4. NoGap(c)' BY <1>2 DEF NoGap
  <2> QED BY <2>2, <2>3, <2>4 DEF Task
<1> QED BY <1>1, <1>2, <1>3, OneTask

LEMMA StepInv ==
  ASSUME Inv, [Next]_vars
  PROVE  Inv'
<1>1. CASE UNCHANGED vars
  <2>1. UNCHANGED <<rows, owed, sent, pc, open, filter, since, next, seen>>
    BY <1>1 DEF vars, handlerVars, clientVars
  <2>2. Len(sent) \in Nat BY LenProperties DEF Inv, Tables
  <2>3. Tables' /\ Domains' BY <2>1 DEF Inv, Tables, Domains
  <2>4. \A c \in Clients : Task(c)' BY <2>1, <2>2, <2>3, TaskUntouched
  <2> QED BY <2>3, <2>4 DEF Inv
<1>2. CASE Restart
  <2>1. End(Clients) /\ UNCHANGED <<rows, sent>> /\ owed' \subseteq owed
    BY <1>2 DEF Restart
  <2> QED BY <2>1, EndKeeps
<1>3. ASSUME NEW c \in Clients, SendFails(c) PROVE Inv'
  <2>1. End({c}) /\ UNCHANGED <<rows, sent>> /\ owed' \subseteq owed
    BY <1>3 DEF SendFails, handlerVars
  <2> QED BY <2>1, EndKeeps
<1> QED BY <1>1, <1>2, <1>3, HandlersKeep, ConnectKeeps, SubscribeKeeps, SkipMissedKeeps,
       TakeEventKeeps, SendFrameKeeps, DisconnectKeeps DEF Next, Forward

\* Every reachable state keeps the invariant.
LEMMA Inductive == Spec => []Inv
BY InitInv, StepInv, PTL DEF Spec

\* Positions stay within the channel's history, rows announced are rows committed
\* and a receiver never runs ahead of the channel.
THEOREM TypeCorrect == Spec => []TypeOK
<1>1. Inv => TypeOK BY InvImplies
<1> QED BY <1>1, Inductive, PTL

\* A lagging receiver skips only what the channel has overwritten: every other
\* event a connected client wants is delivered to it or about to be.
THEOREM OnlyOverwrittenIsMissed == Spec => []OnlyOverwrittenMissed
<1>1. Inv => OnlyOverwrittenMissed BY InvImplies
<1> QED BY <1>1, Inductive, PTL

-----------------------------------------------------------------------------
\* The refinement: every step is a step of the abstract feed or leaves it alone.

\* The feed as the mapping sees it.
Published == [n \in 1 .. Len(sent) |-> rows[sent[n]]]
Wants     == [c \in Clients |-> IF Subscribed(c) THEN Wanted(filter[c]) ELSE {}]

\* A function on 1 .. n + 1 that agrees with s on 1 .. n is s with one more item.
LEMMA OneMore ==
  ASSUME NEW T, NEW n \in Nat, NEW s \in [1 .. n -> T], NEW x \in T,
         NEW u \in [1 .. n + 1 -> T], \A k \in 1 .. n : u[k] = s[k], u[n + 1] = x
  PROVE  u = Append(s, x)
<1>1. s \in Seq(T) /\ Len(s) = n /\ u \in Seq(T) /\ Len(u) = n + 1
  OBVIOUS
<1> DEFINE h == Append(s, x)
<1>2. h \in Seq(T) /\ Len(h) = n + 1 /\ \A k \in 1 .. n + 1 : h[k] = u[k]
  BY <1>1, AppendProperties
<1> QED BY <1>1, <1>2, SeqEqual

LEMMA PublishedType ==
  ASSUME Inv
  PROVE  /\ Len(sent) \in Nat
         /\ \A n \in 1 .. Len(sent) : sent[n] \in 1 .. Len(rows)
         /\ Published \in [1 .. Len(sent) -> Inscriptions]
         /\ Len(Published) = Len(sent)
<1>1. Len(sent) \in Nat /\ \A n \in 1 .. Len(sent) : sent[n] \in 1 .. Len(rows)
  BY LenProperties, ElementOfSeq DEF Inv, Tables
<1>2. \A m \in 1 .. Len(rows) : rows[m] \in Inscriptions
  BY ElementOfSeq DEF Inv, Tables
<1>3. Published \in [1 .. Len(sent) -> Inscriptions] BY <1>1, <1>2 DEF Published
<1>4. Len(Published) = Len(sent) BY <1>1 DEF Published
<1> QED BY <1>1, <1>3, <1>4

LEMMA InitPromise == Init => Promise!Init
<1> SUFFICES ASSUME Init PROVE Promise!Init
  OBVIOUS
<1>1. Published = <<>> BY DEF Init, Published
<1>2. \A c \in Clients : ~Subscribed(c) BY DEF Init, Subscribed
<1> QED BY <1>1, <1>2 DEF Init, Promise!Init, Published

\* The abstract variables that a step leaves alone.
LEMMA SameWants ==
  ASSUME \A c \in Clients : Subscribed(c)' = Subscribed(c), UNCHANGED filter
  PROVE  Wants' = Wants
BY DEF Wants

LEMMA SamePublished ==
  ASSUME Inv, UNCHANGED sent, \A n \in 1 .. Len(rows) : rows'[n] = rows[n]
  PROVE  Published' = Published
<1>1. \A n \in 1 .. Len(sent) : rows'[sent[n]] = rows[sent[n]] BY PublishedType
<1> QED BY <1>1 DEF Published

LEMMA AnnouncePublishes ==
  ASSUME Inv, NEW n \in owed, Announce(n)
  PROVE  [Promise!Next]_<<Published, Wants, since, seen>>
<1>1. UNCHANGED <<rows, clientVars>> /\ sent' \in {sent, Append(sent, n)}
  BY DEF Announce
<1>2. Wants' = Wants /\ since' = since /\ seen' = seen
  BY <1>1, SameWants DEF clientVars, Subscribed
<1>3. CASE sent' = sent
  <2>1. Published' = Published BY <1>1, <1>3, SamePublished
  <2> QED BY <1>2, <2>1
<1>4. CASE sent' = Append(sent, n)
  <2> DEFINE N == Len(sent)
  <2>1. /\ n \in 1 .. Len(rows) /\ rows[n] \in Inscriptions
        /\ sent \in Seq(1 .. Len(rows)) /\ N \in Nat
    BY ElementOfSeq, LenProperties DEF Inv, Tables
  <2>2. /\ Len(sent') = N + 1 /\ sent'[N + 1] = n
        /\ \A k \in 1 .. N : sent'[k] = sent[k]
    BY <1>4, <2>1, AppendProperties
  <2>3. Published' = [k \in 1 .. N + 1 |-> rows[sent'[k]]]
    BY <1>1, <2>2 DEF Published
  <2>4. Published \in [1 .. N -> Inscriptions] BY PublishedType
  <2>5. \A k \in 1 .. N : Published'[k] = Published[k]
    BY <2>1, <2>2, <2>3 DEF Published
  <2>6. Published'[N + 1] = rows[n] BY <2>1, <2>2, <2>3
  <2>7. Published' \in [1 .. N + 1 -> Inscriptions]
    <3>1. \A k \in 1 .. N + 1 : rows[sent'[k]] \in Inscriptions
      <4>1. \A k \in 1 .. N : rows[sent'[k]] = Published[k] BY <2>2 DEF Published
      <4>2. rows[sent'[N + 1]] \in Inscriptions BY <2>1, <2>2
      <4>3. \A k \in 1 .. N + 1 : k \in 1 .. N \/ k = N + 1 BY <2>1
      <4> QED BY <2>4, <4>1, <4>2, <4>3
    <3> QED BY <2>3, <3>1
  <2> HIDE DEF N
  <2>8. Published' = Append(Published, rows[n])
    BY <2>1, <2>4, <2>5, <2>6, <2>7, OneMore
  <2>9. PICK topic \in Inscriptions : topic = rows[n] BY <2>1
  <2>10. Promise!Publish(topic)
    BY <1>2, <2>8, <2>9 DEF Promise!Publish, Published, Wants
  <2>11. Promise!Next BY <2>10 DEF Promise!Next
  <2> QED BY <2>11
<1> QED BY <1>1, <1>3, <1>4

LEMMA SubscribeJoins ==
  ASSUME Inv, NEW c \in Clients, Subscribe(c)
  PROVE  Promise!Next
<1>1. PICK f \in Filters \cup {None} :
        /\ pc' = [pc EXCEPT ![c] = "listening"] /\ filter' = [filter EXCEPT ![c] = f]
        /\ since' = [since EXCEPT ![c] = Len(sent) + 1]
        /\ UNCHANGED <<rows, sent, seen>> /\ pc[c] = "greeting"
  BY DEF Subscribe, handlerVars
<1>2. since[c] = 0 BY <1>1 DEF Inv, Task, Ordered, Subscribed
<1>3. Published' = Published /\ Len(Published) = Len(sent)
  BY <1>1, SamePublished, PublishedType
<1>4. Wants' = [Wants EXCEPT ![c] = Wanted(f)]
  <2>1. \A d \in Clients : Wants'[d] = IF d = c THEN Wanted(f) ELSE Wants[d]
    BY <1>1 DEF Wants, Subscribed, Inv, Domains
  <2> QED BY <2>1 DEF Wants
<1>5. Wanted(f) \in SUBSET Inscriptions BY DEF Wanted
<1>6. Promise!Join(c, Wanted(f))
  BY <1>1, <1>2, <1>3, <1>4 DEF Promise!Join, Published, Wants
<1> QED BY <1>5, <1>6 DEF Promise!Next

LEMMA SendFrameTells ==
  ASSUME Inv, NEW c \in Clients, SendFrame(c), open[c]
  PROVE  Promise!Next
<1> DEFINE n == next[c] - 1
<1>1. /\ pc[c] = "sending" /\ pc' = [pc EXCEPT ![c] = "listening"]
      /\ seen' = [seen EXCEPT ![c] = Append(@, n)]
      /\ UNCHANGED <<rows, sent, filter, since>>
  BY DEF SendFrame, handlerVars
<1>2. /\ Task(c) /\ Len(sent) \in Nat /\ since[c] \in Nat /\ next[c] \in Nat
      /\ 1 <= since[c] /\ seen[c] \in Seq(Nat) /\ Len(seen[c]) \in Nat /\ Subscribed(c)
  BY <1>1, Receiving DEF Subscribed
<1>3. /\ since[c] <= n /\ n \in 1 .. Len(sent) /\ Matches(c, n)
  BY <1>1, <1>2 DEF Task, Ordered, Positions
<1>4. Published' = Published /\ Len(Published) = Len(sent)
  BY <1>1, SamePublished, PublishedType
<1>5. Wants' = Wants BY <1>1, SameWants DEF Subscribed, Inv, Domains
<1>6. \A m \in 1 .. Len(sent) : Matches(c, m) <=> Published[m] \in Wants[c]
  BY <1>2 DEF Matches, Published, Wants
<1>7. \A k \in 1 .. Len(seen[c]) :
        /\ since[c] <= seen[c][k] /\ seen[c][k] < n /\ seen[c][k] \in 1 .. Len(sent)
        /\ \A j \in 1 .. k - 1 : seen[c][j] < seen[c][k]
  BY <1>1, <1>2 DEF Task, Ordered, Positions
<1> DEFINE s == IF seen[c] = <<>> THEN since[c] - 1 ELSE seen[c][Len(seen[c])]
<1>8. ASSUME seen[c] = <<>>
      PROVE  s < n /\ \A m \in s + 1 .. n - 1 : Matches(c, m) => Overwritten(m)
  <2>1. s = since[c] - 1 /\ s \in Nat /\ s < n BY <1>2, <1>3, <1>8
  <2>2. ASSUME NEW m \in s + 1 .. n - 1, Matches(c, m) PROVE Overwritten(m)
    <3>1. m \in since[c] .. next[c] - 1 /\ m # n BY <1>2, <1>3, <2>1
    <3>2. Excused(c, m) BY <1>2, <3>1 DEF Task, NoGap
    <3>3. Len(seen[c]) = 0 BY <1>8
    <3> QED BY <2>2, <3>1, <3>2, <3>3 DEF Excused
  <2> QED BY <1>3, <2>1, <2>2
<1>9. ASSUME seen[c] # <<>>
      PROVE  s < n /\ \A m \in s + 1 .. n - 1 : Matches(c, m) => Overwritten(m)
  <2>1. Len(seen[c]) \in 1 .. Len(seen[c]) BY <1>2, <1>9, EmptySeq
  <2>2. s = seen[c][Len(seen[c])] /\ s \in Nat /\ since[c] <= s /\ s < n
    BY <1>7, <1>9, <2>1
  <2>3. ASSUME NEW m \in s + 1 .. n - 1, Matches(c, m) PROVE Overwritten(m)
    <3>1. m \in since[c] .. next[c] - 1 /\ m # n /\ s < m BY <1>2, <1>3, <2>2
    <3>2. Excused(c, m) BY <1>2, <3>1 DEF Task, NoGap
    <3>3. ASSUME NEW k \in 1 .. Len(seen[c]) PROVE seen[c][k] # m
      <4>1. CASE k = Len(seen[c]) BY <2>2, <3>1, <4>1
      <4>2. CASE k # Len(seen[c])
        <5>1. k \in 1 .. Len(seen[c]) - 1 BY <1>2, <4>2
        <5>2. seen[c][k] < s BY <1>7, <2>1, <2>2, <5>1
        <5>3. seen[c][k] \in Nat BY <1>7
        <5> QED BY <2>2, <3>1, <5>2, <5>3
      <4> QED BY <4>1, <4>2
    <3> QED BY <2>3, <3>1, <3>2, <3>3 DEF Excused
  <2> QED BY <1>3, <2>2, <2>3
<1>10. s < n /\ \A m \in s + 1 .. n - 1 : Matches(c, m) => Overwritten(m)
  BY <1>8, <1>9
<1>11. s \in Nat
  <2>1. CASE seen[c] = <<>> BY <1>2, <2>1
  <2>2. CASE seen[c] # <<>>
    <3>1. Len(seen[c]) \in 1 .. Len(seen[c]) BY <1>2, <2>2, EmptySeq
    <3> QED BY <1>7, <2>2, <3>1
  <2> QED BY <2>1, <2>2
<1>12. s = Promise!Served(c) BY DEF Promise!Served
<1> HIDE DEF s, n
<1>13. \A m \in s + 1 .. n - 1 :
         Published[m] \in Wants[c] => m + Capacity <= Len(Published)
  <2>1. \A m \in s + 1 .. n - 1 : m \in 1 .. Len(sent) BY <1>2, <1>3, <1>11
  <2> QED BY <1>4, <1>6, <1>10, <2>1 DEF Overwritten
<1>14. Promise!Tell(c, n)
  BY <1>1, <1>2, <1>3, <1>4, <1>5, <1>6, <1>10, <1>12, <1>13
  DEF Promise!Tell, Published, Wants
<1> QED BY <1>3, <1>4, <1>14 DEF Promise!Next, Published

LEMMA EndLeaves ==
  ASSUME Inv, NEW clients \in SUBSET Clients, End(clients), UNCHANGED <<rows, sent>>
  PROVE  Promise!Next
<1>1. Published' = Published BY SamePublished
<1>2. Wants' = [c \in Clients |-> IF c \in clients THEN {} ELSE Wants[c]]
  BY DEF Wants, Subscribed, End
<1>3. Promise!Leave(clients)
  BY <1>1, <1>2 DEF Promise!Leave, Published, Wants, End
<1> QED BY <1>3 DEF Promise!Next

\* What leaves the abstract feed alone.
LEMMA Stutters ==
  ASSUME Inv,
         \/ UNCHANGED vars
         \/ \E i \in Inscriptions : CommitRow(i)
         \/ \E n \in owed : DropHandler(n)
         \/ \E c \in Clients : \/ Connect(c) \/ SkipMissed(c) \/ TakeEvent(c)
                               \/ Disconnect(c) \/ (SendFrame(c) /\ ~open[c])
  PROVE  UNCHANGED <<Published, Wants, since, seen>>
<1>1. sent' = sent /\ \A n \in 1 .. Len(rows) : rows'[n] = rows[n]
  <2>1. ASSUME NEW i \in Inscriptions, CommitRow(i)
        PROVE  sent' = sent /\ \A n \in 1 .. Len(rows) : rows'[n] = rows[n]
    <3>1. rows' = Append(rows, i) /\ sent' = sent BY <2>1 DEF CommitRow
    <3>2. rows \in Seq(Inscriptions) BY DEF Inv, Tables
    <3> QED BY <3>1, <3>2, AppendProperties
  <2>2. CASE UNCHANGED <<rows, sent>> BY <2>2
  <2> QED BY <2>1, <2>2 DEF vars, handlerVars, DropHandler, Connect, SkipMissed,
          TakeEvent, Disconnect, SendFrame
<1>2. UNCHANGED <<filter, since, seen>>
  BY DEF vars, clientVars, CommitRow, DropHandler, Connect, SkipMissed, TakeEvent,
     Disconnect, SendFrame
<1>3. \A c \in Clients : Subscribed(c)' = Subscribed(c)
  BY DEF vars, clientVars, CommitRow, DropHandler, Connect, SkipMissed, TakeEvent,
     Disconnect, SendFrame, Subscribed, Inv, Domains
<1> QED BY <1>1, <1>2, <1>3, SamePublished, SameWants

LEMMA StepPromise ==
  ASSUME Inv, [Next]_vars
  PROVE  [Promise!Next]_<<Published, Wants, since, seen>>
<1>1. ASSUME NEW c \in Clients, SendFails(c) PROVE Promise!Next
  BY <1>1, EndLeaves DEF SendFails, handlerVars
<1>2. CASE Restart BY <1>2, EndLeaves DEF Restart
<1>3. ASSUME NEW c \in Clients, SendFrame(c)
      PROVE  [Promise!Next]_<<Published, Wants, since, seen>>
  BY <1>3, SendFrameTells, Stutters
<1>4. ASSUME NEW c \in Clients, Subscribe(c) PROVE Promise!Next
  BY <1>4, SubscribeJoins
<1> QED BY <1>1, <1>2, <1>3, <1>4, AnnouncePublishes, Stutters DEF Next, Forward

\* Handlers, sockets, lagging receivers, disconnections and restarts keep the
\* promise of the abstract feed.
THEOREM Refinement == Spec => ImplementsFeedPromise
<1>1. Inv /\ [Next]_vars => [Promise!Next]_<<Published, Wants, since, seen>>
  BY StepPromise
<1> QED BY <1>1, InitPromise, Inductive, PTL
        DEF Spec, ImplementsFeedPromise, Promise!Spec, Promise!vars, Published, Wants

=============================================================================
