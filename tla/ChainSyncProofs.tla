--------------------------- MODULE ChainSyncProofs ---------------------------
(***************************************************************************)
(* Proofs about ChainSync, for every set of sales and inscriptions.        *)
(***************************************************************************)
EXTENDS ChainSync, SequenceTheorems, TLAPS

USE ConstantsAssumption

-----------------------------------------------------------------------------
\* Types.

\* A block leaves the later transactions of an inscription in the mempool, and
\* those it takes are sales.
LEMMA BlockSplitsQueue ==
  ASSUME NEW q \in Seq(Sales), NEW n \in 0 .. Len(q)
  PROVE  /\ SubSeq(q, n + 1, Len(q)) \in Seq(Sales)
         /\ \A k \in 1 .. n : q[k] \in Sales
<1>1. \A k \in 1 .. Len(q) : q[k] \in Sales
  BY ElementOfSeq
<1>2. Len(q) \in Nat BY LenProperties
<1>3. \A k \in (n + 1) .. Len(q) : q[k] \in Sales BY <1>1, <1>2
<1> QED BY <1>1, <1>2, <1>3, SubSeqProperties

\* What a task has in hand while it works on it.
LEMMA InHand ==
  ASSUME TypeOK
  PROVE  /\ watcher.todo \in SUBSET Sales
         /\ watcher.pc \in {"confirm", "owner", "log"} => watcher.sale \in Sales
         /\ indexer.todo \in SUBSET Inscriptions
         /\ indexer.pc \in {"row", "upsert", "log"} => indexer.item \in Inscriptions
         /\ indexer.pc \in {"row", "upsert"} =>
              /\ indexer.seen \in Addresses
              /\ indexer.collection \in Collections \cup {None}
         /\ None \notin Addresses /\ None \notin Sales
<1>1. watcher.todo \in SUBSET Sales /\ indexer.todo \in SUBSET Inscriptions
  BY DEF TypeOK, Watcher, Indexer
<1>2. watcher.pc \in {"confirm", "owner", "log"} => watcher.sale \in Sales
  BY DEF TypeOK, Watcher
<1>3. /\ indexer.pc \in {"row", "upsert", "log"} => indexer.item \in Inscriptions
      /\ indexer.pc \in {"row", "upsert"} =>
           /\ indexer.seen \in Addresses
           /\ indexer.collection \in Collections \cup {None}
  BY DEF TypeOK, Indexer
<1>4. None \notin Addresses /\ None \notin Sales BY DEF Addresses
<1> QED BY <1>1, <1>2, <1>3, <1>4

\* Whatever is left of a round, the watcher is typed when it goes on to it.
LEMMA WatcherRoundTyped ==
  ASSUME NEW todo \in SUBSET Sales, WatcherRound(todo)
  PROVE  watcher' \in Watcher
BY DEF WatcherRound, Watcher, WatcherAsleep

\* The steps of the watcher keep the variables typed.
LEMMA WatcherTyped ==
  ASSUME TypeOK, WatcherStep \/ WatcherCallFails
  PROVE  TypeOK'
<1> USE DEF TypeOK, Watcher, WatcherAsleep, WatcherGoes, dbVars, chainVars
<1>1. CASE WatcherTick BY <1>1 DEF WatcherTick
<1>2. CASE GetPendingSales BY <1>2, WatcherRoundTyped DEF GetPendingSales
<1>3. ASSUME NEW s \in Sales, CheckSale(s) PROVE TypeOK'
  BY <1>3 DEF CheckSale, WatcherRound
<1>4. CASE ConfirmSale BY <1>4 DEF ConfirmSale
<1>5. CASE UpdateOwner
  <2>1. watcher.sale \in Sales /\ watcher' \in Watcher BY <1>5 DEF UpdateOwner
  <2>2. owner' \in [Inscriptions -> Addresses \cup {None}]
    BY <1>5, <2>1 DEF UpdateOwner, Addresses
  <2> QED BY <1>5, <2>1, <2>2 DEF UpdateOwner
<1>6. CASE LogSale
  <2>1. watcher' \in Watcher BY <1>6, InHand, WatcherRoundTyped DEF LogSale
  <2>2. logged' \in [Sales -> Nat] BY <1>6, InHand DEF LogSale
  <2> QED BY <1>6, <2>1, <2>2 DEF LogSale
<1>7. CASE WatcherCallFails
  <2>1. CASE watcher.pc = "query" /\ watcher' = WatcherAsleep
    BY <1>7, <2>1 DEF WatcherCallFails
  <2>2. CASE WatcherRound(watcher.todo)
    BY <1>7, <2>2, InHand, WatcherRoundTyped DEF WatcherCallFails
  <2>3. ASSUME NEW s \in watcher.todo, WatcherRound(watcher.todo \ {s}) PROVE TypeOK'
    <3>1. watcher.todo \ {s} \in SUBSET Sales BY InHand
    <3>2. watcher' \in Watcher BY <2>3, <3>1, WatcherRoundTyped
    <3> QED BY <1>7, <3>2 DEF WatcherCallFails
  <2>4. CASE watcher.pc = "owner" /\ WatcherGoes("log")
    BY <1>7, <2>4 DEF WatcherCallFails
  <2> QED BY <1>7, <2>1, <2>2, <2>3, <2>4 DEF WatcherCallFails
<1> QED BY <1>1, <1>2, <1>3, <1>4, <1>5, <1>6, <1>7 DEF WatcherStep

\* Whatever is left of a round, the indexer is typed when it goes on to it.
LEMMA IndexerRoundTyped ==
  ASSUME NEW todo \in SUBSET Inscriptions, IndexerRound(todo)
  PROVE  indexer' \in Indexer
BY DEF IndexerRound, Indexer, IndexerAsleep

\* The steps of the indexer keep the variables typed.
LEMMA IndexerTyped ==
  ASSUME TypeOK, IndexerStep \/ IndexerCallFails \/ PageFails
  PROVE  TypeOK'
<1> USE DEF dbVars, chainVars
<1>0. indexer.todo \subseteq Inscriptions
  BY DEF TypeOK, Indexer
<1>1. CASE IndexerTick
  <2>1. indexer' \in Indexer BY <1>1, IndexerRoundTyped DEF IndexerTick
  <2> QED BY <1>1, <2>1 DEF IndexerTick, TypeOK
<1>2. ASSUME NEW i \in Inscriptions, FetchInscription(i) PROVE TypeOK'
  <2>1. CASE holder[i] = None
    BY <1>0, <1>2, <2>1, IndexerRoundTyped DEF FetchInscription, TypeOK
  <2>2. CASE holder[i] # None
    <3>1. holder[i] \in Addresses BY <2>2 DEF TypeOK
    <3>2. indexer' = [pc |-> "row", todo |-> indexer.todo \ {i}, item |-> i,
                      seen |-> holder[i], new |-> FALSE, collection |-> None,
                      raced |-> FALSE]
      BY <1>2, <2>2 DEF FetchInscription, IndexerAsleep
    <3>3. indexer' \in Indexer BY <1>0, <3>1, <3>2 DEF Indexer
    <3> QED BY <1>2, <3>3 DEF FetchInscription, TypeOK
  <2> QED BY <2>1, <2>2
<1>3. CASE ReadRow
  <2>1. indexer' \in Indexer
    <3>1. CASE owner[indexer.item] = indexer.seen
      BY <1>0, <1>3, <3>1, IndexerRoundTyped DEF ReadRow
    <3>2. CASE owner[indexer.item] # indexer.seen
      <4>1. indexer' = [indexer EXCEPT !.pc = "upsert",
                                       !.new = (owner[indexer.item] = None),
                                       !.collection = collection[indexer.item]]
        BY <1>3, <3>2 DEF ReadRow
      <4>2. indexer \in [pc: {"row"}, todo: SUBSET Inscriptions, item: Inscriptions,
                         seen: Addresses, new: BOOLEAN,
                         collection: Collections \cup {None}, raced: BOOLEAN]
        BY <1>3 DEF ReadRow, TypeOK, Indexer
      <4>3. /\ (owner[indexer.item] = None) \in BOOLEAN
            /\ collection[indexer.item] \in Collections \cup {None}
        BY <4>2 DEF TypeOK
      <4> QED BY <4>1, <4>2, <4>3 DEF Indexer
    <3> QED BY <3>1, <3>2
  <2> QED BY <1>3, <2>1 DEF ReadRow, TypeOK
<1>4. CASE UpsertInscription
  <2>1. indexer' = [pc |-> "log", todo |-> indexer.todo, item |-> indexer.item,
                    seen |-> None, new |-> indexer.new, collection |-> None,
                    raced |-> FALSE]
    BY <1>4 DEF UpsertInscription, IndexerAsleep
  <2>2. indexer.new \in BOOLEAN /\ indexer.item \in Inscriptions
    BY <1>4 DEF UpsertInscription, TypeOK, Indexer
  <2>3. indexer' \in Indexer BY <1>0, <2>1, <2>2 DEF Indexer
  <2>4. /\ owner' \in [Inscriptions -> Addresses \cup {None}]
        /\ collection' \in [Inscriptions -> Collections \cup {None}]
    BY <1>4, InHand DEF UpsertInscription, TypeOK
  <2> QED BY <1>4, <2>3, <2>4 DEF UpsertInscription, TypeOK
<1>5. CASE LogInscription
  <2>1. indexer' \in Indexer BY <1>0, <1>5, IndexerRoundTyped DEF LogInscription
  <2>2. minted' \in [Inscriptions -> Nat]
    BY <1>5, InHand DEF LogInscription, TypeOK
  <2> QED BY <1>5, <2>1, <2>2 DEF LogInscription, TypeOK
<1>6. CASE IndexerCallFails
  <2>1. \A i : indexer.todo \ {i} \subseteq Inscriptions BY <1>0
  <2>2. indexer' \in Indexer
    BY <1>0, <1>6, <2>1, IndexerRoundTyped DEF IndexerCallFails
  <2> QED BY <1>6, <2>2 DEF IndexerCallFails, TypeOK
<1>7. CASE PageFails BY <1>7 DEF PageFails, TypeOK, Indexer, IndexerAsleep
<1> QED BY <1>1, <1>2, <1>3, <1>4, <1>5, <1>6, <1>7 DEF IndexerStep

\* The node, the order handlers and a restart keep the variables typed.
LEMMA NetworkTyped ==
  ASSUME TypeOK, Network \/ Handlers \/ Restart
  PROVE  TypeOK'
<1> USE DEF TypeOK, dbVars, chainVars
<1>1. ASSUME NEW i \in Inscriptions, NEW n \in 0 .. Len(mempool[i]), NewBlock(i, n)
      PROVE  TypeOK'
  <2>1. /\ SubSeq(mempool[i], n + 1, Len(mempool[i])) \in Seq(Sales)
        /\ \A k \in 1 .. n : mempool[i][k] \in Sales
    BY BlockSplitsQueue
  <2>2. mempool' \in [Inscriptions -> Seq(Sales)]
    BY <1>1, <2>1 DEF NewBlock
  <2>3. mined' \subseteq Sales
    BY <1>1, <2>1 DEF NewBlock
  <2>4. n # 0 => n \in 1 .. n
    BY LenProperties
  <2>5. holder' \in [Inscriptions -> Addresses \cup {None}]
    BY <1>1, <2>1, <2>4 DEF NewBlock, Addresses
  <2> QED BY <1>1, <2>2, <2>3, <2>5 DEF NewBlock
<1>2. ASSUME NEW i \in Inscriptions, Mint(i) PROVE TypeOK'
  BY <1>2 DEF Mint, Addresses
<1>3. ASSUME NEW i \in Inscriptions, Spend(i) PROVE TypeOK'
  BY <1>3 DEF Spend, Addresses
<1>4. ASSUME NEW s \in Sales, SendSale(s) PROVE TypeOK'
  <2>1. mempool' \in [Inscriptions -> Seq(Sales)]
    BY <1>4, AppendProperties DEF SendSale
  <2> QED BY <1>4, <2>1 DEF SendSale
<1>7. ASSUME NEW s \in Sales, RecordSale(s) PROVE TypeOK'
  BY <1>7 DEF RecordSale, Addresses
<1>5. CASE Restart
  BY <1>5 DEF Restart, Watcher, WatcherAsleep, Indexer, IndexerAsleep
<1>6. ASSUME NEW c \in Collections, NEW ids \in SUBSET Inscriptions,
             AssignCollection(c, ids)
      PROVE  TypeOK'
  <2>1. collection' \in [Inscriptions -> Collections \cup {None}]
    BY <1>6 DEF AssignCollection
  <2>2. indexer' \in Indexer
    <3>1. CASE indexer' = indexer BY <3>1
    <3>2. CASE indexer.pc = "upsert" /\ indexer' = [indexer EXCEPT !.raced = TRUE]
      <4>1. indexer \in [pc: {"row", "upsert"}, todo: SUBSET Inscriptions,
                         item: Inscriptions, seen: Addresses, new: BOOLEAN,
                         collection: Collections \cup {None}, raced: BOOLEAN]
        BY <3>2 DEF Indexer
      <4> QED BY <3>2, <4>1 DEF Indexer
    <3> QED BY <1>6, <3>1, <3>2 DEF AssignCollection
  <2> QED BY <1>6, <2>1, <2>2 DEF AssignCollection
<1> QED BY <1>1, <1>2, <1>3, <1>4, <1>5, <1>6, <1>7 DEF Network, Handlers

\* Every step keeps the variables typed.
LEMMA StepTyped == TypeOK /\ [Next]_vars => TypeOK'
<1>1. TypeOK /\ Next => TypeOK'
  BY WatcherTyped, IndexerTyped, NetworkTyped DEF Next, Work, Fault
<1>2. TypeOK /\ UNCHANGED vars => TypeOK'
  BY DEF TypeOK, vars, dbVars, chainVars
<1> QED BY <1>1, <1>2

\* Type correctness.
THEOREM TypeCorrect == Spec => []TypeOK
<1>1. Init => TypeOK
  <2> SUFFICES ASSUME Init PROVE TypeOK OBVIOUS
  <2>1. <<>> \in Seq(Sales) BY EmptySeq
  <2> QED BY <2>1 DEF Init, TypeOK, Tasks, Watcher, WatcherAsleep, Indexer,
                      IndexerAsleep
<1> QED BY <1>1, StepTyped, PTL DEF Spec

-----------------------------------------------------------------------------
\* At most one report.

\* A task that goes on to the rest of its round has nothing in hand.
LEMMA RoundInHand ==
  ASSUME NEW todo
  PROVE  /\ IndexerRound(todo) => /\ ~indexer'.new /\ indexer'.todo = todo
                                  /\ indexer'.pc \in {"sleep", "list"}
         /\ WatcherRound(todo) => /\ watcher'.sale = None /\ watcher'.todo = todo
                                  /\ watcher'.pc \in {"sleep", "next"}
<1>1. CASE todo = {}
  BY <1>1 DEF IndexerRound, IndexerAsleep, WatcherRound, WatcherAsleep
<1>2. CASE todo # {}
  <2>1. IndexerRound(todo) => /\ ~indexer'.new /\ indexer'.todo = todo
                              /\ indexer'.pc \in {"sleep", "list"}
    BY <1>2 DEF IndexerRound, IndexerAsleep
  <2>2. WatcherRound(todo) => /\ watcher'.sale = None /\ watcher'.todo = todo
                              /\ watcher'.pc \in {"sleep", "next"}
    BY <1>2 DEF WatcherRound
  <2> QED BY <2>1, <2>2
<1> QED BY <1>1, <1>2

\* The parts of the invariant that a task can disturb.
OfWatcher == SaleLoggedOnce /\ LoggedIsConfirmed /\ WatcherInHand
OfIndexer == MintedOnce /\ IndexerInHand

\* The watcher goes on to (the rest of) a round of pending sales without having
\* touched the table sales or the feed.
LEMMA NextRound ==
  ASSUME TypeOK, OfWatcher, NEW todo \in SUBSET Sales,
         \A s \in todo : sale[s] = "pending",
         WatcherRound(todo), UNCHANGED <<sale, logged>>
  PROVE  OfWatcher'
<1>1. /\ watcher'.sale = None /\ watcher'.todo = todo
      /\ watcher'.pc \in {"sleep", "next"}
  BY RoundInHand
<1> QED BY <1>1 DEF OfWatcher, SaleLoggedOnce, LoggedIsConfirmed, WatcherInHand

\* The steps of the watcher keep its part: a snapshot holds pending sales only,
\* and a pending sale has not been reported.
LEMMA WatcherInvariant ==
  ASSUME TypeOK, OfWatcher, WatcherStep \/ WatcherCallFails
  PROVE  OfWatcher'
<1> DEFINE w == watcher
<1>0. /\ \A s \in Sales : logged[s] \in Nat /\ logged[s] <= 1
      /\ \A s \in Sales : logged[s] > 0 => sale[s] = "confirmed"
      /\ \A s \in w.todo : sale[s] = "pending"
  BY DEF TypeOK, OfWatcher, SaleLoggedOnce, LoggedIsConfirmed, WatcherInHand
<1>1. CASE WatcherTick
  <2>1. /\ watcher'.pc = "query" /\ watcher'.todo = w.todo /\ watcher'.sale = None
    BY <1>1 DEF WatcherTick, WatcherGoes, TypeOK, Watcher
  <2> QED BY <1>1, <2>1 DEF WatcherTick, dbVars, OfWatcher, SaleLoggedOnce,
             LoggedIsConfirmed, WatcherInHand
<1>2. CASE GetPendingSales
  BY <1>2, NextRound DEF GetPendingSales, dbVars
<1>3. ASSUME NEW s \in Sales, CheckSale(s) PROVE OfWatcher'
  <2>1. sale[s] = "pending" /\ logged[s] = 0
    BY <1>0, <1>3 DEF CheckSale
  <2>2. CASE s \in mined \/ InMempool(s)
    BY <1>0, <1>3, <2>1, <2>2
    DEF CheckSale, dbVars, OfWatcher, SaleLoggedOnce, LoggedIsConfirmed, WatcherInHand
  <2>3. CASE ~(s \in mined \/ InMempool(s))
    BY <1>0, <1>3, <2>3, InHand, NextRound DEF CheckSale, dbVars
  <2> QED BY <2>2, <2>3
<1>4. CASE ConfirmSale
  <2>1. /\ watcher'.pc = "owner" /\ watcher'.todo = w.todo /\ watcher'.sale = w.sale
        /\ w.sale \in Sales /\ w.sale \notin w.todo /\ logged[w.sale] = 0
    BY <1>4, InHand
    DEF ConfirmSale, WatcherGoes, TypeOK, Watcher, OfWatcher, WatcherInHand
  <2> QED BY <1>0, <1>4, <2>1, InHand DEF ConfirmSale, TypeOK, OfWatcher,
             SaleLoggedOnce, LoggedIsConfirmed, WatcherInHand
<1>5. CASE UpdateOwner
  <2>1. /\ watcher'.pc = "log" /\ watcher'.todo = w.todo /\ watcher'.sale = w.sale
    BY <1>5 DEF UpdateOwner, WatcherGoes, TypeOK, Watcher
  <2> QED BY <1>5, <2>1 DEF UpdateOwner, OfWatcher, SaleLoggedOnce,
             LoggedIsConfirmed, WatcherInHand
<1>6. CASE LogSale
  <2>1. w.sale \in Sales /\ logged[w.sale] = 0 /\ sale[w.sale] = "confirmed"
    BY <1>6, InHand DEF LogSale, OfWatcher, WatcherInHand, LoggedIsConfirmed
  <2>2. /\ watcher'.sale = None /\ watcher'.todo = w.todo
        /\ watcher'.pc \in {"sleep", "next"}
    BY <1>6, RoundInHand DEF LogSale
  <2> QED BY <1>0, <1>6, <2>1, <2>2 DEF LogSale, TypeOK, OfWatcher, SaleLoggedOnce,
             LoggedIsConfirmed, WatcherInHand
<1>7. CASE WatcherCallFails
  <2>0. UNCHANGED <<sale, logged>> BY <1>7 DEF WatcherCallFails, dbVars
  <2>1. CASE watcher' = WatcherAsleep
    BY <1>0, <2>0, <2>1 DEF WatcherAsleep, OfWatcher, SaleLoggedOnce,
       LoggedIsConfirmed, WatcherInHand
  <2>2. CASE WatcherRound(w.todo)
    BY <1>0, <2>0, <2>2, InHand, NextRound
  <2>3. ASSUME NEW s \in w.todo, WatcherRound(w.todo \ {s}) PROVE OfWatcher'
    BY <1>0, <2>0, <2>3, InHand, NextRound
  <2>4. CASE w.pc = "owner" /\ WatcherGoes("log")
    <3>1. /\ watcher'.pc = "log" /\ watcher'.todo = w.todo /\ watcher'.sale = w.sale
      BY <2>4 DEF WatcherGoes, TypeOK, Watcher
    <3> QED BY <2>0, <2>4, <3>1 DEF OfWatcher, SaleLoggedOnce, LoggedIsConfirmed,
               WatcherInHand
  <2> QED BY <1>7, <2>1, <2>2, <2>3, <2>4 DEF WatcherCallFails
<1> QED BY <1>1, <1>2, <1>3, <1>4, <1>5, <1>6, <1>7 DEF WatcherStep

\* The steps of the indexer keep its part: nobody else inserts a row, so that an
\* inscription that had none when it was read has none when it is inserted.
LEMMA IndexerInvariant ==
  ASSUME TypeOK, OfIndexer, IndexerStep \/ IndexerCallFails \/ PageFails
  PROVE  OfIndexer'
<1> DEFINE i == indexer.item
<1> USE DEF OfIndexer, MintedOnce, IndexerInHand
<1>0. \A todo : IndexerRound(todo) /\ UNCHANGED <<owner, minted>> => OfIndexer'
  BY RoundInHand
<1>1. CASE IndexerTick BY <1>0, <1>1 DEF IndexerTick, dbVars
<1>2. ASSUME NEW j \in Inscriptions, FetchInscription(j) PROVE OfIndexer'
  <2>1. CASE holder[j] = None
    BY <1>0, <1>2, <2>1 DEF FetchInscription, dbVars
  <2>2. CASE holder[j] # None
    <3>1. ~indexer'.new /\ indexer'.pc = "row"
      BY <1>2, <2>2 DEF FetchInscription, IndexerAsleep
    <3> QED BY <1>2, <3>1 DEF FetchInscription, dbVars
  <2> QED BY <2>1, <2>2
<1>3. CASE ReadRow
  <2>1. CASE owner[i] = indexer.seen
    BY <1>0, <1>3, <2>1 DEF ReadRow, dbVars
  <2>2. CASE owner[i] # indexer.seen
    <3>1. /\ indexer'.item = i /\ indexer'.pc = "upsert" /\ i \in Inscriptions
          /\ indexer'.new => owner[i] = None
      BY <1>3, <2>2 DEF ReadRow, TypeOK, Indexer
    <3>2. indexer'.new => minted[i] = 0
      BY <3>1 DEF TypeOK
    <3> QED BY <1>3, <3>1, <3>2 DEF ReadRow, dbVars
  <2> QED BY <2>1, <2>2
<1>4. CASE UpsertInscription
  <2>1. /\ indexer'.item = i /\ indexer'.pc = "log" /\ indexer'.new = indexer.new
        /\ i \in Inscriptions
    BY <1>4, InHand DEF UpsertInscription, IndexerAsleep
  <2>2. owner'[i] # None /\ \A j \in Inscriptions \ {i} : owner'[j] = owner[j]
    BY <1>4, InHand DEF UpsertInscription, TypeOK
  <2> QED BY <1>4, <2>1, <2>2 DEF UpsertInscription
<1>5. CASE LogInscription
  <2>1. ~indexer'.new /\ indexer'.pc \in {"sleep", "list"} /\ i \in Inscriptions
    BY <1>5, InHand, RoundInHand DEF LogInscription
  <2>2. owner[i] # None /\ owner' = owner
    BY <1>5 DEF LogInscription
  <2>3. /\ \A j \in Inscriptions \ {i} : minted'[j] = minted[j]
        /\ minted'[i] \in {minted[i], 1}
    BY <1>5, <2>1 DEF LogInscription, TypeOK
  <2> QED BY <2>1, <2>2, <2>3
<1>6. CASE IndexerCallFails BY <1>0, <1>6 DEF IndexerCallFails, dbVars
<1>7. CASE PageFails BY <1>7 DEF PageFails, IndexerAsleep, dbVars
<1> QED BY <1>1, <1>2, <1>3, <1>4, <1>5, <1>6, <1>7 DEF IndexerStep

\* A part is not disturbed by steps that leave its variables alone, nor by those
\* that add a sale or change the owner of an inscription that has a row.
LEMMA StepInvariant ==
  ASSUME TypeOK, OfWatcher, OfIndexer, SentHasNoRow, Next
  PROVE  OfWatcher' /\ OfIndexer'
<1>1. UNCHANGED <<sale, logged, watcher>> => OfWatcher'
  BY DEF OfWatcher, SaleLoggedOnce, LoggedIsConfirmed, WatcherInHand
<1>2. (\A j \in Inscriptions : owner'[j] = None <=> owner[j] = None)
        /\ UNCHANGED <<minted, indexer>> => OfIndexer'
  BY InHand DEF OfIndexer, MintedOnce, IndexerInHand, TypeOK, Indexer
<1>3. CASE WatcherStep \/ WatcherCallFails
  <2>1. UNCHANGED <<minted, indexer>>
    BY <1>3 DEF WatcherStep, WatcherCallFails, WatcherTick, GetPendingSales, CheckSale,
       ConfirmSale, UpdateOwner, LogSale, dbVars
  <2>2. ASSUME NEW j \in Inscriptions PROVE owner'[j] = None <=> owner[j] = None
    <3>1. CASE UpdateOwner
      BY <3>1, InHand DEF UpdateOwner, TypeOK
    <3>2. CASE ~UpdateOwner
      BY <1>3, <3>2 DEF WatcherStep, WatcherCallFails, WatcherTick, GetPendingSales,
         CheckSale, ConfirmSale, LogSale, dbVars
    <3> QED BY <3>1, <3>2
  <2> QED BY <1>2, <1>3, <2>1, <2>2, WatcherInvariant
<1>4. CASE IndexerStep \/ IndexerCallFails \/ PageFails
  <2>1. UNCHANGED <<sale, logged, watcher>>
    BY <1>4 DEF IndexerStep, IndexerCallFails, PageFails, IndexerTick, FetchInscription,
       ReadRow, UpsertInscription, LogInscription, dbVars
  <2> QED BY <1>1, <1>4, <2>1, IndexerInvariant
<1>5. CASE Network
  <2>1. UNCHANGED <<sale, logged, watcher, owner, minted, indexer>>
    BY <1>5 DEF Network, NewBlock, Mint, Spend, dbVars
  <2> QED BY <1>1, <1>2, <2>1
<1>6. ASSUME NEW s \in Sales, RecordSale(s) PROVE OfWatcher' /\ OfIndexer'
  <2>1. \A j \in Inscriptions : owner'[j] = None <=> owner[j] = None
    BY <1>6 DEF RecordSale, TypeOK
  <2>2. OfIndexer' BY <1>2, <1>6, <2>1 DEF RecordSale
  <2>3. /\ UNCHANGED <<logged, watcher>> /\ sale[s] = "absent" /\ sale'[s] = "pending"
        /\ \A t \in Sales \ {s} : sale'[t] = sale[t]
    BY <1>6 DEF RecordSale, TypeOK, SentHasNoRow
  <2>4. OfWatcher'
    BY <2>3, InHand DEF OfWatcher, SaleLoggedOnce, LoggedIsConfirmed, WatcherInHand,
       TypeOK, Watcher
  <2> QED BY <2>2, <2>4
<1>7. ASSUME NEW c \in Collections, NEW ids \in SUBSET Inscriptions,
             AssignCollection(c, ids)
      PROVE  OfWatcher' /\ OfIndexer'
  <2>1. UNCHANGED <<sale, logged, watcher, owner, minted>>
    BY <1>7 DEF AssignCollection
  <2>2. /\ indexer'.pc = indexer.pc /\ indexer'.item = indexer.item
        /\ indexer'.new = indexer.new
    BY <1>7 DEF AssignCollection, TypeOK, Indexer
  <2>3. OfIndexer'
    BY <2>1, <2>2 DEF OfIndexer, MintedOnce, IndexerInHand
  <2> QED BY <1>1, <2>1, <2>3
<1>8. CASE Restart
  <2>1. UNCHANGED <<sale, logged, owner, minted>>
    BY <1>8 DEF Restart, dbVars
  <2>2. OfWatcher'
    BY <1>8, <2>1 DEF Restart, WatcherAsleep, OfWatcher, SaleLoggedOnce,
       LoggedIsConfirmed, WatcherInHand
  <2>3. OfIndexer'
    BY <1>8, <2>1 DEF Restart, IndexerAsleep, OfIndexer, MintedOnce, IndexerInHand
  <2> QED BY <2>2, <2>3
<1>9. ASSUME NEW s \in Sales, SendSale(s) PROVE OfWatcher' /\ OfIndexer'
  BY <1>1, <1>2, <1>9 DEF SendSale, dbVars
<1> QED BY <1>3, <1>4, <1>5, <1>6, <1>7, <1>8, <1>9 DEF Next, Work, Fault, Handlers

\* A sale whose commit is under way gets no row from anybody else.
LEMMA StepSent ==
  ASSUME TypeOK, WatcherInHand, SentHasNoRow, [Next]_vars
  PROVE  SentHasNoRow'
<1> USE DEF SentHasNoRow
<1>1. ASSUME NEW s \in Sales, SendSale(s) PROVE SentHasNoRow'
  BY <1>1 DEF SendSale, dbVars
<1>2. ASSUME NEW s \in Sales, RecordSale(s) PROVE SentHasNoRow'
  BY <1>2 DEF RecordSale, TypeOK
<1>3. CASE ConfirmSale
  <2>1. PICK s \in Sales : s = watcher.sale /\ sale[s] = "pending"
    BY <1>3, InHand DEF ConfirmSale, WatcherInHand
  <2>2. s \notin sent BY <2>1
  <2> QED BY <1>3, <2>1, <2>2 DEF ConfirmSale, TypeOK
<1>4. CASE Restart BY <1>4 DEF Restart
<1>5. CASE UNCHANGED <<sale, sent>> BY <1>5
<1>6. \/ ConfirmSale \/ Restart \/ UNCHANGED <<sale, sent>>
      \/ \E s \in Sales : SendSale(s) \/ RecordSale(s)
  BY DEF Next, Work, Fault, Handlers, WatcherStep, WatcherCallFails, WatcherTick,
     GetPendingSales, CheckSale, UpdateOwner, LogSale, IndexerStep, IndexerTick,
     FetchInscription, ReadRow, UpsertInscription, LogInscription, IndexerCallFails,
     PageFails, Network, NewBlock, Mint, Spend, AssignCollection, dbVars, vars
<1> QED BY <1>1, <1>2, <1>3, <1>4, <1>5, <1>6

\* The strengthened invariant of the two tasks.
THEOREM Inductive == Spec => []IndInv
<1>1. Init => IndInv
  BY DEF Init, WatcherAsleep, IndexerAsleep, IndInv, SaleLoggedOnce, LoggedIsConfirmed,
     WatcherInHand, MintedOnce, IndexerInHand, SentHasNoRow
<1>2. TypeOK /\ IndInv /\ [Next]_vars => IndInv'
  <2>0. IndInv <=> OfWatcher /\ OfIndexer /\ SentHasNoRow
    BY DEF IndInv, OfWatcher, OfIndexer
  <2>1. TypeOK /\ IndInv /\ Next => OfWatcher' /\ OfIndexer'
    BY <2>0, StepInvariant
  <2>2. IndInv /\ UNCHANGED vars => OfWatcher' /\ OfIndexer'
    BY <2>0 DEF vars, dbVars, OfWatcher, OfIndexer, SaleLoggedOnce, LoggedIsConfirmed,
       WatcherInHand, MintedOnce, IndexerInHand
  <2>3. TypeOK /\ IndInv /\ [Next]_vars => SentHasNoRow'
    BY StepSent DEF IndInv
  <2>4. OfWatcher' /\ OfIndexer' /\ SentHasNoRow' => IndInv'
    BY DEF IndInv, OfWatcher, OfIndexer
  <2> QED BY <2>1, <2>2, <2>3, <2>4
<1> QED BY <1>1, <1>2, TypeCorrect, PTL DEF Spec

\* The watcher reports no sale twice, whatever fails and restarts.
THEOREM ReportsSaleOnce == Spec => []SaleLoggedOnce
<1>1. IndInv => SaleLoggedOnce BY DEF IndInv
<1> QED BY <1>1, Inductive, PTL

\* What the watcher has reported is confirmed on record.
THEOREM ReportsConfirmed == Spec => []LoggedIsConfirmed
<1>1. IndInv => LoggedIsConfirmed BY DEF IndInv
<1> QED BY <1>1, Inductive, PTL

\* The indexer reports no mint twice.
THEOREM ReportsMintOnce == Spec => []MintedOnce
<1>1. IndInv => MintedOnce BY DEF IndInv
<1> QED BY <1>1, Inductive, PTL

-----------------------------------------------------------------------------
\* Collections.

\* What the indexer is about to write back is what the row holds, unless an
\* assignment has come between; and only rows are in a collection.
CollectionInHand ==
  /\ \A i \in Inscriptions : owner[i] = None => collection[i] = None
  /\ indexer.pc = "upsert" /\ ~indexer.raced =>
       indexer.collection = collection[indexer.item]

\* Every step keeps it.
LEMMA StepCollection ==
  ASSUME TypeOK, CollectionInHand, [Next]_vars
  PROVE  CollectionInHand'
<1> USE DEF CollectionInHand
<1>0. (\A j \in Inscriptions : owner'[j] = None => owner[j] = None)
        /\ UNCHANGED collection
        /\ (indexer' = indexer \/ indexer'.pc # "upsert") => CollectionInHand'
  OBVIOUS
<1>a. \A todo : IndexerRound(todo) => indexer'.pc # "upsert" BY RoundInHand
<1>1. CASE WatcherStep \/ WatcherCallFails
  <2>1. UNCHANGED <<collection, indexer>>
    BY <1>1 DEF WatcherStep, WatcherCallFails, WatcherTick, GetPendingSales, CheckSale,
       ConfirmSale, UpdateOwner, LogSale, dbVars
  <2>2. ASSUME NEW j \in Inscriptions PROVE owner'[j] = None => owner[j] = None
    <3>1. CASE UpdateOwner
      BY <3>1, InHand DEF UpdateOwner, TypeOK
    <3>2. CASE ~UpdateOwner
      BY <1>1, <3>2 DEF WatcherStep, WatcherCallFails, WatcherTick, GetPendingSales,
         CheckSale, ConfirmSale, LogSale, dbVars
    <3> QED BY <3>1, <3>2
  <2> QED BY <1>0, <2>1, <2>2
<1>2. CASE IndexerTick BY <1>0, <1>a, <1>2 DEF IndexerTick, dbVars
<1>3. ASSUME NEW i \in Inscriptions, FetchInscription(i) PROVE CollectionInHand'
  BY <1>0, <1>a, <1>3 DEF FetchInscription, IndexerAsleep, dbVars
<1>4. CASE ReadRow
  <2>1. CASE owner[indexer.item] = indexer.seen
    BY <1>0, <1>a, <1>4, <2>1 DEF ReadRow, dbVars
  <2>2. CASE owner[indexer.item] # indexer.seen
    <3>1. /\ indexer'.collection = collection[indexer.item]
          /\ indexer'.item = indexer.item
      BY <1>4, <2>2 DEF ReadRow, TypeOK, Indexer
    <3> QED BY <1>4, <3>1 DEF ReadRow, dbVars
  <2> QED BY <2>1, <2>2
<1>5. CASE UpsertInscription
  <2>1. indexer'.pc = "log" BY <1>5 DEF UpsertInscription, IndexerAsleep
  <2>2. owner'[indexer.item] # None
    BY <1>5, InHand DEF UpsertInscription, TypeOK
  <2>3. \A j \in Inscriptions \ {indexer.item} :
          owner'[j] = owner[j] /\ collection'[j] = collection[j]
    BY <1>5 DEF UpsertInscription, TypeOK
  <2> QED BY <2>1, <2>2, <2>3
<1>6. CASE LogInscription BY <1>0, <1>a, <1>6 DEF LogInscription
<1>7. CASE IndexerCallFails BY <1>0, <1>a, <1>7 DEF IndexerCallFails, dbVars
<1>8. CASE PageFails BY <1>0, <1>8 DEF PageFails, IndexerAsleep, dbVars
<1>9. CASE Network BY <1>0, <1>9 DEF Network, NewBlock, Mint, Spend, dbVars
<1>10. ASSUME NEW s \in Sales, RecordSale(s) PROVE CollectionInHand'
  <2>1. \A j \in Inscriptions : owner'[j] = None => owner[j] = None
    BY <1>10 DEF RecordSale, TypeOK
  <2> QED BY <1>0, <1>10, <2>1 DEF RecordSale
<1>11. ASSUME NEW c \in Collections, NEW ids \in SUBSET Inscriptions,
              AssignCollection(c, ids)
       PROVE  CollectionInHand'
  <2>1. \A j \in Inscriptions : owner[j] = None => collection'[j] = None
    BY <1>11 DEF AssignCollection
  <2>2. ASSUME indexer'.pc = "upsert", ~indexer'.raced
        PROVE  indexer'.collection = collection'[indexer'.item]
    <3>1. indexer' = indexer
      BY <1>11, <2>2 DEF AssignCollection, TypeOK, Indexer
    <3>2. indexer.item \in Inscriptions BY <2>2, <3>1, InHand
    <3>3. collection'[indexer.item] = collection[indexer.item]
      BY <1>11, <2>2, <3>1, <3>2 DEF AssignCollection, TypeOK, Indexer
    <3> QED BY <2>2, <3>1, <3>3
  <2> QED BY <1>11, <2>1, <2>2 DEF AssignCollection
<1>12. CASE Restart BY <1>0, <1>12 DEF Restart, IndexerAsleep, dbVars
<1>13. CASE UNCHANGED vars BY <1>13 DEF vars, dbVars, chainVars
<1>14. ASSUME NEW s \in Sales, SendSale(s) PROVE CollectionInHand'
  BY <1>0, <1>14 DEF SendSale, dbVars
<1> QED BY <1>1, <1>2, <1>3, <1>4, <1>5, <1>6, <1>7, <1>8, <1>9, <1>10, <1>11, <1>12,
           <1>13, <1>14 DEF Next, Work, Fault, Handlers, IndexerStep

\* An inscription keeps its collection, but for an upsert that undoes an
\* assignment made since the row was read.
THEOREM CollectionKept == Spec => AssignmentLostInARaceOnly
<1> DEFINE Kept == \A i \in Inscriptions :
       collection[i] # None =>
         \/ collection'[i] # None
         \/ indexer.pc = "upsert" /\ indexer.item = i /\ indexer.raced
<1>1. Init => CollectionInHand
  BY DEF Init, IndexerAsleep, CollectionInHand
<1>2. TypeOK /\ CollectionInHand /\ [Next]_vars => [Kept]_vars
  <2> SUFFICES ASSUME TypeOK, CollectionInHand, Next, NEW i \in Inscriptions,
                      collection[i] # None
               PROVE  \/ collection'[i] # None
                      \/ indexer.pc = "upsert" /\ indexer.item = i /\ indexer.raced
    OBVIOUS
  <2>1. CASE UpsertInscription
    <3>1. CASE indexer.item = i
      BY <2>1, <3>1 DEF UpsertInscription, CollectionInHand, TypeOK
    <3>2. CASE indexer.item # i
      BY <2>1, <3>2 DEF UpsertInscription, TypeOK
    <3> QED BY <3>1, <3>2
  <2>2. ASSUME NEW c \in Collections, NEW ids \in SUBSET Inscriptions,
               AssignCollection(c, ids)
        PROVE  collection'[i] # None
    BY <2>2 DEF AssignCollection
  <2>3. CASE UNCHANGED collection BY <2>3
  <2>4. UpsertInscription \/ UNCHANGED collection
          \/ \E c \in Collections, ids \in SUBSET Inscriptions :
               AssignCollection(c, ids)
    BY DEF Next, Work, Fault, Handlers, WatcherStep, WatcherCallFails, WatcherTick,
       GetPendingSales, CheckSale, ConfirmSale, UpdateOwner, LogSale, IndexerStep,
       IndexerTick, FetchInscription, ReadRow, LogInscription, IndexerCallFails,
       PageFails, Network, NewBlock, Mint, Spend, SendSale, RecordSale, Restart, dbVars
  <2> QED BY <2>1, <2>2, <2>3, <2>4
<1>3. TypeOK /\ CollectionInHand /\ [Next]_vars => CollectionInHand'
  BY StepCollection
<1> QED BY <1>1, <1>2, <1>3, TypeCorrect, PTL DEF Spec, AssignmentLostInARaceOnly

-----------------------------------------------------------------------------
\* The refinement of ActivityLog.

\* What the tasks, the handlers and the network do to the log.
LEMMA StepLog ==
  ASSUME TypeOK, IndInv, [Next]_vars
  PROVE  [Log!Next]_<<{s \in Sales : sale[s] # "absent"},
                      {s \in Sales : sale[s] = "confirmed"},
                      {i \in Inscriptions : owner[i] # None}, logged, minted>>
<1> DEFINE recorded == {s \in Sales : sale[s] # "absent"}
           confirmed == {s \in Sales : sale[s] = "confirmed"}
           known == {i \in Inscriptions : owner[i] # None}
           log == <<recorded, confirmed, known, logged, minted>>
<1> SUFFICES [Log!Next]_log OBVIOUS
<1>1. ASSUME UNCHANGED <<sale, logged, minted>>,
             \A i \in Inscriptions : owner'[i] = None <=> owner[i] = None
      PROVE  UNCHANGED log
  BY <1>1
<1>a. \A s \in Sales : Log!Record(s) \/ Log!Confirm(s) \/ Log!Report(s) => Log!Next
  BY DEF Log!Next
<1>b. \A i \in Inscriptions : Log!Discover(i) \/ Log!ReportMint(i) => Log!Next
  BY DEF Log!Next
<1>2. CASE ConfirmSale
  <2>1. PICK s \in Sales : s = watcher.sale /\ sale[s] = "pending"
    BY <1>2, InHand DEF ConfirmSale, IndInv, WatcherInHand
  <2>2. /\ sale' = [sale EXCEPT ![s] = "confirmed"]
        /\ UNCHANGED <<owner, logged, minted>>
    BY <1>2, <2>1 DEF ConfirmSale
  <2>3. /\ s \in recorded \ confirmed /\ recorded' = recorded
        /\ confirmed' = confirmed \cup {s} /\ known' = known
    BY <2>1, <2>2 DEF TypeOK
  <2>4. Log!Confirm(s) BY <2>2, <2>3 DEF Log!Confirm
  <2>5. Log!Next BY <1>a, <2>1, <2>4, Zenon
  <2> QED BY <2>5
<1>3. CASE LogSale
  <2>1. PICK s \in Sales : s = watcher.sale /\ logged[s] = 0 /\ sale[s] = "confirmed"
    BY <1>3, InHand DEF LogSale, IndInv, WatcherInHand, LoggedIsConfirmed
  <2>2. /\ logged' = [logged EXCEPT ![s] = 1] /\ UNCHANGED <<sale, owner, minted>>
    BY <1>3, <2>1 DEF LogSale
  <2>3. s \in confirmed /\ UNCHANGED <<recorded, confirmed, known>> BY <2>1, <2>2
  <2>4. Log!Report(s) BY <2>1, <2>2, <2>3 DEF Log!Report
  <2>5. Log!Next BY <1>a, <2>1, <2>4, Zenon
  <2> QED BY <2>5
<1>4. CASE UpsertInscription
  <2>1. PICK i \in Inscriptions : i = indexer.item /\ indexer.seen # None
    BY <1>4, InHand DEF UpsertInscription
  <2>2. /\ owner' = [owner EXCEPT ![i] = indexer.seen] /\ UNCHANGED <<sale, logged, minted>>
    BY <1>4, <2>1 DEF UpsertInscription
  <2>3. /\ owner'[i] # None
        /\ \A j \in Inscriptions \ {i} : owner'[j] = owner[j]
    BY <2>1, <2>2 DEF TypeOK
  <2>4. CASE owner[i] # None BY <1>1, <2>2, <2>3, <2>4
  <2>5. CASE owner[i] = None
    <3>1. i \notin known /\ known' = known \cup {i} BY <2>1, <2>3, <2>5
    <3>2. UNCHANGED <<recorded, confirmed>> BY <2>2
    <3>3. Log!Discover(i) BY <2>2, <3>1, <3>2 DEF Log!Discover
    <3>4. Log!Next BY <1>b, <2>1, <3>3, Zenon
    <3> QED BY <3>4
  <2> QED BY <2>4, <2>5
<1>5. CASE LogInscription
  <2>1. PICK i \in Inscriptions :
          i = indexer.item /\ owner[i] # None /\ (indexer.new => minted[i] = 0)
    BY <1>5, InHand DEF LogInscription, IndInv, IndexerInHand
  <2>2. UNCHANGED <<sale, owner, logged>> BY <1>5 DEF LogInscription
  <2>3. CASE indexer.new
    <3>0. minted' = [minted EXCEPT ![i] = minted[i] + 1]
      BY <1>5, <2>1, <2>3, Zenon DEF LogInscription
    <3>2. i \in known /\ UNCHANGED <<recorded, confirmed, known>> BY <2>1, <2>2
    <3>3. minted[i] = 0 BY <2>1, <2>3
    <3>1. minted' = [minted EXCEPT ![i] = 1] BY <3>0, <3>3
    <3>4. Log!ReportMint(i) BY <2>2, <3>1, <3>2, <3>3 DEF Log!ReportMint
    <3> QED BY <1>b, <2>1, <3>4
  <2>4. CASE ~indexer.new
    <3>1. minted' = minted BY <1>5, <2>4 DEF LogInscription
    <3> QED BY <1>1, <2>2, <3>1
  <2> QED BY <2>3, <2>4
<1>6. ASSUME NEW s \in Sales, RecordSale(s) PROVE Log!Next
  <2>1. /\ sale[s] = "absent" /\ sale' = [sale EXCEPT ![s] = "pending"]
        /\ UNCHANGED <<logged, minted>>
    BY <1>6 DEF RecordSale, IndInv, SentHasNoRow
  <2>2. \A i \in Inscriptions : owner'[i] = None <=> owner[i] = None
    BY <1>6 DEF RecordSale, TypeOK
  <2>3. /\ s \notin recorded /\ recorded' = recorded \cup {s}
        /\ confirmed' = confirmed /\ known' = known
    BY <2>1, <2>2 DEF TypeOK
  <2>4. Log!Record(s) BY <2>1, <2>3 DEF Log!Record
  <2> QED BY <1>a, <2>4
<1>7. CASE UpdateOwner
  <2>1. \A i \in Inscriptions : owner'[i] = None <=> owner[i] = None
    BY <1>7, InHand DEF UpdateOwner, TypeOK
  <2> QED BY <1>1, <1>7, <2>1 DEF UpdateOwner
<1>8. CASE UNCHANGED <<sale, owner, logged, minted>> BY <1>1, <1>8
<1>9. \/ ConfirmSale \/ LogSale \/ UpsertInscription \/ LogInscription \/ UpdateOwner
      \/ \E s \in Sales : RecordSale(s)
      \/ UNCHANGED <<sale, owner, logged, minted>>
  BY DEF Next, Work, Fault, Handlers, WatcherStep, WatcherCallFails, WatcherTick,
     GetPendingSales, CheckSale, IndexerStep, IndexerTick, FetchInscription, ReadRow,
     IndexerCallFails, PageFails, Network, NewBlock, Mint, Spend, SendSale,
     AssignCollection, Restart, dbVars, chainVars, vars
<1> HIDE DEF log
<1> QED BY <1>2, <1>3, <1>4, <1>5, <1>6, <1>7, <1>8, <1>1, <1>9

\* The tasks implement the abstract log, through every interleaving, failure and
\* restart: confirmed before reported, known before minted, nothing twice.
THEOREM LogRefined == Spec => ImplementsActivityLog
<1>1. Init => Log!Init
  BY DEF Init, Log!Init
<1>2. TypeOK /\ IndInv /\ [Next]_vars => [Log!Next]_Log!logVars
  BY StepLog DEF Log!logVars
<1> QED BY <1>1, <1>2, TypeCorrect, Inductive, PTL
        DEF Spec, ImplementsActivityLog, Log!Spec

-----------------------------------------------------------------------------
\* What keeps the tables from the chain.

\* A block gives an inscription to somebody, and wakes both tasks.
LEMMA BlockHolder ==
  ASSUME TypeOK, Network
  PROVE  /\ UNCHANGED <<sale, owner, watcher, indexer>> /\ behind' = Tasks
         /\ \A i \in Inscriptions : holder[i] # None => holder'[i] # None
<1>1. ASSUME NEW i \in Inscriptions, NEW n \in 0 .. Len(mempool[i]), NewBlock(i, n)
      PROVE  \A j \in Inscriptions : holder[j] # None => holder'[j] # None
  <2>1. CASE n = 0 BY <1>1, <2>1 DEF NewBlock
  <2>2. CASE n # 0
    <3>1. mempool[i] \in Seq(Sales) /\ Len(mempool[i]) \in Nat BY LenProperties DEF TypeOK
    <3>2. mempool[i][n] \in Sales BY <2>2, <3>1, ElementOfSeq
    <3>3. holder' = [holder EXCEPT ![i] = mempool[i][n]] BY <1>1, <2>2 DEF NewBlock
    <3> QED BY <3>2, <3>3 DEF TypeOK
  <2> QED BY <2>1, <2>2
<1>2. ASSUME NEW i \in Inscriptions, Mint(i) \/ Spend(i)
      PROVE  \A j \in Inscriptions : holder[j] # None => holder'[j] # None
  BY <1>2 DEF Mint, Spend, TypeOK
<1>3. UNCHANGED <<sale, owner, watcher, indexer>> /\ behind' = Tasks
  BY DEF Network, NewBlock, Mint, Spend, dbVars
<1> QED BY <1>1, <1>2, <1>3 DEF Network

\* A step of the watcher leaves the indexer alone, and whether it is behind.
LEMMA WatcherAside ==
  ASSUME TypeOK, WatcherStep \/ WatcherCallFails
  PROVE  /\ UNCHANGED <<chainVars, indexer>>
         /\ "indexer" \in behind => "indexer" \in behind'
         /\ UpdateOwner \/ owner' = owner
BY DEF WatcherStep, WatcherCallFails, WatcherTick, GetPendingSales, CheckSale, ConfirmSale,
   UpdateOwner, LogSale, dbVars

\* A step of the indexer leaves the watcher alone, and whether it is behind.
LEMMA IndexerAside ==
  ASSUME IndexerStep \/ IndexerCallFails \/ PageFails
  PROVE  /\ UNCHANGED <<chainVars, watcher, sale>>
         /\ "watcher" \in behind => "watcher" \in behind'
BY DEF IndexerStep, IndexerCallFails, PageFails, IndexerTick, FetchInscription, ReadRow,
   UpsertInscription, LogInscription, dbVars

\* An assignment leaves the indexer where it is.
LEMMA AssignmentAside ==
  ASSUME TypeOK, NEW c, NEW ids, AssignCollection(c, ids)
  PROVE  /\ UNCHANGED <<sale, owner, chainVars, behind, watcher>>
         /\ indexer'.pc = indexer.pc /\ indexer'.item = indexer.item
         /\ indexer'.seen = indexer.seen /\ indexer'.todo = indexer.todo
BY DEF AssignCollection, TypeOK, Indexer

\* A row that has to be written is read without losing what is in hand.
LEMMA RowRead ==
  ASSUME TypeOK, ReadRow, owner[indexer.item] # indexer.seen
  PROVE  /\ indexer'.pc = "upsert" /\ indexer'.todo = indexer.todo
         /\ indexer'.item = indexer.item /\ indexer'.seen = indexer.seen
<1> DEFINE Read(n, c) ==
             indexer' = [indexer EXCEPT !.pc = "upsert", !.new = n, !.collection = c]
<1>1. ASSUME NEW n, NEW c, Read(n, c)
      PROVE  /\ indexer'.pc = "upsert" /\ indexer'.todo = indexer.todo
             /\ indexer'.item = indexer.item /\ indexer'.seen = indexer.seen
  BY <1>1 DEF TypeOK, Indexer
<1>2. Read(owner[indexer.item] = None, collection[indexer.item])
  BY Zenon DEF ReadRow
<1> HIDE DEF Read
<1> QED BY <1>1, <1>2, Zenon

\* No inscription has a row before it is minted, and the indexer has seen the
\* holder of the one in hand, unless a block came.
LEMMA StepSeen ==
  ASSUME TypeOK, UnmintedHasNoRow, SeenIsHolder, [Next]_vars
  PROVE  (UnmintedHasNoRow /\ SeenIsHolder)'
<1> USE DEF UnmintedHasNoRow, SeenIsHolder
<1>1. CASE Network
  <2>1. /\ UNCHANGED <<owner, indexer>> /\ behind' = Tasks
        /\ \A i \in Inscriptions : holder[i] # None => holder'[i] # None
    BY <1>1, BlockHolder
  <2> QED BY <2>1, InHand DEF Tasks
<1>2. CASE WatcherStep \/ WatcherCallFails
  <2>1. /\ UNCHANGED <<holder, indexer>>
        /\ "indexer" \in behind => "indexer" \in behind'
    BY <1>2, WatcherAside DEF chainVars
  <2>2. \A i \in Inscriptions : owner[i] = None => owner'[i] = None
    BY <1>2, WatcherAside DEF UpdateOwner, TypeOK
  <2> QED BY <2>1, <2>2
<1>3. ASSUME NEW s \in Sales, RecordSale(s) PROVE (UnmintedHasNoRow /\ SeenIsHolder)'
  BY <1>3 DEF RecordSale, chainVars, TypeOK
<1>4. ASSUME NEW c, NEW ids, AssignCollection(c, ids)
      PROVE  (UnmintedHasNoRow /\ SeenIsHolder)'
  BY <1>4, AssignmentAside DEF chainVars
<1>5. CASE Restart BY <1>5 DEF Restart, IndexerAsleep, dbVars, chainVars
<1>6. CASE UpsertInscription
  <2>1. /\ indexer'.pc = "log" /\ UNCHANGED holder
        /\ \A i \in Inscriptions : owner'[i] = owner[i] \/ i = indexer.item
    BY <1>6 DEF UpsertInscription, IndexerAsleep, chainVars, TypeOK
  <2> QED BY <1>6, <2>1 DEF UpsertInscription
<1>7. ASSUME NEW i \in Inscriptions, FetchInscription(i)
      PROVE  (UnmintedHasNoRow /\ SeenIsHolder)'
  <2>1. UNCHANGED <<owner, holder>> BY <1>7 DEF FetchInscription, dbVars, chainVars
  <2>2. CASE holder[i] = None
    <3>1. indexer'.pc \in {"sleep", "list"}
      BY <1>7, <2>2, RoundInHand DEF FetchInscription
    <3> QED BY <2>1, <3>1
  <2>3. CASE holder[i] # None
    <3>1. indexer'.pc = "row" /\ indexer'.item = i /\ indexer'.seen = holder[i]
      BY <1>7, <2>3 DEF FetchInscription, IndexerAsleep
    <3> QED BY <2>1, <2>3, <3>1
  <2> QED BY <2>2, <2>3
<1>8. CASE ReadRow
  <2>1. UNCHANGED <<owner, holder, behind>> BY <1>8 DEF ReadRow, dbVars, chainVars
  <2>2. CASE owner[indexer.item] = indexer.seen
    <3>1. indexer'.pc \in {"sleep", "list"} BY <1>8, <2>2, RoundInHand DEF ReadRow
    <3> QED BY <2>1, <3>1
  <2>3. CASE owner[indexer.item] # indexer.seen
    <3>1. indexer'.item = indexer.item /\ indexer'.seen = indexer.seen
      BY <1>8, <2>3, RowRead
    <3>2. indexer.pc = "row" BY <1>8 DEF ReadRow
    <3> QED BY <2>1, <3>1, <3>2
  <2> QED BY <2>2, <2>3
<1>9. CASE IndexerTick \/ LogInscription \/ IndexerCallFails \/ PageFails
  <2>1. indexer'.pc \in {"sleep", "list"}
    <3>1. CASE IndexerTick BY <3>1, RoundInHand DEF IndexerTick
    <3>2. CASE LogInscription BY <3>2, RoundInHand DEF LogInscription
    <3>3. CASE IndexerCallFails BY <3>3, RoundInHand DEF IndexerCallFails
    <3>4. CASE PageFails BY <3>4 DEF PageFails, IndexerAsleep
    <3> QED BY <1>9, <3>1, <3>2, <3>3, <3>4
  <2>2. UNCHANGED <<owner, holder>>
    BY <1>9 DEF IndexerTick, LogInscription, IndexerCallFails, PageFails, dbVars, chainVars
  <2> QED BY <2>1, <2>2
<1>10. CASE UNCHANGED vars BY <1>10 DEF vars, dbVars, chainVars
<1>11. ASSUME NEW s \in Sales, SendSale(s) PROVE (UnmintedHasNoRow /\ SeenIsHolder)'
  BY <1>11 DEF SendSale, dbVars
<1> QED BY <1>1, <1>2, <1>3, <1>4, <1>5, <1>6, <1>7, <1>8, <1>9, <1>10, <1>11
        DEF Next, Work, Fault, Handlers, IndexerStep

\* The owner on record is of an inscription that exists, and the indexer goes by
\* what the chain says unless a block has come since.
THEOREM GroundedInductive == Spec => []Grounded
<1>1. Init => Grounded
  BY DEF Init, Grounded, UnmintedHasNoRow, SeenIsHolder, IndexerAsleep
<1>2. TypeOK /\ Grounded /\ [Next]_vars => Grounded'
  BY StepSeen DEF Grounded
<1> QED BY <1>1, <1>2, TypeCorrect, PTL DEF Spec

\* The watcher loses sight of a mined sale by a failing call only, and never sees
\* one whose commit comes after its block.
LEMMA StepSaleInSight ==
  ASSUME TypeOK, NEW s \in Sales, SaleInSight(s), [Next]_vars,
         ~WatcherCallFails, ~(RecordSale(s) /\ s \in mined)
  PROVE  SaleInSight(s)'
<1> USE DEF SaleInSight
<1>0. ASSUME UNCHANGED <<sale, mined, watcher>>, "watcher" \in behind => "watcher" \in behind'
      PROVE  SaleInSight(s)'
  BY <1>0
<1>1. CASE Network \/ Restart
  <2>1. "watcher" \in behind'
    BY <1>1, BlockHolder DEF Restart, Tasks
  <2> QED BY <2>1
<1>2. ASSUME NEW t \in Sales, RecordSale(t) PROVE SaleInSight(s)'
  <2>1. s = t => s \notin mined BY <1>2
  <2>2. UNCHANGED <<mined, watcher, behind>> /\ (s # t => sale'[s] = sale[s])
    BY <1>2 DEF RecordSale, chainVars, TypeOK
  <2> QED BY <2>1, <2>2
<1>3. ASSUME NEW c, NEW ids, AssignCollection(c, ids) PROVE SaleInSight(s)'
  BY <1>0, <1>3, AssignmentAside DEF chainVars
<1>4. CASE IndexerStep \/ IndexerCallFails \/ PageFails
  BY <1>0, <1>4, IndexerAside DEF chainVars
<1>5. CASE WatcherTick
  <2>1. watcher'.pc = "query"
    BY <1>5 DEF WatcherTick, WatcherGoes, TypeOK, Watcher
  <2> QED BY <2>1
<1>6. CASE GetPendingSales
  <2>1. watcher'.todo = {t \in Sales : sale[t] = "pending"} /\ sale' = sale
    BY <1>6, RoundInHand DEF GetPendingSales, dbVars
  <2> QED BY <2>1
<1>7. ASSUME NEW t \in Sales, CheckSale(t) PROVE SaleInSight(s)'
  <2>1. UNCHANGED <<sale, mined, behind>> /\ watcher.pc = "next"
    BY <1>7 DEF CheckSale, dbVars, chainVars
  <2>2. CASE t \in mined \/ InMempool(t)
    <3>1. watcher' = [pc |-> "confirm", sale |-> t, todo |-> watcher.todo \ {t}]
      BY <1>7, <2>2 DEF CheckSale
    <3> QED BY <2>1, <3>1
  <2>3. CASE ~(t \in mined \/ InMempool(t))
    <3>1. watcher'.todo = watcher.todo \ {t} /\ t \notin mined
      BY <1>7, <2>3, RoundInHand DEF CheckSale
    <3> QED BY <2>1, <3>1
  <2> QED BY <2>2, <2>3
<1>8. CASE ConfirmSale
  <2>1. PICK t \in Sales : t = watcher.sale BY <1>8, InHand DEF ConfirmSale
  <2>2. sale' = [sale EXCEPT ![t] = "confirmed"] /\ UNCHANGED <<mined, behind>>
    BY <1>8, <2>1 DEF ConfirmSale, chainVars
  <2>3. watcher.pc = "confirm" /\ watcher'.todo = watcher.todo
    BY <1>8 DEF ConfirmSale, WatcherGoes, TypeOK, Watcher
  <2> QED BY <2>1, <2>2, <2>3 DEF TypeOK
<1>9. CASE UpdateOwner
  <2>1. watcher.pc = "owner" /\ watcher'.todo = watcher.todo
    BY <1>9 DEF UpdateOwner, WatcherGoes, TypeOK, Watcher
  <2>2. UNCHANGED <<sale, mined, behind>> BY <1>9 DEF UpdateOwner, chainVars
  <2> QED BY <2>1, <2>2
<1>10. CASE LogSale
  <2>1. watcher.pc = "log" /\ watcher'.todo = watcher.todo /\ UNCHANGED <<sale, mined, behind>>
    BY <1>10, RoundInHand DEF LogSale, chainVars
  <2> QED BY <2>1
<1>11. CASE UNCHANGED vars BY <1>0, <1>11 DEF vars, dbVars, chainVars
<1>12. ASSUME NEW t \in Sales, SendSale(t) PROVE SaleInSight(s)'
  BY <1>0, <1>12 DEF SendSale, dbVars
<1> QED BY <1>1, <1>2, <1>3, <1>4, <1>5, <1>6, <1>7, <1>8, <1>9, <1>10, <1>11, <1>12
        DEF Next, Work, Fault, Handlers, WatcherStep

\* The indexer loses sight of an inscription whose owner on record is not the
\* holder by a failing call, or because the owner is written behind its back.
LEMMA StepRowInSight ==
  ASSUME TypeOK, Grounded, NEW i \in Inscriptions, RowInSight(i), [Next]_vars,
         ~PageFails, ~IndexerCallFails,
         ~(UpdateOwner /\ Of[watcher.sale] = i),
         \A s \in Sales : ~(RecordSale(s) /\ Of[s] = i)
  PROVE  RowInSight(i)'
<1> USE DEF RowInSight
<1>0. ASSUME owner'[i] = owner[i], UNCHANGED <<holder, indexer>>,
             "indexer" \in behind => "indexer" \in behind'
      PROVE  RowInSight(i)'
  BY <1>0
<1>1. CASE Network \/ Restart
  <2>1. "indexer" \in behind'
    BY <1>1, BlockHolder DEF Restart, Tasks
  <2> QED BY <2>1
<1>2. ASSUME NEW s \in Sales, RecordSale(s) PROVE RowInSight(i)'
  <2>1. Of[s] # i BY <1>2
  <2>2. owner'[i] = owner[i] BY <1>2, <2>1 DEF RecordSale, TypeOK
  <2> QED BY <1>0, <1>2, <2>2 DEF RecordSale, chainVars
<1>3. ASSUME NEW c, NEW ids, AssignCollection(c, ids) PROVE RowInSight(i)'
  BY <1>3, AssignmentAside DEF chainVars
<1>4. CASE WatcherStep \/ WatcherCallFails
  <2>1. CASE UpdateOwner
    <3>1. Of[watcher.sale] # i BY <2>1
    <3>2. owner'[i] = owner[i] BY <2>1, <3>1, InHand DEF UpdateOwner, TypeOK
    <3> QED BY <1>0, <1>4, <3>2, WatcherAside DEF chainVars
  <2>2. CASE ~UpdateOwner
    BY <1>0, <1>4, <2>2, WatcherAside DEF chainVars
  <2> QED BY <2>1, <2>2
<1>5. CASE IndexerTick
  <2>1. indexer'.todo = Inscriptions BY <1>5, RoundInHand DEF IndexerTick
  <2> QED BY <2>1
<1>6. ASSUME NEW j \in Inscriptions, FetchInscription(j) PROVE RowInSight(i)'
  <2>1. UNCHANGED <<owner, holder, behind>> /\ indexer.pc = "list"
    BY <1>6 DEF FetchInscription, dbVars, chainVars
  <2>2. CASE holder[j] = None
    <3>1. indexer'.todo = indexer.todo \ {j}
      BY <1>6, <2>2, RoundInHand DEF FetchInscription
    <3>2. owner[j] = None BY <2>2 DEF Grounded, UnmintedHasNoRow
    <3> QED BY <2>1, <2>2, <3>1, <3>2
  <2>3. CASE holder[j] # None
    <3>1. /\ indexer'.pc = "row" /\ indexer'.item = j /\ indexer'.seen = holder[j]
          /\ indexer'.todo = indexer.todo \ {j}
      BY <1>6, <2>3 DEF FetchInscription, IndexerAsleep
    <3> QED BY <2>1, <3>1
  <2> QED BY <2>2, <2>3
<1>7. CASE ReadRow
  <2>1. UNCHANGED <<owner, holder, behind>> /\ indexer.pc = "row"
    BY <1>7 DEF ReadRow, dbVars, chainVars
  <2>2. CASE owner[indexer.item] = indexer.seen
    <3>1. indexer'.todo = indexer.todo BY <1>7, <2>2, RoundInHand DEF ReadRow
    <3> QED BY <2>1, <2>2, <3>1
  <2>3. CASE owner[indexer.item] # indexer.seen
    <3>1. /\ indexer'.pc = "upsert" /\ indexer'.todo = indexer.todo
          /\ indexer'.item = indexer.item /\ indexer'.seen = indexer.seen
      BY <1>7, <2>3, RowRead
    <3> QED BY <2>1, <3>1
  <2> QED BY <2>2, <2>3
<1>8. CASE UpsertInscription
  <2>1. PICK j \in Inscriptions : j = indexer.item BY <1>8, InHand DEF UpsertInscription
  <2>2. /\ owner' = [owner EXCEPT ![j] = indexer.seen]
        /\ UNCHANGED <<holder, behind>> /\ indexer.pc = "upsert"
    BY <1>8, <2>1 DEF UpsertInscription, chainVars
  <2>3. indexer'.todo = indexer.todo BY <1>8 DEF UpsertInscription, IndexerAsleep
  <2>4. CASE i = j
    <3>1. owner'[i] = indexer.seen BY <2>2, <2>4 DEF TypeOK
    <3>2. indexer.seen = holder[i] \/ "indexer" \in behind
      BY <2>1, <2>2, <2>4 DEF Grounded, SeenIsHolder
    <3> QED BY <2>2, <3>1, <3>2
  <2>5. CASE i # j
    <3>1. owner'[i] = owner[i] BY <2>2, <2>5 DEF TypeOK
    <3> QED BY <2>1, <2>2, <2>3, <2>5, <3>1
  <2> QED BY <2>4, <2>5
<1>9. CASE LogInscription
  <2>1. indexer'.todo = indexer.todo BY <1>9, RoundInHand DEF LogInscription
  <2>2. UNCHANGED <<owner, holder, behind>> /\ indexer.pc = "log"
    BY <1>9 DEF LogInscription, chainVars
  <2> QED BY <2>1, <2>2
<1>10. CASE UNCHANGED vars BY <1>0, <1>10 DEF vars, dbVars, chainVars
<1>11. ASSUME NEW s \in Sales, SendSale(s) PROVE RowInSight(i)'
  BY <1>0, <1>11 DEF SendSale, dbVars
<1> QED BY <1>1, <1>2, <1>3, <1>4, <1>5, <1>6, <1>7, <1>8, <1>9, <1>10, <1>11
        DEF Next, Work, Fault, Handlers, IndexerStep

\* The tasks overlook nothing by themselves: only a failing call, and a commit of
\* somebody else that comes late, takes a row that is behind the chain out of sight.
THEOREM NothingOverlooked == Spec => NothingIsOverlooked
<1>1. TypeOK /\ Grounded /\ [Next]_vars =>
        \A s \in Sales : SaleInSight(s) =>
          SaleInSight(s)' \/ WatcherCallFails \/ (RecordSale(s) /\ s \in mined)
  BY StepSaleInSight
<1>2. TypeOK /\ Grounded /\ [Next]_vars =>
        \A i \in Inscriptions : RowInSight(i) =>
          \/ RowInSight(i)'
          \/ PageFails \/ IndexerCallFails
          \/ UpdateOwner /\ Of[watcher.sale] = i
          \/ \E s \in Sales : RecordSale(s) /\ Of[s] = i
  BY StepRowInSight
<1> QED BY <1>1, <1>2, TypeCorrect, GroundedInductive, PTL DEF Spec, NothingIsOverlooked

-----------------------------------------------------------------------------
\* Progress.

\* A task that is through with its item is nearer to its next one.
LEMMA ThroughWithItem ==
  /\ watcher.pc \in {"confirm", "owner", "log"} /\ WatcherRound(watcher.todo)
       => Shorter(watcher, watcher')
  /\ indexer.pc \in {"row", "upsert", "log"} /\ IndexerRound(indexer.todo)
       => Shorter(indexer, indexer')
<1>1. ASSUME watcher.pc \in {"confirm", "owner", "log"}, WatcherRound(watcher.todo)
      PROVE  Shorter(watcher, watcher')
  <2>1. watcher'.todo = watcher.todo /\ watcher'.pc \in {"sleep", "next"}
    BY <1>1, RoundInHand
  <2> QED BY <1>1, <2>1 DEF Shorter, Distance
<1>2. ASSUME indexer.pc \in {"row", "upsert", "log"}, IndexerRound(indexer.todo)
      PROVE  Shorter(indexer, indexer')
  <2>1. indexer'.todo = indexer.todo /\ indexer'.pc \in {"sleep", "list"}
    BY <1>2, RoundInHand
  <2> QED BY <1>2, <2>1 DEF Shorter, Distance
<1> QED BY <1>1, <1>2

\* A task that goes on without an item has fewer.
LEMMA WithoutItem ==
  /\ \A s \in watcher.todo :
       WatcherRound(watcher.todo \ {s}) => Shorter(watcher, watcher')
  /\ \A i \in indexer.todo :
       IndexerRound(indexer.todo \ {i}) => Shorter(indexer, indexer')
BY RoundInHand DEF Shorter

\* A task in its round that goes to sleep is through with it.
LEMMA AsleepShorter ==
  ASSUME TypeOK
  PROVE  /\ watcher.pc \notin {"sleep", "query"} /\ watcher' = WatcherAsleep
              => Shorter(watcher, watcher')
         /\ indexer.pc # "sleep" /\ indexer' = IndexerAsleep
              => Shorter(indexer, indexer')
<1>1. ASSUME watcher.pc \notin {"sleep", "query"}, watcher' = WatcherAsleep
      PROVE  Shorter(watcher, watcher')
  <2>1. watcher.pc \in {"next", "confirm", "owner", "log"} BY <1>1 DEF TypeOK, Watcher
  <2>2. watcher'.todo = {} /\ watcher'.pc = "sleep" BY <1>1 DEF WatcherAsleep
  <2> QED BY <2>1, <2>2 DEF Shorter, Distance
<1>2. ASSUME indexer.pc # "sleep", indexer' = IndexerAsleep
      PROVE  Shorter(indexer, indexer')
  <2>1. indexer.pc \in {"list", "row", "upsert", "log"} BY <1>2 DEF TypeOK, Indexer
  <2>2. indexer'.todo = {} /\ indexer'.pc = "sleep" BY <1>2 DEF IndexerAsleep
  <2> QED BY <2>1, <2>2 DEF Shorter, Distance
<1> QED BY <1>1, <1>2

\* The steps of the watcher shorten its round.
LEMMA WatcherShorter ==
  ASSUME TypeOK, watcher.pc \notin {"sleep", "query"},
         WatcherStep \/ WatcherCallFails
  PROVE  Shorter(watcher, watcher')
<1>1. ASSUME NEW s \in Sales, CheckSale(s) PROVE Shorter(watcher, watcher')
  BY <1>1, WithoutItem DEF CheckSale, Shorter
<1>2. CASE ConfirmSale
  <2>1. watcher'.todo = watcher.todo /\ watcher.pc = "confirm" /\ watcher'.pc = "owner"
    BY <1>2 DEF ConfirmSale, WatcherGoes, TypeOK, Watcher
  <2> QED BY <2>1 DEF Shorter, Distance
<1>3. ASSUME watcher.pc = "owner", WatcherGoes("log") PROVE Shorter(watcher, watcher')
  <2>1. watcher'.todo = watcher.todo /\ watcher'.pc = "log"
    BY <1>3 DEF WatcherGoes, TypeOK, Watcher
  <2> QED BY <1>3, <2>1 DEF Shorter, Distance
<1>4. CASE UpdateOwner BY <1>3, <1>4 DEF UpdateOwner
<1>5. CASE LogSale BY <1>5, ThroughWithItem DEF LogSale
<1>6. CASE WatcherCallFails
  BY <1>3, <1>6, ThroughWithItem, WithoutItem DEF WatcherCallFails
<1> QED BY <1>1, <1>2, <1>4, <1>5, <1>6 DEF WatcherStep, WatcherTick, GetPendingSales

\* The steps of the indexer shorten its round.
LEMMA IndexerShorter ==
  ASSUME TypeOK, indexer.pc # "sleep", IndexerStep \/ IndexerCallFails \/ PageFails
  PROVE  Shorter(indexer, indexer')
<1>1. ASSUME NEW i \in Inscriptions, FetchInscription(i) PROVE Shorter(indexer, indexer')
  <2>1. CASE holder[i] = None BY <1>1, <2>1, WithoutItem DEF FetchInscription
  <2>2. CASE holder[i] # None
    <3>1. indexer'.todo = indexer.todo \ {i} /\ i \in indexer.todo
      BY <1>1, <2>2 DEF FetchInscription, IndexerAsleep
    <3> QED BY <3>1 DEF Shorter
  <2> QED BY <2>1, <2>2
<1>2. CASE ReadRow
  <2>1. CASE owner[indexer.item] = indexer.seen
    BY <1>2, <2>1, ThroughWithItem DEF ReadRow
  <2>2. CASE owner[indexer.item] # indexer.seen
    <3>1. indexer'.pc = "upsert" /\ indexer'.todo = indexer.todo BY <1>2, <2>2, RowRead
    <3>2. indexer.pc = "row" BY <1>2 DEF ReadRow
    <3> QED BY <3>1, <3>2 DEF Shorter, Distance
  <2> QED BY <2>1, <2>2
<1>3. CASE UpsertInscription
  <2>1. indexer'.todo = indexer.todo /\ indexer'.pc = "log" /\ indexer.pc = "upsert"
    BY <1>3 DEF UpsertInscription, IndexerAsleep
  <2> QED BY <2>1 DEF Shorter, Distance
<1>4. CASE LogInscription BY <1>4, ThroughWithItem DEF LogInscription
<1>5. CASE IndexerCallFails BY <1>5, ThroughWithItem, WithoutItem DEF IndexerCallFails
<1>6. CASE PageFails BY <1>6, AsleepShorter DEF PageFails
<1> QED BY <1>1, <1>2, <1>3, <1>4, <1>5, <1>6 DEF IndexerStep, IndexerTick

\* No task retries or goes back: whatever moves it in its round, a failure or a
\* restart included, shortens the round.
THEOREM RoundsGoForward == Spec => RoundsAdvance
<1> DEFINE Advance ==
       /\ \/ watcher.pc \in {"sleep", "query"} \/ watcher' = watcher
          \/ Shorter(watcher, watcher')
       /\ \/ indexer.pc = "sleep" \/ indexer' = indexer
          \/ indexer' = [indexer EXCEPT !.raced = TRUE]
          \/ Shorter(indexer, indexer')
<1>1. TypeOK /\ Next => Advance
  <2> SUFFICES ASSUME TypeOK, Next PROVE Advance OBVIOUS
  <2>1. CASE WatcherStep \/ WatcherCallFails BY <2>1, WatcherShorter, WatcherAside
  <2>2. CASE IndexerStep \/ IndexerCallFails \/ PageFails
    BY <2>2, IndexerShorter, IndexerAside
  <2>3. CASE Network BY <2>3, BlockHolder
  <2>4. ASSUME NEW s \in Sales, SendSale(s) \/ RecordSale(s) PROVE Advance
    BY <2>4 DEF SendSale, RecordSale
  <2>5. ASSUME NEW c, NEW ids, AssignCollection(c, ids) PROVE Advance
    BY <2>5 DEF AssignCollection
  <2>6. CASE Restart BY <2>6, AsleepShorter DEF Restart
  <2> QED BY <2>1, <2>2, <2>3, <2>4, <2>5, <2>6 DEF Next, Work, Fault, Handlers
<1>2. TypeOK /\ [Next]_vars => [Advance]_vars BY <1>1
<1> QED BY <1>2, TypeCorrect, PTL DEF Spec, RoundsAdvance

=============================================================================
