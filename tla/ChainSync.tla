------------------------------ MODULE ChainSync ------------------------------
(***************************************************************************)
(* The two background tasks that bring the database up to date with the    *)
(* chain: services/mempool_watcher.rs confirms recorded sales, and         *)
(* services/indexer.rs copies inscriptions and their owners from ord.      *)
(*                                                                         *)
(* Each task wakes up by a timer and works through one snapshot when the   *)
(* node's height exceeds the one it remembers; behind holds the tasks for  *)
(* which it does.  Every awaited call is a step, so the tasks, the order   *)
(* handlers that send and record sales (see Trading), the network and a    *)
(* restart interleave.                                                     *)
(***************************************************************************)
EXTENDS Naturals, Sequences

CONSTANTS
  Sales,         \* rows of the table sales; a sale stands for its buyer
  Inscriptions,
  Of,            \* the inscription a sale is about
  Seller,        \* who mints every inscription
  Outsider,      \* who receives inscriptions outside the marketplace
  Collections,
  None           \* SQL NULL, or the address of an unconfirmed inscription of ord

ASSUME ConstantsAssumption ==
  /\ Of \in [Sales -> Inscriptions]
  /\ None \notin Sales \cup {Seller, Outsider} \cup Collections

VARIABLES
  sale,      \* table sales: absent, pending (confirmed_at IS NULL) or confirmed
  owner,     \* table inscriptions: owner_address, None when there is no row
  collection, \* table inscriptions: collection_id
  logged,    \* Sale rows the watcher has added to activity_feed, per sale
  minted,    \* Mint rows the indexer has added to activity_feed
  mempool,   \* node: unconfirmed sale transactions of an inscription, in order
  mined,     \* node: confirmed sale transactions
  holder,    \* ord: the address that holds an inscription on the chain
  sent,      \* sales a handler has broadcast and not committed yet
  behind,    \* tasks whose last_known_height is below the node's
  watcher,   \* the watcher: what it does next, its sale and its snapshot
  indexer    \* the indexer: likewise, with what it has read

dbVars    == <<sale, owner, collection, logged, minted>>
chainVars == <<mempool, mined, holder>>
vars      == <<dbVars, chainVars, sent, behind, watcher, indexer>>

Addresses == Sales \cup {Seller, Outsider}
Tasks     == {"watcher", "indexer"}

\* Between two items a task has none in hand.  Of an inscription the indexer
\* holds the address it has seen on the chain and, once it has read the row, its
\* collection; raced remembers, for the properties alone, that the row was
\* assigned to a collection meanwhile.
Watcher ==
  [pc: {"sleep", "query", "next"}, todo: SUBSET Sales, sale: {None}]
    \cup [pc: {"confirm", "owner", "log"}, todo: SUBSET Sales, sale: Sales]
Indexer ==
  [pc: {"sleep", "list"}, todo: SUBSET Inscriptions, item: {None}, seen: {None},
   new: {FALSE}, collection: {None}, raced: {FALSE}]
    \cup [pc: {"row", "upsert"}, todo: SUBSET Inscriptions,
          item: Inscriptions, seen: Addresses, new: BOOLEAN,
          collection: Collections \cup {None}, raced: BOOLEAN]
    \cup [pc: {"log"}, todo: SUBSET Inscriptions, item: Inscriptions,
          seen: {None}, new: BOOLEAN, collection: {None}, raced: {FALSE}]

WatcherAsleep == [pc |-> "sleep", todo |-> {}, sale |-> None]
IndexerAsleep == [pc |-> "sleep", todo |-> {}, item |-> None,
                  seen |-> None, new |-> FALSE, collection |-> None, raced |-> FALSE]

TypeOK ==
  /\ sale \in [Sales -> {"absent", "pending", "confirmed"}]
  /\ owner \in [Inscriptions -> Addresses \cup {None}]
  /\ collection \in [Inscriptions -> Collections \cup {None}]
  /\ logged \in [Sales -> Nat]
  /\ minted \in [Inscriptions -> Nat]
  /\ mempool \in [Inscriptions -> Seq(Sales)]
  /\ mined \subseteq Sales
  /\ holder \in [Inscriptions -> Addresses \cup {None}]
  /\ sent \subseteq Sales
  /\ behind \subseteq Tasks
  /\ watcher \in Watcher
  /\ indexer \in Indexer

Init ==
  /\ sale = [s \in Sales |-> "absent"]
  /\ owner = [i \in Inscriptions |-> None]
  /\ collection = [i \in Inscriptions |-> None]
  /\ logged = [s \in Sales |-> 0]
  /\ minted = [i \in Inscriptions |-> 0]
  /\ mempool = [i \in Inscriptions |-> <<>>]
  /\ mined = {}
  /\ holder = [i \in Inscriptions |-> None]
  /\ sent = {}
  /\ behind = Tasks
  /\ watcher = WatcherAsleep
  /\ indexer = IndexerAsleep

-----------------------------------------------------------------------------
\* The node and ord (external).

InMempool(s) == \E n \in DOMAIN mempool[Of[s]] : mempool[Of[s]][n] = s

\* A block: of the transactions on inscription i it takes the first n, and the
\* buyer of the last of them holds the inscription.
NewBlock(i, n) ==
  /\ n \in 0 .. Len(mempool[i])
  /\ mempool' = [mempool EXCEPT ![i] = SubSeq(@, n + 1, Len(@))]
  /\ mined' = mined \cup {mempool[i][k] : k \in 1 .. n}
  /\ holder' = IF n = 0 THEN holder ELSE [holder EXCEPT ![i] = mempool[i][n]]
  /\ behind' = Tasks
  /\ UNCHANGED <<dbVars, sent, watcher, indexer>>

\* A block mints inscription i, or its owner spends it elsewhere: the sales that
\* were waiting in the mempool are gone.
Mint(i) ==
  /\ holder[i] = None
  /\ holder' = [holder EXCEPT ![i] = Seller]
  /\ behind' = Tasks
  /\ UNCHANGED <<dbVars, mempool, mined, sent, watcher, indexer>>

Spend(i) ==
  /\ holder[i] \notin {None, Outsider}
  /\ holder' = [holder EXCEPT ![i] = Outsider]
  /\ mempool' = [mempool EXCEPT ![i] = <<>>]
  /\ behind' = Tasks
  /\ UNCHANGED <<dbVars, mined, sent, watcher, indexer>>

-----------------------------------------------------------------------------
\* The order handlers (see Trading), reduced to what the tasks see of them.

\* A handler broadcasts a sale; a transaction the node has is simply found there.
SendSale(s) ==
  /\ sale[s] = "absent" /\ s \notin sent \cup mined /\ holder[Of[s]] # None
  /\ sent' = sent \cup {s}
  /\ mempool' = IF InMempool(s) THEN mempool ELSE [mempool EXCEPT ![Of[s]] = Append(@, s)]
  /\ UNCHANGED <<dbVars, mined, holder, behind, watcher, indexer>>

\* Its commit, some awaits later, or never: blocks may have come in between.  The
\* UPDATE of an inscription that has no row yet changes nothing.
RecordSale(s) ==
  /\ s \in sent
  /\ sent' = sent \ {s}
  /\ sale' = [sale EXCEPT ![s] = "pending"]
  /\ owner' = IF owner[Of[s]] = None THEN owner ELSE [owner EXCEPT ![Of[s]] = s]
  /\ UNCHANGED <<collection, logged, minted, chainVars, behind, watcher, indexer>>

\* assign_collection_inscriptions (routes/collections.rs): one UPDATE puts the
\* inscriptions of a request that have a row into collection c.
AssignCollection(c, ids) ==
  LET rows == {i \in ids : owner[i] # None} IN
  /\ collection' = [i \in Inscriptions |-> IF i \in rows THEN c ELSE collection[i]]
  /\ indexer' = IF indexer.pc = "upsert" /\ indexer.item \in rows
                THEN [indexer EXCEPT !.raced = TRUE] ELSE indexer
  /\ UNCHANGED <<sale, owner, logged, minted, chainVars, sent, behind, watcher>>

-----------------------------------------------------------------------------
\* services/mempool_watcher.rs

WatcherGoes(pc) == watcher' = [watcher EXCEPT !.pc = pc]

\* On to the sales of the snapshot that are left, or to sleep.
WatcherRound(todo) ==
  watcher' = IF todo = {} THEN WatcherAsleep
             ELSE [pc |-> "next", todo |-> todo, sale |-> None]

\* A tick that finds a new height: it is remembered before anything is done.
WatcherTick ==
  /\ watcher.pc = "sleep" /\ "watcher" \in behind
  /\ behind' = behind \ {"watcher"}
  /\ WatcherGoes("query")
  /\ UNCHANGED <<dbVars, chainVars, sent, indexer>>

\* get_pending_sales: one snapshot for the whole round.
GetPendingSales ==
  /\ watcher.pc = "query"
  /\ WatcherRound({s \in Sales : sale[s] = "pending"})
  /\ UNCHANGED <<dbVars, chainVars, sent, behind, indexer>>

\* Mutant: the round ends at the first sale the node does not know.
CheckSale_Stops(s) ==
  /\ watcher.pc = "next" /\ s \in watcher.todo
  /\ IF s \in mined \/ InMempool(s)
     THEN watcher' = [pc |-> "confirm", sale |-> s, todo |-> watcher.todo \ {s}]
     ELSE watcher' = WatcherAsleep
  /\ UNCHANGED <<dbVars, chainVars, sent, behind, indexer>>

\* The next sale of the snapshot, in no particular order (the query has none):
\* getrawtransaction finds a transaction in a block and in the mempool alike.
CheckSale(s) ==
  /\ watcher.pc = "next" /\ s \in watcher.todo
  /\ IF s \in mined \/ InMempool(s)
     THEN watcher' = [pc |-> "confirm", sale |-> s, todo |-> watcher.todo \ {s}]
     ELSE WatcherRound(watcher.todo \ {s})
  /\ UNCHANGED <<dbVars, chainVars, sent, behind, indexer>>

\* confirmed_at is set.  The status of the listing, sold since the sale was
\* recorded, is written again by a statement that nothing here can see.
ConfirmSale ==
  /\ watcher.pc = "confirm"
  /\ sale' = [sale EXCEPT ![watcher.sale] = "confirmed"]
  /\ WatcherGoes("owner")
  /\ UNCHANGED <<owner, collection, logged, minted, chainVars, sent, behind, indexer>>

UpdateOwner ==
  LET s == watcher.sale IN
  /\ watcher.pc = "owner"
  /\ owner' = IF owner[Of[s]] = None THEN owner ELSE [owner EXCEPT ![Of[s]] = s]
  /\ WatcherGoes("log")
  /\ UNCHANGED <<sale, collection, logged, minted, chainVars, sent, behind, indexer>>

LogSale ==
  /\ watcher.pc = "log"
  /\ logged' = [logged EXCEPT ![watcher.sale] = @ + 1]
  /\ WatcherRound(watcher.todo)
  /\ UNCHANGED <<sale, owner, collection, minted, chainVars, sent, behind, indexer>>

\* Mutant: a sale whose confirmation fails is reported all the same.
WatcherCallFails_CarriesOn ==
  /\ \/ watcher.pc = "query" /\ watcher' = WatcherAsleep
     \/ watcher.pc = "log" /\ WatcherRound(watcher.todo)
     \/ \E s \in watcher.todo : /\ watcher.pc = "next"
                                /\ WatcherRound(watcher.todo \ {s})
     \/ watcher.pc = "confirm" /\ WatcherGoes("owner")
     \/ watcher.pc = "owner" /\ WatcherGoes("log")
  /\ UNCHANGED <<dbVars, chainVars, sent, behind, indexer>>

\* A call fails: the query ends the round, a confirmation gives up the sale until
\* the next block, the later writes are skipped for good.
WatcherCallFails ==
  /\ \/ watcher.pc = "query" /\ watcher' = WatcherAsleep
     \/ watcher.pc \in {"confirm", "log"} /\ WatcherRound(watcher.todo)
     \/ \E s \in watcher.todo : /\ watcher.pc = "next"
                                /\ WatcherRound(watcher.todo \ {s})
     \/ watcher.pc = "owner" /\ WatcherGoes("log")
  /\ UNCHANGED <<dbVars, chainVars, sent, behind, indexer>>

-----------------------------------------------------------------------------
\* services/indexer.rs

\* On to the inscriptions that are left, or to sleep.
IndexerRound(todo) ==
  indexer' = IF todo = {} THEN IndexerAsleep
             ELSE [IndexerAsleep EXCEPT !.pc = "list", !.todo = todo]

\* A tick that finds a new height.  The height is remembered at the end of the
\* round, but it is the one read here, and no round fails (see PageFails).
IndexerTick ==
  /\ indexer.pc = "sleep" /\ "indexer" \in behind
  /\ behind' = behind \ {"indexer"}
  /\ IndexerRound(Inscriptions)
  /\ UNCHANGED <<dbVars, chainVars, sent, watcher>>

\* Mutant: an inscription without an address is not skipped.
FetchInscription_Unconfirmed(i) ==
  /\ indexer.pc = "list" /\ i \in indexer.todo
  /\ indexer' = [IndexerAsleep EXCEPT !.pc = "row", !.item = i, !.seen = holder[i],
                                      !.todo = indexer.todo \ {i}]
  /\ UNCHANGED <<dbVars, chainVars, sent, behind, watcher>>

\* The next inscription of the pages: get_inscription of ord.  One without an
\* address is skipped.
FetchInscription(i) ==
  /\ indexer.pc = "list" /\ i \in indexer.todo
  /\ IF holder[i] = None THEN IndexerRound(indexer.todo \ {i})
     ELSE indexer' = [IndexerAsleep EXCEPT !.pc = "row", !.item = i,
                                           !.seen = holder[i],
                                           !.todo = indexer.todo \ {i}]
  /\ UNCHANGED <<dbVars, chainVars, sent, behind, watcher>>

\* get_inscription of the database: a row whose owner has changed is written back
\* with everything else as it is read here.
ReadRow ==
  /\ indexer.pc = "row"
  /\ IF owner[indexer.item] = indexer.seen THEN IndexerRound(indexer.todo)
     ELSE indexer' = [indexer EXCEPT !.pc = "upsert",
                                     !.new = (owner[indexer.item] = None),
                                     !.collection = collection[indexer.item]]
  /\ UNCHANGED <<dbVars, chainVars, sent, behind, watcher>>

\* Mutant: a row that exists is left as it is.
UpsertInscription_OnlyInserts ==
  /\ indexer.pc = "upsert"
  /\ owner' = IF indexer.new
              THEN [owner EXCEPT ![indexer.item] = indexer.seen] ELSE owner
  /\ collection' = [collection EXCEPT ![indexer.item] = indexer.collection]
  /\ indexer' = [IndexerAsleep EXCEPT !.pc = "log", !.todo = indexer.todo,
                                      !.item = indexer.item, !.new = indexer.new]
  /\ UNCHANGED <<sale, logged, minted, chainVars, sent, behind, watcher>>

\* Mutant: what ord knows of an inscription is written, and no collection.
UpsertInscription_NoCollection ==
  /\ indexer.pc = "upsert"
  /\ owner' = [owner EXCEPT ![indexer.item] = indexer.seen]
  /\ collection' = [collection EXCEPT ![indexer.item] = None]
  /\ indexer' = [IndexerAsleep EXCEPT !.pc = "log", !.todo = indexer.todo,
                                      !.item = indexer.item, !.new = indexer.new]
  /\ UNCHANGED <<sale, logged, minted, chainVars, sent, behind, watcher>>

\* INSERT ... ON CONFLICT DO UPDATE, with the owner fetched and the collection
\* read before.
UpsertInscription ==
  /\ indexer.pc = "upsert"
  /\ owner' = [owner EXCEPT ![indexer.item] = indexer.seen]
  /\ collection' = [collection EXCEPT ![indexer.item] = indexer.collection]
  /\ indexer' = [IndexerAsleep EXCEPT !.pc = "log", !.todo = indexer.todo,
                                      !.item = indexer.item, !.new = indexer.new]
  /\ UNCHANGED <<sale, logged, minted, chainVars, sent, behind, watcher>>

\* A Mint row for an inscription that was not known, else a Transfer row (which
\* no property needs).
LogInscription ==
  /\ indexer.pc = "log"
  /\ minted' = IF indexer.new
               THEN [minted EXCEPT ![indexer.item] = @ + 1] ELSE minted
  /\ IndexerRound(indexer.todo)
  /\ UNCHANGED <<sale, owner, collection, logged, chainVars, sent, behind, watcher>>

\* A page cannot be listed: the round ends without an error, so the height is
\* remembered and the pages left are not asked for again until the next block.
PageFails ==
  /\ indexer.pc = "list"
  /\ indexer' = IndexerAsleep
  /\ UNCHANGED <<dbVars, chainVars, sent, behind, watcher>>

\* Any other call fails: on to the next inscription.
IndexerCallFails ==
  /\ \/ indexer.pc \in {"row", "upsert", "log"} /\ IndexerRound(indexer.todo)
     \/ \E i \in indexer.todo : /\ indexer.pc = "list"
                                /\ IndexerRound(indexer.todo \ {i})
  /\ UNCHANGED <<dbVars, chainVars, sent, behind, watcher>>

-----------------------------------------------------------------------------
\* A restart: both tasks start over, with last_known_height = 0, and the commits
\* under way never come.
Restart ==
  /\ watcher' = WatcherAsleep
  /\ indexer' = IndexerAsleep
  /\ sent' = {}
  /\ behind' = Tasks
  /\ UNCHANGED <<dbVars, chainVars>>

WatcherStep ==
  \/ WatcherTick \/ GetPendingSales \/ ConfirmSale \/ UpdateOwner \/ LogSale
  \/ \E s \in Sales : CheckSale(s)

IndexerStep ==
  \/ IndexerTick \/ ReadRow \/ UpsertInscription \/ LogInscription
  \/ \E i \in Inscriptions : FetchInscription(i)

Network ==
  \E i \in Inscriptions :
    \/ Mint(i) \/ Spend(i)
    \/ \E n \in 0 .. Len(mempool[i]) : NewBlock(i, n)

Handlers ==
  \/ \E s \in Sales : SendSale(s) \/ RecordSale(s)
  \/ \E c \in Collections, ids \in (SUBSET Inscriptions) \ {{}} :
       AssignCollection(c, ids)

Work  == WatcherStep \/ IndexerStep \/ Network \/ Handlers
Fault == WatcherCallFails \/ PageFails \/ IndexerCallFails \/ Restart
Next  == Work \/ Fault

Spec == Init /\ [][Next]_vars

\* Blocks keep coming, the runtime polls both tasks, and failures and restarts
\* end some day: the tasks have only later blocks to make up for them.
TasksRun ==
  /\ \A i \in Inscriptions : WF_vars(NewBlock(i, 0))
  /\ WF_vars(WatcherStep) /\ WF_vars(IndexerStep)
  /\ <>[][Work]_vars

FairSpec == Spec /\ TasksRun

-----------------------------------------------------------------------------
\* Safety.

\* The watcher reports a sale to the activity feed at most once, whatever fails
\* and however often the server restarts: it confirms the row before it logs.
SaleLoggedOnce == \A s \in Sales : logged[s] <= 1

\* A sale the watcher has in hand or has logged is confirmed: a restart never
\* finds a reported sale still pending.
LoggedIsConfirmed ==
  \A s \in Sales :
    logged[s] > 0 \/ (watcher.sale = s /\ watcher.pc \in {"owner", "log"})
      => sale[s] = "confirmed"

\* The indexer reports the mint of an inscription at most once, restarts included.
MintedOnce == \A i \in Inscriptions : minted[i] <= 1

\* An inscription leaves the collection an administrator has put it into for
\* another one only, unless the assignment fell between the indexer's reading the
\* row and its writing it back: then it is undone.
AssignmentLostInARaceOnly ==
  [][\A i \in Inscriptions :
       collection[i] # None =>
         \/ collection'[i] # None
         \/ indexer.pc = "upsert" /\ indexer.item = i /\ indexer.raced]_vars

\* The inductive invariant: a sale under way has no row yet, ...
SentHasNoRow == \A s \in sent : sale[s] = "absent"

\* ... what is left of a snapshot is pending, so that the sale in hand has not
\* been reported yet ...
WatcherInHand ==
  LET s == watcher.sale IN
  /\ \A t \in watcher.todo : sale[t] = "pending"
  /\ s # None => /\ logged[s] = 0 /\ s \notin watcher.todo
                 /\ watcher.pc = "confirm" => sale[s] = "pending"

\* ... and a new inscription is one that has neither a row nor a mint so far.
IndexerInHand ==
  LET i == indexer.item IN
  /\ \A j \in Inscriptions : minted[j] > 0 => owner[j] # None
  /\ indexer.pc = "log" => owner[i] # None
  /\ indexer.new => /\ minted[i] = 0
                    /\ indexer.pc = "upsert" => owner[i] = None

IndInv == /\ SaleLoggedOnce /\ LoggedIsConfirmed /\ WatcherInHand
          /\ MintedOnce /\ IndexerInHand /\ SentHasNoRow

-----------------------------------------------------------------------------
\* The tasks implement the abstract log of what happened.
Log == INSTANCE ActivityLog WITH
         recorded <- {s \in Sales : sale[s] # "absent"},
         confirmed <- {s \in Sales : sale[s] = "confirmed"},
         known <- {i \in Inscriptions : owner[i] # None},
         reported <- logged

\* The watcher confirms a sale before it reports it, the indexer inserts an
\* inscription before it reports its mint, neither reports twice, and no row goes
\* back, whatever the handlers write meanwhile, whatever fails and however often
\* the server restarts.
ImplementsActivityLog == Log!Spec

-----------------------------------------------------------------------------
\* What keeps the tables from the chain.

\* A mined sale whose confirmation is missing is still ahead of the watcher.
SaleInSight(s) ==
  sale[s] = "pending" /\ s \in mined =>
    \/ "watcher" \in behind \/ watcher.pc = "query"
    \/ s \in watcher.todo
    \/ watcher.pc = "confirm" /\ watcher.sale = s

\* If the owner on record is not the holder, the inscription is still ahead of
\* the indexer.
RowInSight(i) ==
  \/ owner[i] = holder[i]
  \/ "indexer" \in behind \/ i \in indexer.todo
  \/ indexer.pc \in {"row", "upsert"} /\ indexer.item = i /\ indexer.seen = holder[i]

\* The two tasks overlook nothing by themselves, though each works through a
\* snapshot while blocks come, sales are recorded and the server restarts: a mined
\* sale is out of the watcher's sight after a failing call only, or when its
\* commit comes after its block; a row that is out of date is out of the indexer's
\* after a failing call, or because a commit of the order handlers or the watcher
\* has written the owner after it.
NothingIsOverlooked ==
  [][/\ \A s \in Sales : SaleInSight(s) =>
          SaleInSight(s)' \/ WatcherCallFails \/ (RecordSale(s) /\ s \in mined)
     /\ \A i \in Inscriptions : RowInSight(i) =>
          \/ RowInSight(i)'
          \/ PageFails \/ IndexerCallFails
          \/ UpdateOwner /\ Of[watcher.sale] = i
          \/ \E s \in Sales : RecordSale(s) /\ Of[s] = i]_vars

\* What it rests on: no inscription has a row before it is minted, and what the
\* indexer has seen is the holder unless a block came.
UnmintedHasNoRow == \A i \in Inscriptions : holder[i] = None => owner[i] = None

SeenIsHolder ==
  indexer.pc \in {"row", "upsert"} =>
    /\ holder[indexer.item] # None
    /\ indexer.seen = holder[indexer.item] \/ "indexer" \in behind

Grounded == UnmintedHasNoRow /\ SeenIsHolder

\* How far a task is from its next item, at most.
Distance == [sleep |-> 0, next |-> 1, list |-> 1, log |-> 2, owner |-> 3, upsert |-> 3,
             confirm |-> 4, row |-> 4]

\* What makes the rounds end: no call is retried and no item put back, so that
\* whatever moves a task in its round, a failure and a restart included, leaves it
\* fewer items, or the same ones and less to do with the one in hand.
Shorter(task, next) ==
  \/ next.todo \subseteq task.todo /\ next.todo # task.todo
  \/ next.todo = task.todo /\ Distance[next.pc] < Distance[task.pc]

RoundsAdvance ==
  [][/\ \/ watcher.pc \in {"sleep", "query"} \/ watcher' = watcher
        \/ Shorter(watcher, watcher')
     /\ \/ indexer.pc = "sleep" \/ indexer' = indexer
        \/ indexer' = [indexer EXCEPT !.raced = TRUE]
        \/ Shorter(indexer, indexer')]_vars

-----------------------------------------------------------------------------
\* Liveness.

\* "On confirmation: update listing status to sold, ..." (.beads/issues.jsonl,
\* bitmap-marketplace-7a3): again and again every mined sale that is on record is
\* confirmed, though a block is looked at once, a commit may come after its block
\* and any call of the round may fail.
MinedIsConfirmed ==
  []<>(\A s \in Sales : s \in mined /\ sale[s] # "absent" => sale[s] = "confirmed")

\* Whatever the handlers and the watcher write, once the chain stops changing
\* hands the owner on record is the holder on the chain: the watcher may apply
\* two sales of one inscription in the wrong order, and a sale that never made it
\* into a block has changed the owner too; the indexer repairs both.
OwnerConverges == \A i \in Inscriptions : <>[](owner[i] = holder[i])

-----------------------------------------------------------------------------
\* What the repository says and the code does not do (see the findings).

\* "If get_raw_transaction succeeds, the sale tx is confirmed."
\* (services/mempool_watcher.rs): a confirmed sale is in a block.
ConfirmedIsMined == \A s \in Sales : sale[s] = "confirmed" => s \in mined

=============================================================================
