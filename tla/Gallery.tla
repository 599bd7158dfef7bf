------------------------------ MODULE Gallery ------------------------------
(***************************************************************************)
(* What a visitor is shown: the cards of a portfolio with their ETag, the  *)
(* bitfield that colours the grid of blocks, and the pages of the explore  *)
(* view and of a bitmap's children (src/src/routes/portfolio.rs,           *)
(* explore.rs, bitmaps.rs; src/src/db/bitmaps.rs).  These handlers write   *)
(* nothing.  What makes them hard is that an answer is put together from   *)
(* several reads, of the wallets, of the ord index one address at a time   *)
(* and of the bitmaps table, while all of these change in between; so one  *)
(* request at a time, with the world moving between its reads, shows all a *)
(* request can see.  A request that fails, or that names an unknown        *)
(* profile, shows nothing.                                                 *)
(***************************************************************************)
EXTENDS Integers, FiniteSets

CONSTANTS
  Addrs,          \* ordinals addresses
  Outs,           \* unspent outputs ord knows
  Inscriptions,   \* the outputs that hold an inscription, named by it
  None,           \* no address, no filter, nothing read yet
  RowOf,          \* the inscription of each block of the bitmaps table
  Rare,           \* the blocks with the trait that is explored
  Limit,          \* page size, after clamp(1, 50)
  MaxTip,         \* bound: blocks imported
  MaxKids,        \* bound: children inscribed under a bitmap
  MaxGone         \* bound: outputs spent from each address

ASSUME GalleryAssumption ==
  /\ Inscriptions \subseteq Outs /\ IsFiniteSet(Outs)
  /\ None \notin Addrs /\ \A ids \in SUBSET Inscriptions : None # ids
  /\ \A n \in 0 .. Cardinality(Outs) : None # <<n>>
  /\ MaxTip \in Nat \ {0} /\ MaxKids \in Nat /\ MaxGone \in Nat
  /\ Limit \in Nat \ {0}
  /\ RowOf \in [0..MaxTip - 1 -> Inscriptions \cup {None}]
  /\ Rare \subseteq 0..MaxTip - 1

VARIABLES
  wallets,        \* addresses linked to the profile
  holder,         \* address of each output, None for one outside Addrs
  gone,           \* how many outputs each address has spent
  tip,            \* blocks 0..tip-1 are in the bitmaps table
  kids,           \* children of the bitmap whose children are paged through
  req,            \* the request being answered, or None
  saved,          \* the last portfolio answer the visitor's browser keeps
  walk            \* the pages a visitor has turned

world == <<wallets, holder, gone, tip, kids>>
vars == <<world, req, saved, walk>>

Held(a) == {o \in Outs : holder[o] = a}

-----------------------------------------------------------------------------
(* The world the handlers read.                                            *)

LinkWallet == \E a \in Addrs \ wallets :
  /\ wallets' = wallets \cup {a}
  /\ UNCHANGED <<holder, gone, tip, kids, req, saved, walk>>

UnlinkWallet == \E a \in wallets :
  /\ wallets' = wallets \ {a}
  /\ UNCHANGED <<holder, gone, tip, kids, req, saved, walk>>

(* An output leaves the address that holds it; an inscription goes on to   *)
(* another address or out of sight.                                        *)
Transfer == \E o \in Outs, b \in Addrs \cup {None} :
  /\ b # holder[o]
  /\ \/ holder[o] = None /\ UNCHANGED gone
     \/ /\ holder[o] # None /\ gone[holder[o]] < MaxGone
        /\ gone' = [gone EXCEPT ![holder[o]] = @ + 1]
  /\ holder' = [holder EXCEPT ![o] = b]
  /\ UNCHANGED <<wallets, tip, kids, req, saved, walk>>

ImportBlock ==
  /\ tip < MaxTip /\ tip' = tip + 1
  /\ UNCHANGED <<wallets, holder, gone, kids, req, saved, walk>>

InscribeChild ==
  /\ walk # None /\ walk.kind = "children"
  /\ kids < MaxKids /\ kids' = kids + 1
  /\ UNCHANGED <<wallets, holder, gone, tip, req, saved, walk>>

-----------------------------------------------------------------------------
(* Portfolio and bitfield requests.  A view is one URL: "who" is the       *)
(* ?wallet= filter of a profile's pages and the address of an address's.   *)
(* page, limit and trait select among the cards alike before and after,    *)
(* and are part of the ETag as the view is.                                *)

Views == [scope : {"mine", "profile"}, who : Addrs \cup {None}]
            \cup [scope : {"address"}, who : Addrs]

(* An address as it was when its outputs were counted.  Only the number of *)
(* its outputs is read and goes into the ETag; which they are, and how     *)
(* many it had spent, is kept to say what the number conceals.             *)
Sight == [outs : SUBSET Outs, gone : 0..MaxGone]

ASSUME NoneAssumption == None \notin Sight

Requests ==
  [kind : {"cards", "grid"}, view : Views, tag : {"none", "any", "saved"},
   stage : {"wallets", "count", "ids", "max", "send"},
   addrs : SUBSET Addrs,                          \* the wallets read
   seen : [Addrs -> Sight \cup {None}],           \* outputs counted
   got : [Addrs -> (SUBSET Inscriptions) \cup {None}],  \* ids, by their owner
   blocks : SUBSET (0..MaxTip - 1),               \* rows found for the ids
   extent : 0..MaxTip]                            \* x-total-blocks

(* The addresses whose inscriptions the answer needs.                      *)
Fetched(r) == IF r.view.who = None THEN r.addrs ELSE r.addrs \cap {r.view.who}

\* Mutant: mine is tagged by the shown wallet alone, as a profile is.
TagAddrs_Shown(r) == Fetched(r)

(* The addresses whose outputs are counted into the ETag.                  *)
TagAddrs(r) == IF r.view.scope = "mine" THEN r.addrs ELSE Fetched(r)

Counted(r) == \A a \in TagAddrs(r) : r.seen[a] # None
Gathered(r) == \A a \in Fetched(r) : r.got[a] # None
Ids(r) == UNION {r.got[a] : a \in {b \in Addrs : r.got[b] # None}}

\* Mutant: the ETag hashes the addresses without their counts.
Etag_NoCounts(r) == <<r.view, {a \in Addrs : r.seen[a] # None}>>

(* The hash is taken to tell different pairs apart.                        *)
Etag(r) ==
  <<r.view, [a \in Addrs |-> IF r.seen[a] = None THEN None
                             ELSE <<Cardinality(r.seen[a].outs)>>]>>

EtagMatches(r) ==
  \/ r.tag = "any"
  \/ r.tag = "saved" /\ Etag(r) = Etag(saved)

(* Two bounds: cards, which do not depend on how far the import is, are    *)
(* asked for when it is done; and once an answer is kept the visitor asks  *)
(* for that view alone, with the kept ETag or with a star.                 *)
Ask == \E kind \in {"cards", "grid"}, v \in Views, t \in {"none", "any", "saved"} :
  /\ req = None /\ walk = None
  /\ kind = "grid" => t = "none" /\ (v.who = None \/ v.scope = "address")
  /\ v.scope = "address" => t = "none"
  /\ kind = "cards" => tip = MaxTip
  /\ IF saved = None THEN t = "none" ELSE t # "none" /\ saved.view = v
  /\ req' = [kind |-> kind, view |-> v, tag |-> t,
             stage |-> IF v.scope = "address" THEN "ids" ELSE "wallets",
             addrs |-> IF v.scope = "address" THEN {v.who} ELSE {},
             seen |-> [a \in Addrs |-> None], got |-> [a \in Addrs |-> None],
             blocks |-> {}, extent |-> 0]
  /\ UNCHANGED <<world, saved, walk>>

ReadWallets ==
  /\ req # None /\ req.stage = "wallets"
  /\ req' = [req EXCEPT !.addrs = wallets,
                        !.stage = IF req.kind = "grid" THEN "ids" ELSE "count"]
  /\ UNCHANGED <<world, saved, walk>>

CountOutputs == \E a \in Addrs :
  /\ req # None /\ req.stage = "count"
  /\ a \in TagAddrs(req) /\ req.seen[a] = None
  /\ req' = [req EXCEPT !.seen[a] = [outs |-> Held(a), gone |-> gone[a]]]
  /\ UNCHANGED <<world, saved, walk>>

(* 304 with no body, or on to the body.                                    *)
Revalidate ==
  /\ req # None /\ req.stage = "count" /\ Counted(req)
  /\ req' = IF EtagMatches(req) THEN None
            ELSE [req EXCEPT !.stage = "ids", !.tag = "none"]
  /\ UNCHANGED <<world, saved, walk>>

\* Mutant: an id is kept for every address that reports it.
FetchIds_LastReportWins == \E a \in Addrs :
  /\ req # None /\ req.stage = "ids"
  /\ a \in Fetched(req) /\ req.got[a] = None
  /\ req' = [req EXCEPT !.got[a] = Held(a) \cap Inscriptions]
  /\ UNCHANGED <<world, saved, walk>>

(* The answers are taken in the order they arrive, and an id belongs to    *)
(* the first address that reports it.                                      *)
FetchIds == \E a \in Addrs :
  /\ req # None /\ req.stage = "ids"
  /\ a \in Fetched(req) /\ req.got[a] = None
  /\ req' = [req EXCEPT !.got[a] = (Held(a) \cap Inscriptions) \ Ids(req)]
  /\ UNCHANGED <<world, saved, walk>>

RowsOf(ids) == {h \in 0..tip - 1 : RowOf[h] \in ids}

(* The rows of the cards are read by their ids and the answer is sent; of  *)
(* a profile's answer, the browser keeps what it may revalidate.           *)
SendCards ==
  /\ req # None /\ req.kind = "cards" /\ req.stage = "ids" /\ Gathered(req)
  /\ saved' = IF req.view.scope = "address" THEN saved
              ELSE [view |-> req.view, addrs |-> req.addrs,
                    seen |-> req.seen, got |-> req.got]
  /\ req' = None
  /\ UNCHANGED <<world, walk>>

ReadHeights ==
  /\ req # None /\ req.kind = "grid" /\ req.stage = "ids" /\ Gathered(req)
  /\ req' = [req EXCEPT !.blocks = {h \in 0..tip - 1 : RowOf[h] \in Ids(req)},
                        !.stage = IF Ids(req) = {} THEN "send" ELSE "max"]
  /\ UNCHANGED <<world, saved, walk>>

\* Mutant: the extent is the highest block, not one more.
ReadMax_Height ==
  /\ req # None /\ req.stage = "max"
  /\ req' = [req EXCEPT !.extent = IF tip = 0 THEN 0 ELSE tip - 1, !.stage = "send"]
  /\ UNCHANGED <<world, saved, walk>>

\* Mutant: the extent is one too large.
ReadMax_OneMore ==
  /\ req # None /\ req.stage = "max"
  /\ req' = [req EXCEPT !.extent = tip + 1, !.stage = "send"]
  /\ UNCHANGED <<world, saved, walk>>

(* COALESCE(MAX(block_height), 0) + 1                                      *)
ReadMax ==
  /\ req # None /\ req.stage = "max"
  /\ req' = [req EXCEPT !.extent = IF tip = 0 THEN 1 ELSE tip, !.stage = "send"]
  /\ UNCHANGED <<world, saved, walk>>

SendGrid ==
  /\ req # None /\ req.stage = "send"
  /\ req' = None
  /\ UNCHANGED <<world, saved, walk>>

(* ord or the database does not answer, or there is no such profile: 404   *)
(* or 500.                                                                 *)
Fail ==
  /\ req # None
  /\ req' = None
  /\ UNCHANGED <<world, saved, walk>>
-----------------------------------------------------------------------------
(* Turning pages: of the blocks with a trait, counted and then listed in   *)
(* block order, and of the children of a bitmap, whose number and indices  *)
(* come from one read of its inscription.  Blocks are imported in order    *)
(* and children numbered as they are inscribed, so a row is known by its   *)
(* position.  A visitor follows has_more until it is false.  The pages     *)
(* share with the portfolio the bitmaps table alone, so a visitor either   *)
(* turns pages from the first state on or looks at portfolios.             *)

Rows(kind) ==
  IF kind = "explore" THEN Cardinality({h \in Rare : h < tip}) ELSE kids

Walks ==
  [kind : {"explore", "children"}, stage : {"ask", "list"}, page : Nat,
   listed : SUBSET Nat, total : Nat, more : BOOLEAN]

Page(w) == {p \in 0..Rows(w.kind) - 1 : w.page * Limit <= p /\ p < (w.page + 1) * Limit}

FirstPage ==
  [kind : {"explore", "children"}, stage : {"ask"}, page : {0},
   listed : {{}}, total : {0}, more : {TRUE}]

CountRows ==
  /\ walk # None /\ walk.kind = "explore" /\ walk.stage = "ask" /\ walk.more
  /\ walk' = [walk EXCEPT !.total = Rows("explore"), !.stage = "list"]
  /\ UNCHANGED <<world, req, saved>>

\* Mutant: has_more compares this page alone with the total.
ListRows_NoOffset ==
  /\ walk # None /\ walk.stage = "list"
  /\ walk' = [walk EXCEPT !.listed = @ \cup Page(walk),
                          !.more = Cardinality(Page(walk)) < walk.total,
                          !.page = @ + 1, !.stage = "ask"]
  /\ UNCHANGED <<world, req, saved>>

ListRows ==
  /\ walk # None /\ walk.stage = "list"
  /\ walk' = [walk EXCEPT !.listed = @ \cup Page(walk),
                          !.more = walk.page * Limit + Cardinality(Page(walk)) < walk.total,
                          !.page = @ + 1, !.stage = "ask"]
  /\ UNCHANGED <<world, req, saved>>

ListChildren ==
  /\ walk # None /\ walk.kind = "children" /\ walk.more
  /\ walk' = [walk EXCEPT !.listed = @ \cup Page(walk), !.total = kids,
                          !.more = walk.page * Limit + Limit < kids,
                          !.page = @ + 1]
  /\ UNCHANGED <<world, req, saved>>

(* A read fails: the visitor asks for the page again.                      *)
RetryPage ==
  /\ walk # None /\ walk.stage = "list"
  /\ walk' = [walk EXCEPT !.stage = "ask"]
  /\ UNCHANGED <<world, req, saved>>

-----------------------------------------------------------------------------
Init ==
  /\ wallets = {}
  /\ holder = [o \in Outs |-> None]
  /\ gone = [a \in Addrs |-> 0]
  /\ tip = 0 /\ kids = 0
  /\ req = None /\ saved = None
  /\ walk \in FirstPage \cup {None}

World == LinkWallet \/ UnlinkWallet \/ Transfer \/ ImportBlock \/ InscribeChild
Portfolio == Ask \/ ReadWallets \/ CountOutputs \/ Revalidate \/ FetchIds
               \/ SendCards \/ ReadHeights \/ ReadMax \/ SendGrid \/ Fail
Walking == CountRows \/ ListRows \/ ListChildren \/ RetryPage

Next == World \/ Portfolio \/ Walking

Spec == Init /\ [][Next]_vars

-----------------------------------------------------------------------------
(* Types of the variables.                                                 *)
TypeOK ==
  /\ wallets \subseteq Addrs
  /\ holder \in [Outs -> Addrs \cup {None}]
  /\ gone \in [Addrs -> 0..MaxGone]
  /\ tip \in 0..MaxTip /\ kids \in 0..MaxKids
  /\ req \in Requests \cup {None}
  /\ saved \in [view : Views, addrs : SUBSET Addrs, seen : [Addrs -> Sight \cup {None}],
                got : [Addrs -> (SUBSET Inscriptions) \cup {None}]] \cup {None}
  /\ walk \in Walks \cup {None}

(* A request whose 304 rests on the saved answer's own ETag.               *)
Revalidated ==
  /\ req # None /\ req.stage = "count" /\ Counted(req)
  /\ req.tag = "saved" /\ Etag(req) = Etag(saved)

(* A 304 for a view whose ETag covers the whole profile confirms the       *)
(* wallets the saved answer lists: get_my_portfolio tags every address     *)
(* even when a ?wallet= filter shows one.                                  *)
ValidatedWalletsAreListed ==
  Revalidated /\ (req.view.scope = "mine" \/ req.view.who = None)
    => saved.addrs = req.addrs

(* A 304 hides nothing that only arrived: where the saved answer shows     *)
(* other inscriptions than an address held when its outputs were counted   *)
(* again, an output has left that address since it was counted for the     *)
(* saved answer, though the cards were read after the counts, at yet       *)
(* another moment for each address.                                        *)
NothingNewIsHidden ==
  Revalidated =>
    \A a \in Fetched(saved) :
      \/ saved.got[a] = req.seen[a].outs \cap Inscriptions
      \/ saved.seen[a].gone < req.seen[a].gone

(* A card has one owner, among the wallets shown, even when its            *)
(* inscription moved between two of them while their ids were fetched.     *)
EachCardHasOneOwner ==
  req # None => \A a, b \in Addrs :
    a # b /\ req.got[a] # None /\ req.got[b] # None
      => req.got[a] \cap req.got[b] = {} /\ {a, b} \subseteq req.addrs

(* The bitfield has a bit for every block that x-owned-count counts, though *)
(* the blocks and the extent of the grid are read at two moments.          *)
GridCountsBits ==
  req # None /\ req.kind = "grid" /\ req.stage = "send" =>
    \A h \in req.blocks : h < req.extent

(* The visitor who follows has_more skips no row: while it is true the     *)
(* next page continues where the listed rows end, which holds only if a    *)
(* page is full whenever more is announced after it; and when it is false  *)
(* every row counted has been listed.                                      *)
WalkMissesNothing ==
  walk # None =>
    LET due == IF walk.more THEN walk.page * Limit ELSE walk.total
    IN  \A p \in 0..due - 1 : p \in walk.listed
=============================================================================
