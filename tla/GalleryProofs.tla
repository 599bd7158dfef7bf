--------------------------- MODULE GalleryProofs ---------------------------
(***************************************************************************)
(* Proofs about Gallery, for any addresses, outputs, blocks and page size. *)
(***************************************************************************)
EXTENDS Gallery, FiniteSetTheorems, TLAPS

USE GalleryAssumption, NoneAssumption

-----------------------------------------------------------------------------
\* The inductive invariant.

\* How far a request is: what it has read by each stage, and that a 304 is
\* weighed against the answer that was saved for the same view.
Staged(r) ==
  /\ r.stage = "wallets" => \A a \in Addrs : r.seen[a] = None
  /\ r.stage \in {"wallets", "count"} => \A a \in Addrs : r.got[a] = None
  /\ r.kind = "cards" /\ r.stage = "ids" /\ r.view.scope # "address" => Counted(r)
  /\ \A a \in Addrs : r.seen[a] # None => a \in TagAddrs(r)

\* Ids belong to the addresses asked for, each to one of them.
Owned(r) ==
  /\ \A a \in Addrs : r.got[a] # None => a \in Fetched(r)
  /\ \A a, b \in Addrs :
       a # b /\ r.got[a] # None /\ r.got[b] # None => r.got[a] \cap r.got[b] = {}

\* The blocks found are in the table, and then within the extent.
Gridded(r, t) ==
  /\ r.stage = "max" => \A h \in r.blocks : h < t
  /\ r.stage = "send" => \A h \in r.blocks : h < r.extent

\* What a saved answer was made from.
Complete(s) ==
  /\ \A a \in Addrs : s.seen[a] # None <=> a \in TagAddrs(s)
  /\ \A a \in Fetched(s) : s.got[a] # None

\* While an address spends nothing it still has what it was seen to have: its
\* ids are among them, and no other address reports one of them.
HeldIn(h, a) == {o \in Outs : h[o] = a}

Sound(r, g, h) ==
  \A a \in Addrs : r.seen[a] # None =>
    /\ r.seen[a].gone <= g[a]
    /\ r.seen[a].gone = g[a] =>
         /\ r.seen[a].outs \subseteq HeldIn(h, a)
         /\ r.got[a] # None => /\ r.seen[a].outs \cap Inscriptions \subseteq r.got[a]
                               /\ r.got[a] \subseteq HeldIn(h, a)
         /\ \A b \in Addrs \ {a} :
              r.got[b] # None => r.got[b] \cap r.seen[a].outs = {}

\* The same between the saved answer and the counts of a new request.
Recounted(r, s) ==
  \A a \in Addrs : r.seen[a] # None /\ s.seen[a] # None =>
    /\ s.seen[a].gone <= r.seen[a].gone
    /\ s.seen[a].gone = r.seen[a].gone =>
         /\ s.seen[a].outs \subseteq r.seen[a].outs
         /\ s.got[a] # None => /\ s.seen[a].outs \cap Inscriptions \subseteq s.got[a]
                               /\ s.got[a] \subseteq r.seen[a].outs

ReqInv ==
  req # None =>
    /\ Staged(req) /\ Owned(req) /\ Gridded(req, tip) /\ Sound(req, gone, holder)
    /\ req.tag = "saved" =>
         saved # None /\ saved.view = req.view /\ Recounted(req, saved)

SavedInv == saved # None => Complete(saved) /\ Sound(saved, gone, holder)

\* The pages listed so far cover every row before the next page, or every row
\* counted when there is none; what was counted is still there.
WalkInv ==
  walk # None =>
    /\ IF walk.more THEN 0 .. walk.page * Limit - 1 \subseteq walk.listed
                    ELSE 0 .. walk.total - 1 \subseteq walk.listed
    /\ walk.stage = "list" =>
         walk.more /\ walk.kind = "explore" /\ walk.total <= Rows("explore")

IndInv == TypeOK /\ ReqInv /\ SavedInv /\ WalkInv

-----------------------------------------------------------------------------
\* Types.

Tables == [view : Views, addrs : SUBSET Addrs, seen : [Addrs -> Sight \cup {None}],
           got : [Addrs -> (SUBSET Inscriptions) \cup {None}]]

\* What is fetched and what is tagged are among the wallets read.
LEMMA Scopes ==
  ASSUME NEW r, r.addrs \subseteq Addrs
  PROVE  Fetched(r) \subseteq r.addrs /\ TagAddrs(r) \subseteq r.addrs
         /\ Fetched(r) \subseteq TagAddrs(r)
BY DEF Fetched, TagAddrs

\* Blocks are counted from 0.
LEMMA Blocks == ASSUME NEW n \in Nat PROVE IsFiniteSet(0 .. n - 1)
<1>1. 0 \in Int /\ n - 1 \in Int OBVIOUS
<1> QED BY <1>1, FS_Interval, Zenon

\* The rows that can be paged through are counted.
LEMMA RowsNat ==
  ASSUME TypeOK
  PROVE  Rows("explore") \in Nat /\ Rows("children") = kids
<1>1. IsFiniteSet(0 .. MaxTip - 1) BY Blocks
<1>2. {h \in Rare : h < tip} \subseteq 0 .. MaxTip - 1 OBVIOUS
<1>3. IsFiniteSet({h \in Rare : h < tip}) BY <1>1, <1>2, FS_Subset
<1> QED BY <1>3, FS_CardinalityType DEF Rows

\* Importing a block adds rows only.
LEMMA RowsGrow ==
  ASSUME TypeOK, [Next]_vars
  PROVE  Rows("explore")' \in Nat /\ Rows("explore") <= Rows("explore")'
<1> DEFINE S(n) == {h \in Rare : h < n}
<1>1. IsFiniteSet(0 .. MaxTip - 1) BY Blocks
<1>2. S(tip) \subseteq S(tip + 1) /\ S(tip + 1) \subseteq 0 .. MaxTip - 1
  <2>1. tip \in Nat BY DEF TypeOK
  <2>2. \A h \in Rare : h \in 0 .. MaxTip - 1 OBVIOUS
  <2> QED BY <2>1, <2>2
<1> HIDE DEF S
<1>3. IsFiniteSet(S(tip + 1)) BY <1>1, <1>2, FS_Subset
<1>4. /\ Cardinality(S(tip)) <= Cardinality(S(tip + 1)) /\ IsFiniteSet(S(tip))
  BY <1>2, <1>3, FS_Subset
<1>5. Cardinality(S(tip)) \in Nat /\ Cardinality(S(tip + 1)) \in Nat
  BY <1>3, <1>4, FS_CardinalityType
<1>6. Rows("explore") = Cardinality(S(tip)) /\ Rows("explore")' = Cardinality(S(tip'))
  BY DEF Rows, S
<1>7. tip' = tip \/ tip' = tip + 1
  BY DEF Next, World, Portfolio, Walking, vars, world, LinkWallet, UnlinkWallet,
     Transfer, ImportBlock, InscribeChild, Ask, ReadWallets, CountOutputs, Revalidate,
     FetchIds, SendCards, ReadHeights, ReadMax, SendGrid, Fail, CountRows, ListRows,
     ListChildren, RetryPage
<1> QED BY <1>4, <1>5, <1>6, <1>7

\* What a step does to the request and to the saved answer.
LEMMA ReqSteps ==
  ASSUME [Next]_vars
  PROVE  \/ UNCHANGED <<req, saved>>
         \/ UNCHANGED <<wallets, holder, gone, tip, kids>> /\ req' = None
              /\ (SendCards \/ saved' = saved)
         \/ Ask \/ ReadWallets \/ CountOutputs \/ Revalidate \/ FetchIds
         \/ ReadHeights \/ ReadMax
BY DEF Next, World, Portfolio, Walking, vars, world, LinkWallet, UnlinkWallet,
   Transfer, ImportBlock, InscribeChild, SendCards, SendGrid, Fail, CountRows,
   ListRows, ListChildren, RetryPage

\* The types of a request are kept.
LEMMA ReqTyped ==
  ASSUME TypeOK, [Next]_vars
  PROVE  req' \in Requests \cup {None}
<1>1. CASE UNCHANGED req BY <1>1 DEF TypeOK
<1>2. CASE req' = None BY <1>2
<1>3. CASE Ask
  <2> DEFINE blank == [a \in Addrs |-> None]
             stage(v) == IF v.scope = "address" THEN "ids" ELSE "wallets"
             addrs(v) == IF v.scope = "address" THEN {v.who} ELSE {}
  <2>1. PICK kind \in {"cards", "grid"}, v \in Views, t \in {"none", "any", "saved"} :
          req' = [kind |-> kind, view |-> v, tag |-> t, stage |-> stage(v),
                  addrs |-> addrs(v), seen |-> blank, got |-> blank,
                  blocks |-> {}, extent |-> 0]
    BY <1>3, Zenon DEF Ask
  <2>2. v.scope = "address" => v.who \in Addrs BY DEF Views
  <2>3. /\ stage(v) \in {"wallets", "count", "ids", "max", "send"}
        /\ addrs(v) \in SUBSET Addrs
        /\ blank \in [Addrs -> Sight \cup {None}]
        /\ blank \in [Addrs -> (SUBSET Inscriptions) \cup {None}]
        /\ {} \in SUBSET (0 .. MaxTip - 1) /\ 0 \in 0 .. MaxTip
    BY <2>2
  <2> HIDE DEF blank, stage, addrs
  <2> QED BY <2>1, <2>3 DEF Requests
<1>4. CASE ReadWallets
  BY <1>4 DEF ReadWallets, TypeOK, Requests
<1>5. CASE CountOutputs
  <2>1. PICK a \in Addrs :
          /\ req # None
          /\ req' = [req EXCEPT !.seen[a] = [outs |-> Held(a), gone |-> gone[a]]]
    BY <1>5 DEF CountOutputs
  <2>2. [outs |-> Held(a), gone |-> gone[a]] \in Sight BY DEF TypeOK, Sight, Held
  <2> QED BY <2>1, <2>2 DEF TypeOK, Requests
<1>6. CASE Revalidate
  BY <1>6 DEF Revalidate, TypeOK, Requests
<1>7. CASE FetchIds
  <2>1. PICK a \in Addrs :
          /\ req # None
          /\ req' = [req EXCEPT !.got[a] = (Held(a) \cap Inscriptions) \ Ids(req)]
    BY <1>7 DEF FetchIds
  <2>2. (Held(a) \cap Inscriptions) \ Ids(req) \in SUBSET Inscriptions OBVIOUS
  <2> QED BY <2>1, <2>2 DEF TypeOK, Requests
<1>8. CASE ReadHeights
  <2>1. {h \in 0 .. tip - 1 : RowOf[h] \in Ids(req)} \subseteq 0 .. MaxTip - 1
    BY DEF TypeOK
  <2> QED BY <1>8, <2>1 DEF ReadHeights, TypeOK, Requests
<1>9. CASE ReadMax
  <2> DEFINE n == IF tip = 0 THEN 1 ELSE tip
  <2>1. n \in 0 .. MaxTip BY DEF TypeOK
  <2>2. req \in Requests /\ req' = [req EXCEPT !.extent = n, !.stage = "send"]
    BY <1>9 DEF ReadMax, TypeOK
  <2> HIDE DEF n
  <2> QED BY <2>1, <2>2 DEF Requests
<1> QED BY <1>1, <1>2, <1>3, <1>4, <1>5, <1>6, <1>7, <1>8, <1>9, ReqSteps

\* The types of the saved answer are kept.
LEMMA SavedTyped ==
  ASSUME TypeOK, [Next]_vars
  PROVE  saved' \in Tables \cup {None}
<1>1. CASE saved' = saved BY <1>1 DEF TypeOK, Tables
<1>2. CASE SendCards
  BY <1>2 DEF SendCards, TypeOK, Requests, Tables
<1>3. saved' = saved \/ SendCards
  BY ReqSteps DEF Ask, ReadWallets, CountOutputs, Revalidate, FetchIds, ReadHeights,
     ReadMax
<1> QED BY <1>1, <1>2, <1>3

\* The types of a walk are kept.
LEMMA WalkTyped ==
  ASSUME TypeOK, [Next]_vars
  PROVE  walk' \in Walks \cup {None}
<1>1. Rows("explore") \in Nat /\ Rows("children") = kids BY RowsNat
<1>2. CASE UNCHANGED walk BY <1>2 DEF TypeOK
<1>3. CASE CountRows BY <1>1, <1>3 DEF CountRows, TypeOK, Walks
<1>4. Page(walk) \subseteq Nat BY DEF Page
<1>5. CASE ListRows
  <2> DEFINE more == walk.page * Limit + Cardinality(Page(walk)) < walk.total
             listed == walk.listed \cup Page(walk)
  <2>1. /\ walk \in Walks
        /\ walk' = [walk EXCEPT !.listed = listed, !.more = more,
                                !.page = walk.page + 1, !.stage = "ask"]
    BY <1>5 DEF ListRows, TypeOK
  <2>2. more \in BOOLEAN /\ listed \in SUBSET Nat /\ walk.page + 1 \in Nat
    BY <1>4, <2>1 DEF Walks
  <2> HIDE DEF more, listed
  <2> QED BY <2>1, <2>2 DEF Walks
<1>6. CASE ListChildren
  <2> DEFINE more == walk.page * Limit + Limit < kids
             listed == walk.listed \cup Page(walk)
  <2>1. /\ walk \in Walks /\ kids \in Nat
        /\ walk' = [walk EXCEPT !.listed = listed, !.total = kids, !.more = more,
                                !.page = walk.page + 1]
    BY <1>6 DEF ListChildren, TypeOK
  <2>2. more \in BOOLEAN /\ listed \in SUBSET Nat /\ walk.page + 1 \in Nat
    BY <1>4, <2>1 DEF Walks
  <2> HIDE DEF more, listed
  <2> QED BY <2>1, <2>2 DEF Walks
<1>7. CASE RetryPage BY <1>7 DEF RetryPage, TypeOK, Walks
<1>8. UNCHANGED walk \/ Walking
  BY DEF Next, World, Portfolio, vars, LinkWallet, UnlinkWallet, Transfer, ImportBlock,
     InscribeChild, Ask, ReadWallets, CountOutputs, Revalidate, FetchIds, SendCards,
     ReadHeights, ReadMax, SendGrid, Fail
<1> QED BY <1>2, <1>3, <1>5, <1>6, <1>7, <1>8 DEF Walking

\* The types of the world are kept, and outputs leave addresses one at a time.
LEMMA WorldTyped ==
  ASSUME TypeOK, [Next]_vars
  PROVE  /\ wallets' \subseteq Addrs /\ holder' \in [Outs -> Addrs \cup {None}]
         /\ gone' \in [Addrs -> 0 .. MaxGone]
         /\ tip' \in 0 .. MaxTip /\ tip <= tip' /\ kids' \in 0 .. MaxKids
<1>1. CASE LinkWallet BY <1>1 DEF LinkWallet, TypeOK
<1>2. CASE UnlinkWallet BY <1>2 DEF UnlinkWallet, TypeOK
<1>3. CASE Transfer
  <2>1. PICK o \in Outs, b \in Addrs \cup {None} :
          /\ \/ holder[o] = None /\ UNCHANGED gone
             \/ /\ holder[o] # None /\ gone[holder[o]] < MaxGone
                /\ gone' = [gone EXCEPT ![holder[o]] = @ + 1]
          /\ holder' = [holder EXCEPT ![o] = b]
          /\ UNCHANGED <<wallets, tip, kids, req, saved, walk>>
    BY <1>3 DEF Transfer
  <2>2. holder' \in [Outs -> Addrs \cup {None}] BY <2>1 DEF TypeOK
  <2>3. gone' \in [Addrs -> 0 .. MaxGone] BY <2>1 DEF TypeOK
  <2> QED BY <2>1, <2>2, <2>3 DEF TypeOK
<1>4. CASE ImportBlock BY <1>4 DEF ImportBlock, TypeOK
<1>5. CASE InscribeChild BY <1>5 DEF InscribeChild, TypeOK
<1>6. CASE UNCHANGED world BY <1>6 DEF world, TypeOK
<1>7. World \/ UNCHANGED world
  BY DEF Next, Portfolio, Walking, vars, world, Ask, ReadWallets, CountOutputs, Revalidate,
     FetchIds, SendCards, ReadHeights, ReadMax, SendGrid, Fail, CountRows, ListRows,
     ListChildren, RetryPage
<1> QED BY <1>1, <1>2, <1>3, <1>4, <1>5, <1>6, <1>7 DEF World

LEMMA StepTyped == TypeOK /\ [Next]_vars => TypeOK'
BY ReqTyped, SavedTyped, WalkTyped, WorldTyped DEF TypeOK, Tables

-----------------------------------------------------------------------------
\* Requests.

\* An address that spends nothing keeps what it has, and one that spends more
\* is not what it was seen to be.
LEMMA SoundKept ==
  ASSUME TypeOK, [Next]_vars, NEW r, Sound(r, gone, holder),
         \A a \in Addrs : r.seen[a] # None => r.seen[a].gone \in Nat
  PROVE  Sound(r, gone', holder')
<1>1. CASE UNCHANGED <<gone, holder>> BY <1>1
<1>2. CASE Transfer
  <2>1. PICK o \in Outs, b \in Addrs \cup {None} :
          /\ \/ holder[o] = None /\ UNCHANGED gone
             \/ /\ holder[o] # None /\ gone[holder[o]] < MaxGone
                /\ gone' = [gone EXCEPT ![holder[o]] = @ + 1]
          /\ holder' = [holder EXCEPT ![o] = b]
    BY <1>2 DEF Transfer
  <2>2. ASSUME NEW a \in Addrs
        PROVE  /\ gone[a] \in Nat /\ gone'[a] \in Nat /\ gone[a] <= gone'[a]
               /\ gone'[a] = gone[a] => HeldIn(holder, a) \subseteq HeldIn(holder', a)
    <3>1. CASE holder[o] = a
      <4>1. gone' = [gone EXCEPT ![a] = @ + 1] BY <2>1, <3>1
      <4> QED BY <4>1 DEF TypeOK
    <3>2. CASE holder[o] # a
      <4>1. gone'[a] = gone[a] /\ gone[a] \in Nat BY <2>1, <3>2 DEF TypeOK
      <4>2. HeldIn(holder, a) \subseteq HeldIn(holder', a)
        BY <2>1, <3>2 DEF HeldIn, TypeOK
      <4> QED BY <4>1, <4>2
    <3> QED BY <3>1, <3>2
  <2>3. ASSUME NEW a \in Addrs, r.seen[a] # None
        PROVE  /\ r.seen[a].gone <= gone'[a]
               /\ r.seen[a].gone = gone'[a] =>
                    r.seen[a].gone = gone[a] /\ gone'[a] = gone[a]
    BY <2>2, <2>3 DEF Sound
  <2> QED BY <2>2, <2>3 DEF Sound
<1>3. Transfer \/ UNCHANGED <<gone, holder>>
  BY DEF Next, World, Portfolio, Walking, vars, world, LinkWallet, UnlinkWallet,
     ImportBlock, InscribeChild, Ask, ReadWallets, CountOutputs, Revalidate,
     FetchIds, SendCards, ReadHeights, ReadMax, SendGrid, Fail, CountRows, ListRows,
     ListChildren, RetryPage
<1> QED BY <1>1, <1>2, <1>3

\* What is read of an address, in the sense of Sound.
LEMMA SeenTyped ==
  ASSUME TypeOK
  PROVE  /\ req # None => \A a \in Addrs : req.seen[a] # None =>
              /\ req.seen[a].gone \in Nat /\ req.seen[a].outs \subseteq Outs
         /\ saved # None => \A a \in Addrs : saved.seen[a] # None =>
              /\ saved.seen[a].gone \in Nat /\ saved.seen[a].outs \subseteq Outs
BY DEF TypeOK, Requests, Sight

\* A saved answer that is kept stays sound.
LEMMA SavedKept ==
  ASSUME IndInv, [Next]_vars, saved' = saved
  PROVE  SavedInv'
<1> SUFFICES ASSUME saved # None PROVE Complete(saved) /\ Sound(saved, gone', holder')
  BY DEF SavedInv
<1>1. Complete(saved) /\ Sound(saved, gone, holder) BY DEF IndInv, SavedInv
<1> QED BY <1>1, SeenTyped, SoundKept DEF IndInv

\* The world moves, or pages are turned, under a request.
LEMMA ReqKept ==
  ASSUME IndInv, [Next]_vars, UNCHANGED <<req, saved>>
  PROVE  ReqInv'
<1> SUFFICES ASSUME req # None
             PROVE  /\ Staged(req) /\ Owned(req) /\ Gridded(req, tip')
                    /\ Sound(req, gone', holder')
                    /\ req.tag = "saved" =>
                         saved # None /\ saved.view = req.view /\ Recounted(req, saved)
  BY DEF ReqInv
<1>1. /\ Staged(req) /\ Owned(req) /\ Gridded(req, tip) /\ Sound(req, gone, holder)
      /\ req.tag = "saved" =>
           saved # None /\ saved.view = req.view /\ Recounted(req, saved)
  BY DEF IndInv, ReqInv
<1>2. Gridded(req, tip')
  <2>1. tip \in Nat /\ tip' \in Nat /\ tip <= tip' BY WorldTyped DEF IndInv, TypeOK
  <2>2. req.blocks \subseteq Nat BY DEF IndInv, TypeOK, Requests
  <2> QED BY <1>1, <2>1, <2>2 DEF Gridded
<1> QED BY <1>1, <1>2, SeenTyped, SoundKept DEF IndInv

\* A request is made: nothing is read yet.
LEMMA AskInv ==
  ASSUME IndInv, Ask
  PROVE  ReqInv' /\ SavedInv'
<1> DEFINE blank == [a \in Addrs |-> None]
<1>1. PICK kind \in {"cards", "grid"}, v \in Views, t \in {"none", "any", "saved"} :
        /\ IF saved = None THEN t = "none" ELSE t # "none" /\ saved.view = v
        /\ req' = [kind |-> kind, view |-> v, tag |-> t,
                   stage |-> IF v.scope = "address" THEN "ids" ELSE "wallets",
                   addrs |-> IF v.scope = "address" THEN {v.who} ELSE {},
                   seen |-> blank, got |-> blank, blocks |-> {}, extent |-> 0]
        /\ UNCHANGED <<world, saved, walk>>
  BY Zenon DEF Ask
<1>2. \A a \in Addrs : blank[a] = None OBVIOUS
<1> HIDE DEF blank
<1>3. /\ req'.view = v /\ req'.tag = t /\ req'.seen = blank /\ req'.got = blank
      /\ req'.stage = (IF v.scope = "address" THEN "ids" ELSE "wallets")
  BY <1>1
<1>4. Staged(req') BY <1>2, <1>3 DEF Staged
<1>5. Owned(req') BY <1>2, <1>3 DEF Owned
<1>6. Gridded(req', tip') BY <1>3 DEF Gridded
<1>7. Sound(req', gone', holder') BY <1>2, <1>3 DEF Sound
<1>8. saved # None => Recounted(req', saved) BY <1>2, <1>3 DEF Recounted
<1>9. t = "saved" => saved # None /\ saved.view = v BY <1>1
<1>10. ReqInv' BY <1>1, <1>3, <1>4, <1>5, <1>6, <1>7, <1>8, <1>9 DEF ReqInv
<1>11. SavedInv' BY <1>1 DEF world, SavedInv, IndInv
<1> QED BY <1>10, <1>11

\* The wallets are read.
LEMMA WalletsInv ==
  ASSUME IndInv, ReadWallets
  PROVE  ReqInv' /\ SavedInv'
<1>1. /\ req # None /\ req \in Requests /\ req.stage = "wallets"
      /\ req' = [req EXCEPT !.addrs = wallets,
                            !.stage = IF req.kind = "grid" THEN "ids" ELSE "count"]
      /\ UNCHANGED <<wallets, holder, gone, tip, kids, saved, walk>>
  BY DEF ReadWallets, IndInv, TypeOK, world
<1>2. /\ req'.view = req.view /\ req'.tag = req.tag /\ req'.kind = req.kind
      /\ req'.seen = req.seen /\ req'.got = req.got
      /\ req'.stage = (IF req.kind = "grid" THEN "ids" ELSE "count")
  BY <1>1 DEF Requests
<1>3. \A a \in Addrs : req.seen[a] = None /\ req.got[a] = None
  BY <1>1 DEF IndInv, ReqInv, Staged
<1>4. Staged(req') BY <1>2, <1>3 DEF Staged
<1>5. Owned(req') BY <1>2, <1>3 DEF Owned
<1>6. Gridded(req', tip') BY <1>2 DEF Gridded
<1>7. Sound(req', gone', holder') BY <1>2, <1>3 DEF Sound
<1>8. req.tag = "saved" => saved # None /\ saved.view = req.view BY <1>1 DEF IndInv, ReqInv
<1>9. Recounted(req', saved) BY <1>2, <1>3 DEF Recounted
<1>10. ReqInv' BY <1>1, <1>2, <1>4, <1>5, <1>6, <1>7, <1>8, <1>9 DEF ReqInv
<1>11. SavedInv' BY <1>1 DEF SavedInv, IndInv
<1> QED BY <1>10, <1>11

\* The outputs of an address are counted.
LEMMA CountInv ==
  ASSUME IndInv, CountOutputs
  PROVE  ReqInv' /\ SavedInv'
<1>1. PICK c \in Addrs :
        /\ req # None /\ req.stage = "count" /\ c \in TagAddrs(req) /\ req.seen[c] = None
        /\ req' = [req EXCEPT !.seen[c] = [outs |-> Held(c), gone |-> gone[c]]]
        /\ UNCHANGED <<wallets, holder, gone, tip, kids, saved, walk>>
  BY Zenon DEF CountOutputs, world
<1>2. req \in Requests /\ req.seen \in [Addrs -> Sight \cup {None}]
  BY <1>1 DEF IndInv, TypeOK, Requests
<1> DEFINE sight == [outs |-> Held(c), gone |-> gone[c]]
<1>3. /\ req'.view = req.view /\ req'.tag = req.tag /\ req'.kind = req.kind
      /\ req'.stage = "count" /\ req'.got = req.got /\ req'.addrs = req.addrs
      /\ req'.seen = [req.seen EXCEPT ![c] = sight]
  BY <1>1, <1>2 DEF Requests
<1>4. /\ req'.seen[c] = sight /\ sight.outs = HeldIn(holder, c) /\ sight.gone = gone[c]
      /\ \A a \in Addrs \ {c} : req'.seen[a] = req.seen[a]
  BY <1>2, <1>3 DEF Held, HeldIn
<1>5. \A a \in Addrs : req.got[a] = None
  BY <1>1 DEF IndInv, ReqInv, Staged
<1>6. gone[c] \in Nat BY DEF IndInv, TypeOK
<1> HIDE DEF sight
<1>7. Staged(req')
  <2>1. TagAddrs(req') = TagAddrs(req) BY <1>3 DEF TagAddrs, Fetched
  <2>2. \A a \in Addrs : req.seen[a] # None => a \in TagAddrs(req)
    BY <1>1 DEF IndInv, ReqInv, Staged
  <2>3. \A a \in Addrs : req'.seen[a] # None => a \in TagAddrs(req)
    BY <1>1, <1>4, <2>2
  <2> QED BY <1>3, <1>5, <2>1, <2>3 DEF Staged
<1>8. Owned(req') BY <1>3, <1>5 DEF Owned
<1>9. Gridded(req', tip') BY <1>3 DEF Gridded
<1>10. Sound(req', gone', holder')
  <2>1. Sound(req, gone, holder) BY <1>1 DEF IndInv, ReqInv
  <2>2. ASSUME NEW a \in Addrs, req'.seen[a] # None
        PROVE  /\ req'.seen[a].gone <= gone[a]
               /\ req'.seen[a].gone = gone[a] => req'.seen[a].outs \subseteq HeldIn(holder, a)
    BY <1>4, <1>6, <2>1, <2>2 DEF Sound
  <2> QED BY <1>1, <1>3, <1>5, <2>2 DEF Sound
<1>11. ASSUME req.tag = "saved"
       PROVE  saved # None /\ saved.view = req.view /\ Recounted(req', saved)
  <2>1. saved # None /\ saved.view = req.view /\ Recounted(req, saved)
    BY <1>1, <1>11 DEF IndInv, ReqInv
  <2>2. Sound(saved, gone, holder) BY <2>1 DEF IndInv, SavedInv
  <2>3. ASSUME saved.seen[c] # None
        PROVE  /\ saved.seen[c].gone <= req'.seen[c].gone
               /\ saved.seen[c].gone = req'.seen[c].gone =>
                    /\ saved.seen[c].outs \subseteq req'.seen[c].outs
                    /\ saved.got[c] # None =>
                         /\ saved.seen[c].outs \cap Inscriptions \subseteq saved.got[c]
                         /\ saved.got[c] \subseteq req'.seen[c].outs
    BY <1>4, <2>2, <2>3 DEF Sound
  <2> QED BY <1>4, <2>1, <2>3 DEF Recounted
<1>12. ReqInv' BY <1>1, <1>3, <1>7, <1>8, <1>9, <1>10, <1>11 DEF ReqInv
<1>13. SavedInv' BY <1>1 DEF SavedInv, IndInv
<1> QED BY <1>12, <1>13

\* The counts differ from those of the saved answer, or there is none.
LEMMA RevalidateInv ==
  ASSUME IndInv, Revalidate
  PROVE  ReqInv' /\ SavedInv'
<1>1. /\ req # None /\ req \in Requests /\ req.stage = "count" /\ Counted(req)
      /\ req' = None \/ req' = [req EXCEPT !.stage = "ids", !.tag = "none"]
      /\ UNCHANGED <<wallets, holder, gone, tip, kids, saved, walk>>
  BY DEF Revalidate, IndInv, TypeOK, world
<1>2. SavedInv' BY <1>1 DEF SavedInv, IndInv
<1>3. CASE req' = None BY <1>2, <1>3 DEF ReqInv
<1>4. CASE req' = [req EXCEPT !.stage = "ids", !.tag = "none"]
  <2>1. /\ req'.view = req.view /\ req'.tag = "none" /\ req'.kind = req.kind
        /\ req'.stage = "ids" /\ req'.got = req.got /\ req'.addrs = req.addrs
        /\ req'.seen = req.seen
    BY <1>1, <1>4 DEF Requests
  <2>2. Staged(req) /\ Owned(req) /\ Sound(req, gone, holder)
    BY <1>1 DEF IndInv, ReqInv
  <2>3. TagAddrs(req') = TagAddrs(req) /\ Fetched(req') = Fetched(req)
    BY <2>1 DEF TagAddrs, Fetched
  <2>4. Staged(req') BY <1>1, <2>1, <2>2, <2>3 DEF Staged, Counted
  <2>5. Owned(req') BY <2>1, <2>2, <2>3 DEF Owned
  <2>6. Gridded(req', tip') BY <2>1 DEF Gridded
  <2>7. Sound(req', gone', holder') BY <1>1, <2>1, <2>2 DEF Sound
  <2>8. ReqInv' BY <2>1, <2>4, <2>5, <2>6, <2>7 DEF ReqInv
  <2> QED BY <1>2, <2>8
<1> QED BY <1>1, <1>3, <1>4

\* The ids of an address are fetched.
LEMMA FetchInv ==
  ASSUME IndInv, FetchIds
  PROVE  ReqInv' /\ SavedInv'
<1> DEFINE new(c) == (Held(c) \cap Inscriptions) \ Ids(req)
<1>1. PICK c \in Addrs :
        /\ req # None /\ req.stage = "ids" /\ c \in Fetched(req) /\ req.got[c] = None
        /\ req' = [req EXCEPT !.got[c] = new(c)]
        /\ UNCHANGED <<wallets, holder, gone, tip, kids, saved, walk>>
  BY Zenon DEF FetchIds, world
<1>2. /\ req \in Requests /\ req.got \in [Addrs -> (SUBSET Inscriptions) \cup {None}]
  BY <1>1 DEF IndInv, TypeOK, Requests
<1>3. /\ req'.view = req.view /\ req'.tag = req.tag /\ req'.kind = req.kind
      /\ req'.stage = "ids" /\ req'.seen = req.seen /\ req'.addrs = req.addrs
      /\ req'.got = [req.got EXCEPT ![c] = new(c)]
  BY <1>1, <1>2 DEF Requests
<1>4. /\ req'.got[c] = new(c) /\ new(c) \subseteq HeldIn(holder, c)
      /\ \A a \in Addrs \ {c} : req'.got[a] = req.got[a]
  BY <1>2, <1>3 DEF Held, HeldIn
<1>5. ASSUME NEW a \in Addrs, req.got[a] # None PROVE new(c) \cap req.got[a] = {}
  BY <1>5 DEF Ids
<1>6. ASSUME NEW i \in HeldIn(holder, c) \cap Inscriptions, i \notin new(c)
      PROVE  \E a \in Addrs \ {c} : req.got[a] # None /\ i \in req.got[a]
  BY <1>1, <1>6 DEF Ids, Held, HeldIn
<1> HIDE DEF new
<1>7. Staged(req) /\ Owned(req) /\ Sound(req, gone, holder)
  BY <1>1 DEF IndInv, ReqInv
<1>8. TagAddrs(req') = TagAddrs(req) /\ Fetched(req') = Fetched(req)
  BY <1>3 DEF TagAddrs, Fetched
<1>9. Staged(req') BY <1>1, <1>3, <1>7, <1>8 DEF Staged, Counted
<1>10. Owned(req') BY <1>1, <1>4, <1>5, <1>7, <1>8 DEF Owned
<1>11. Gridded(req', tip') BY <1>3 DEF Gridded
<1>12. Sound(req', gone, holder)
  <2> SUFFICES ASSUME NEW a \in Addrs, req.seen[a] # None
               PROVE  /\ req.seen[a].gone <= gone[a]
                      /\ req.seen[a].gone = gone[a] =>
                           /\ req.seen[a].outs \subseteq HeldIn(holder, a)
                           /\ req'.got[a] # None =>
                                /\ req.seen[a].outs \cap Inscriptions \subseteq req'.got[a]
                                /\ req'.got[a] \subseteq HeldIn(holder, a)
                           /\ \A b \in Addrs \ {a} :
                                req'.got[b] # None => req'.got[b] \cap req.seen[a].outs = {}
    BY <1>3 DEF Sound
  <2>1. req.seen[a].gone <= gone[a] BY <1>7 DEF Sound
  <2>2. SUFFICES ASSUME req.seen[a].gone = gone[a]
                 PROVE  /\ req.seen[a].outs \subseteq HeldIn(holder, a)
                        /\ req'.got[a] # None =>
                             /\ req.seen[a].outs \cap Inscriptions \subseteq req'.got[a]
                             /\ req'.got[a] \subseteq HeldIn(holder, a)
                        /\ \A b \in Addrs \ {a} :
                             req'.got[b] # None => req'.got[b] \cap req.seen[a].outs = {}
    BY <2>1
  <2>3. /\ req.seen[a].outs \subseteq HeldIn(holder, a)
        /\ req.got[a] # None => /\ req.seen[a].outs \cap Inscriptions \subseteq req.got[a]
                                /\ req.got[a] \subseteq HeldIn(holder, a)
        /\ \A b \in Addrs \ {a} : req.got[b] # None => req.got[b] \cap req.seen[a].outs = {}
    BY <1>7, <2>2 DEF Sound
  <2>4. CASE a = c
    <3>1. req.seen[a].outs \cap Inscriptions \subseteq new(c)
      BY <1>6, <2>3, <2>4
    <3> QED BY <1>4, <2>3, <2>4, <3>1
  <2>5. CASE a # c
    <3>1. new(c) \cap req.seen[a].outs = {}
      BY <1>4, <2>3, <2>5 DEF HeldIn
    <3> QED BY <1>4, <2>3, <2>5, <3>1
  <2> QED BY <2>4, <2>5
<1>13. ASSUME req.tag = "saved"
       PROVE  saved # None /\ saved.view = req.view /\ Recounted(req', saved)
  BY <1>1, <1>3, <1>13 DEF IndInv, ReqInv, Recounted
<1>14. ReqInv' BY <1>1, <1>3, <1>9, <1>10, <1>11, <1>12, <1>13 DEF ReqInv
<1>15. SavedInv' BY <1>1 DEF SavedInv, IndInv
<1> QED BY <1>14, <1>15

\* The rows of the ids are found, and then the extent of the grid.
LEMMA GridInv ==
  ASSUME IndInv, ReadHeights \/ ReadMax
  PROVE  ReqInv' /\ SavedInv'
<1>1. /\ req # None /\ req \in Requests
      /\ UNCHANGED <<wallets, holder, gone, tip, kids, saved, walk>>
      /\ Staged(req) /\ Owned(req) /\ Gridded(req, tip) /\ Sound(req, gone, holder)
      /\ tip \in Nat /\ req.blocks \subseteq Nat
  BY DEF ReadHeights, ReadMax, IndInv, ReqInv, TypeOK, Requests, world
<1>2. /\ req'.view = req.view /\ req'.tag = req.tag /\ req'.kind = req.kind
      /\ req'.stage \in {"max", "send"} /\ req'.seen = req.seen /\ req'.got = req.got
      /\ req'.addrs = req.addrs
  <2>1. CASE ReadHeights BY <1>1, <2>1 DEF ReadHeights, Requests
  <2>2. CASE ReadMax BY <1>1, <2>2 DEF ReadMax, Requests
  <2> QED BY <2>1, <2>2
<1>3. Gridded(req', tip')
  <2>1. CASE ReadHeights
    <3> DEFINE blocks == {h \in 0 .. tip - 1 : RowOf[h] \in Ids(req)}
               stage == IF Ids(req) = {} THEN "send" ELSE "max"
    <3>1. req'.blocks = blocks /\ req'.stage = stage
      BY <1>1, <2>1 DEF ReadHeights, Requests
    <3>2. /\ \A h \in blocks : h < tip
          /\ stage = "send" => blocks = {}
      BY <1>1
    <3> HIDE DEF blocks, stage
    <3> QED BY <1>1, <3>1, <3>2 DEF Gridded
  <2>2. CASE ReadMax
    <3>1. /\ req.stage = "max" /\ req'.stage = "send" /\ req'.blocks = req.blocks
          /\ req'.extent = IF tip = 0 THEN 1 ELSE tip
      BY <1>1, <2>2 DEF ReadMax, Requests
    <3>2. \A h \in req.blocks : h < tip BY <1>1, <3>1 DEF Gridded
    <3> QED BY <1>1, <3>1, <3>2 DEF Gridded
  <2> QED BY <2>1, <2>2
<1>4. TagAddrs(req') = TagAddrs(req) /\ Fetched(req') = Fetched(req)
  BY <1>2 DEF TagAddrs, Fetched
<1>5. Staged(req') BY <1>1, <1>2, <1>4 DEF Staged
<1>6. Owned(req') BY <1>1, <1>2, <1>4 DEF Owned
<1>7. Sound(req', gone', holder') BY <1>1, <1>2 DEF Sound
<1>8. ASSUME req.tag = "saved"
      PROVE  saved # None /\ saved.view = req.view /\ Recounted(req', saved)
  BY <1>1, <1>2, <1>8 DEF IndInv, ReqInv, Recounted
<1>9. ReqInv' BY <1>1, <1>2, <1>3, <1>5, <1>6, <1>7, <1>8 DEF ReqInv
<1>10. SavedInv' BY <1>1 DEF SavedInv, IndInv
<1> QED BY <1>9, <1>10

\* The answer is sent and kept: it has what its ETag and its cards were made of.
LEMMA SentInv ==
  ASSUME IndInv, SendCards
  PROVE  ReqInv' /\ SavedInv'
<1>1. /\ req # None /\ req \in Requests /\ req.kind = "cards" /\ req.stage = "ids"
      /\ Gathered(req) /\ req' = None
      /\ saved' = IF req.view.scope = "address" THEN saved
                  ELSE [view |-> req.view, addrs |-> req.addrs,
                        seen |-> req.seen, got |-> req.got]
      /\ UNCHANGED <<wallets, holder, gone, tip, kids, walk>>
  BY DEF SendCards, IndInv, TypeOK, world
<1>2. ReqInv' BY <1>1 DEF ReqInv
<1>3. CASE req.view.scope = "address"
  BY <1>1, <1>2, <1>3 DEF SavedInv, IndInv
<1>4. CASE req.view.scope # "address"
  <2>1. /\ saved'.view = req.view /\ saved'.addrs = req.addrs
        /\ saved'.seen = req.seen /\ saved'.got = req.got
    BY <1>1, <1>4
  <2>2. Staged(req) /\ Sound(req, gone, holder) BY <1>1 DEF IndInv, ReqInv
  <2>3. Counted(req) BY <1>1, <1>4, <2>2 DEF Staged
  <2>4. TagAddrs(saved') = TagAddrs(req) /\ Fetched(saved') = Fetched(req)
    <3>1. Fetched(saved') = Fetched(req) BY <2>1 DEF Fetched
    <3> QED BY <2>1, <3>1 DEF TagAddrs
  <2>5. Complete(saved')
    BY <1>1, <2>1, <2>2, <2>3, <2>4 DEF Complete, Staged, Counted, Gathered
  <2>6. Sound(saved', gone', holder') BY <1>1, <2>1, <2>2 DEF Sound
  <2> QED BY <1>2, <2>5, <2>6 DEF SavedInv
<1> QED BY <1>3, <1>4

-----------------------------------------------------------------------------
\* Pages.

\* A page is what there is of its rows.
LEMMA PageIs ==
  ASSUME NEW w, w \in Walks, NEW n \in Nat, Rows(w.kind) = n
  PROVE  LET first == w.page * Limit
         IN  /\ first \in Nat /\ (w.page + 1) * Limit = first + Limit
             /\ Page(w) = {p \in 0 .. n - 1 : first <= p /\ p < first + Limit}
<1>1. w.page \in Nat /\ Limit \in Nat BY DEF Walks
<1>2. w.page * Limit \in Nat /\ (w.page + 1) * Limit = w.page * Limit + Limit
  BY <1>1
<1>3. Page(w) = {p \in 0 .. n - 1 : w.page * Limit <= p /\ p < (w.page + 1) * Limit}
  BY DEF Page
<1> QED BY <1>2, <1>3

\* A page that is not full is the last of its rows.
LEMMA PageCard ==
  ASSUME NEW n \in Nat, NEW first \in Nat
  PROVE  LET page == {p \in 0 .. n - 1 : first <= p /\ p < first + Limit}
         IN  n < first + Limit => first + Cardinality(page) >= n
<1> DEFINE page == {p \in 0 .. n - 1 : first <= p /\ p < first + Limit}
<1> SUFFICES ASSUME n < first + Limit PROVE first + Cardinality(page) >= n
  OBVIOUS
<1>1. page = first .. n - 1 OBVIOUS
<1>2. first \in Int /\ n - 1 \in Int OBVIOUS
<1>3. Cardinality(first .. n - 1) = IF first > n - 1 THEN 0 ELSE n - 1 - first + 1
  BY <1>2, FS_Interval, Zenon
<1> HIDE DEF page
<1> QED BY <1>1, <1>3

\* Pages of explore: what was counted is still there when they are listed.
LEMMA ListInv ==
  ASSUME IndInv, ListRows
  PROVE  WalkInv'
<1> DEFINE n == Rows("explore")
           first == walk.page * Limit
           page == {p \in 0 .. n - 1 : first <= p /\ p < first + Limit}
           more == first + Cardinality(page) < walk.total
           listed == walk.listed \cup page
<1>1. walk # None /\ walk \in Walks /\ walk.stage = "list" BY DEF ListRows, IndInv, TypeOK
<1>2. /\ walk.kind = "explore" /\ walk.total <= n
      /\ 0 .. first - 1 \subseteq walk.listed
  BY <1>1 DEF IndInv, WalkInv
<1>3. n \in Nat BY RowsNat DEF IndInv
<1>4. /\ first \in Nat /\ (walk.page + 1) * Limit = first + Limit
      /\ Page(walk) = page
  BY <1>1, <1>2, <1>3, PageIs
<1>5. walk' = [walk EXCEPT !.listed = listed, !.more = more,
                           !.page = walk.page + 1, !.stage = "ask"]
  BY <1>4 DEF ListRows
<1>6. more \in BOOLEAN OBVIOUS
<1>7. n < first + Limit => first + Cardinality(page) >= n BY <1>3, <1>4, PageCard
<1>8. walk.total \in Nat BY <1>1 DEF Walks
<1>9. Cardinality(page) \in Nat /\ Cardinality(page) <= Limit
  <2> DEFINE last == first + Limit - 1
  <2>1. last \in Int /\ first \in Int /\ page \subseteq first .. last BY <1>3, <1>4
  <2>2. Limit \in Nat /\ last - first + 1 = Limit /\ ~(first > last) BY <1>4
  <2> HIDE DEF last, first, page
  <2>3. /\ IsFiniteSet(first .. last)
        /\ Cardinality(first .. last) = IF first > last THEN 0 ELSE last - first + 1
    BY <2>1, FS_Interval
  <2>4. IsFiniteSet(page) /\ Cardinality(page) <= Cardinality(first .. last)
    BY <2>1, <2>3, FS_Subset
  <2>5. Cardinality(first .. last) = Limit BY <2>2, <2>3
  <2> QED BY <2>4, <2>5, FS_CardinalityType
<1>10. \A p \in 0 .. n - 1 : first <= p /\ p < first + Limit => p \in listed OBVIOUS
<1>11. walk.listed \subseteq listed OBVIOUS
<1>12. more <=> first + Cardinality(page) < walk.total OBVIOUS
<1>13. /\ walk'.listed = listed /\ walk'.more = more /\ walk'.page = walk.page + 1
       /\ walk'.stage = "ask" /\ walk'.total = walk.total
  BY <1>1, <1>5 DEF Walks
<1> HIDE DEF more, listed, page, n, first
<1>14. more => 0 .. first + Limit - 1 \subseteq listed
  <2> SUFFICES ASSUME more, NEW p \in 0 .. first + Limit - 1 PROVE p \in listed
    OBVIOUS
  <2>1. n >= first + Limit BY <1>2, <1>3, <1>4, <1>7, <1>8, <1>9, <1>12
  <2>2. CASE p < first BY <1>2, <1>4, <1>11, <2>2
  <2>3. CASE p >= first BY <1>3, <1>4, <1>10, <2>1, <2>3
  <2> QED BY <1>4, <2>2, <2>3
<1>15. ~more => 0 .. walk.total - 1 \subseteq listed
  <2>1. SUFFICES ASSUME ~more, NEW p \in 0 .. walk.total - 1 PROVE p \in listed
    OBVIOUS
  <2>2. p < first + Limit BY <1>3, <1>4, <1>7, <1>8, <1>9, <1>12, <2>1, <1>2
  <2> QED BY <1>2, <1>3, <1>4, <1>8, <1>10, <1>11, <2>2
<1>16. walk'.page * Limit = first + Limit BY <1>4, <1>13
<1>17. CASE more
  <2>1. walk'.more = TRUE BY <1>13, <1>17
  <2> DEFINE next == walk'.page * Limit
  <2>2. next = first + Limit BY <1>16
  <2> HIDE DEF next
  <2>3. 0 .. next - 1 \subseteq walk'.listed
    <3>1. 0 .. first + Limit - 1 \subseteq listed BY <1>14, <1>17
    <3>2. walk'.listed = listed BY <1>13
    <3> QED BY <1>4, <2>2, <3>1, <3>2
  <2>4. walk'.stage # "list" BY <1>13
  <2>5. IF walk'.more THEN 0 .. walk'.page * Limit - 1 \subseteq walk'.listed
                        ELSE 0 .. walk'.total - 1 \subseteq walk'.listed
    BY <2>1, <2>3, Zenon DEF next
  <2> QED BY <2>4, <2>5, Zenon DEF WalkInv
<1>18. CASE ~more
  <2>1. walk'.more = FALSE BY <1>6, <1>13, <1>18
  <2> QED BY <1>13, <1>15, <1>18, <2>1 DEF WalkInv
<1> QED BY <1>17, <1>18

\* Pages of children, which are numbered and listed from one reading.
LEMMA ChildrenInv ==
  ASSUME IndInv, ListChildren
  PROVE  WalkInv'
<1> DEFINE first == walk.page * Limit
           page == {p \in 0 .. kids - 1 : first <= p /\ p < first + Limit}
           more == first + Limit < kids
           listed == walk.listed \cup page
<1>1. walk # None /\ walk \in Walks /\ walk.kind = "children" /\ walk.more
  BY DEF ListChildren, IndInv, TypeOK
<1>2. 0 .. first - 1 \subseteq walk.listed /\ walk.stage # "list"
  BY <1>1 DEF IndInv, WalkInv
<1>3. kids \in Nat /\ Rows(walk.kind) = kids BY <1>1 DEF IndInv, TypeOK, Rows
<1>4. /\ first \in Nat /\ (walk.page + 1) * Limit = first + Limit
      /\ Page(walk) = page
  BY <1>1, <1>3, PageIs
<1>5. walk' = [walk EXCEPT !.listed = listed, !.total = kids, !.more = more,
                           !.page = walk.page + 1]
  BY <1>4 DEF ListChildren
<1>6. more \in BOOLEAN /\ (more <=> first + Limit < kids) OBVIOUS
<1>7. \A p \in 0 .. kids - 1 : p \in walk.listed \/ (first <= p /\ p < first + Limit) => p \in listed
  OBVIOUS
<1>8. /\ walk'.listed = listed /\ walk'.more = more /\ walk'.page = walk.page + 1
      /\ walk'.stage = walk.stage /\ walk'.total = kids
  BY <1>1, <1>5 DEF Walks
<1> HIDE DEF more, listed, page, first
<1>9. ASSUME NEW p \in 0 .. kids - 1, p < first + Limit PROVE p \in listed
  <2>1. CASE p < first BY <1>2, <1>4, <1>7, <2>1
  <2>2. CASE p >= first BY <1>4, <1>7, <1>9, <2>2
  <2> QED BY <1>4, <2>1, <2>2
<1>10. walk'.page * Limit = first + Limit BY <1>4, <1>8
<1>11. CASE more
  <2>1. walk'.more = TRUE BY <1>8, <1>11
  <2> DEFINE next == walk'.page * Limit
  <2>2. next = first + Limit BY <1>10
  <2>3. 0 .. first + Limit - 1 \subseteq listed BY <1>3, <1>4, <1>6, <1>9, <1>11
  <2> HIDE DEF next
  <2>4. 0 .. next - 1 \subseteq walk'.listed
    <3>1. walk'.listed = listed BY <1>8
    <3> QED BY <1>4, <2>2, <2>3, <3>1
  <2>5. IF walk'.more THEN 0 .. walk'.page * Limit - 1 \subseteq walk'.listed
                        ELSE 0 .. walk'.total - 1 \subseteq walk'.listed
    BY <2>1, <2>4, Zenon DEF next
  <2> QED BY <1>2, <1>8, <2>5, Zenon DEF WalkInv
<1>12. CASE ~more
  <2>1. walk'.more = FALSE BY <1>6, <1>8, <1>12
  <2>2. 0 .. kids - 1 \subseteq listed BY <1>3, <1>4, <1>6, <1>9, <1>12
  <2> QED BY <1>2, <1>8, <2>1, <2>2 DEF WalkInv
<1> QED BY <1>11, <1>12

\* Turning pages, and rows being added under them.
LEMMA WalkStep ==
  ASSUME IndInv, [Next]_vars
  PROVE  WalkInv'
<1>1. Rows("explore") \in Nat /\ Rows("explore")' \in Nat
      /\ Rows("explore") <= Rows("explore")'
  BY RowsNat, RowsGrow DEF IndInv
<1>2. WalkInv /\ (walk # None => walk \in Walks) BY DEF IndInv, TypeOK
<1>3. CASE UNCHANGED walk
  <2>1. walk # None => walk.total \in Nat BY <1>2 DEF Walks
  <2> QED BY <1>1, <1>2, <1>3, <2>1 DEF WalkInv
<1>4. CASE CountRows
  <2>1. /\ walk # None /\ walk \in Walks /\ walk.kind = "explore" /\ walk.more
        /\ walk' = [walk EXCEPT !.total = Rows("explore"), !.stage = "list"]
    BY <1>2, <1>4 DEF CountRows
  <2>2. /\ walk'.listed = walk.listed /\ walk'.more = walk.more /\ walk'.page = walk.page
        /\ walk'.total = Rows("explore") /\ walk'.kind = "explore"
    BY <2>1 DEF Walks
  <2> QED BY <1>1, <1>2, <2>1, <2>2 DEF WalkInv
<1>5. CASE RetryPage
  <2>1. /\ walk # None /\ walk \in Walks /\ walk' = [walk EXCEPT !.stage = "ask"]
    BY <1>2, <1>5 DEF RetryPage
  <2>2. /\ walk'.listed = walk.listed /\ walk'.more = walk.more /\ walk'.page = walk.page
        /\ walk'.total = walk.total /\ walk'.stage = "ask"
    BY <2>1 DEF Walks
  <2> QED BY <1>2, <2>1, <2>2 DEF WalkInv
<1>6. UNCHANGED walk \/ Walking
  BY DEF Next, World, Portfolio, vars, LinkWallet, UnlinkWallet, Transfer, ImportBlock,
     InscribeChild, Ask, ReadWallets, CountOutputs, Revalidate, FetchIds, SendCards,
     ReadHeights, ReadMax, SendGrid, Fail
<1> QED BY <1>3, <1>4, <1>5, <1>6, ListInv, ChildrenInv DEF Walking

-----------------------------------------------------------------------------
\* The invariant holds, and what it implies.

LEMMA Step == IndInv /\ [Next]_vars => IndInv'
<1> SUFFICES ASSUME IndInv, [Next]_vars PROVE IndInv'
  OBVIOUS
<1>1. TypeOK' BY StepTyped DEF IndInv
<1>2. WalkInv' BY WalkStep
<1>3. ReqInv' /\ SavedInv'
  <2>1. CASE UNCHANGED <<req, saved>> BY <2>1, ReqKept, SavedKept
  <2>2. CASE req' = None /\ saved' = saved
    <3>1. ReqInv' BY <2>2 DEF ReqInv
    <3> QED BY <2>2, <3>1, SavedKept
  <2> QED BY <2>1, <2>2, ReqSteps, AskInv, WalletsInv, CountInv, RevalidateInv, FetchInv,
             GridInv, SentInv
<1> QED BY <1>1, <1>2, <1>3 DEF IndInv

LEMMA Start == Init => IndInv
<1> SUFFICES ASSUME Init PROVE IndInv
  OBVIOUS
<1>1. req = None /\ saved = None BY DEF Init
<1>2. ReqInv /\ SavedInv BY <1>1 DEF ReqInv, SavedInv
<1>3. walk = None \/ walk \in FirstPage BY DEF Init
<1>4. ASSUME walk \in FirstPage
      PROVE  /\ walk \in Walks /\ walk.page = 0 /\ walk.more = TRUE /\ walk.stage = "ask"
  <2>1. FirstPage \subseteq Walks
    <3>1. /\ {"ask"} \subseteq {"ask", "list"} /\ {0} \subseteq Nat
          /\ {{}} \subseteq SUBSET Nat /\ {TRUE} \subseteq BOOLEAN
      OBVIOUS
    <3> QED BY <3>1, Zenon DEF FirstPage, Walks
  <2>2. /\ walk.page \in {0} /\ walk.more \in {TRUE} /\ walk.stage \in {"ask"}
    BY <1>4, Zenon DEF FirstPage
  <2>3. walk \in Walks BY <1>4, <2>1
  <2>4. walk.more = TRUE BY <2>2, Zenon
  <2> QED BY <2>2, <2>3, <2>4, Zenon
<1>5. WalkInv
  <2>1. ASSUME walk \in FirstPage PROVE WalkInv
    <3>1. walk.page * Limit - 1 = -1 BY <1>4, <2>1
    <3>2. 0 .. walk.page * Limit - 1 = {} BY <3>1
    <3> QED BY <1>4, <2>1, <3>2 DEF WalkInv
  <2> QED BY <1>3, <2>1 DEF WalkInv
<1>6. TypeOK
  <2>1. /\ wallets = {} /\ holder = [o \in Outs |-> None]
        /\ gone = [a \in Addrs |-> 0] /\ tip = 0 /\ kids = 0
    BY DEF Init
  <2>2. holder \in [Outs -> Addrs \cup {None}] /\ gone \in [Addrs -> 0 .. MaxGone]
    BY <2>1
  <2>3. walk \in Walks \cup {None} BY <1>3, <1>4
  <2> QED BY <1>1, <2>1, <2>2, <2>3 DEF TypeOK
<1> QED BY <1>2, <1>5, <1>6 DEF IndInv

\* Two equal ETags are of one view, and count the same addresses alike.
LEMMA SameTag ==
  ASSUME IndInv, Revalidated
  PROVE  /\ req # None /\ saved # None /\ saved.view = req.view
         /\ TagAddrs(saved) = TagAddrs(req)
         /\ \A a \in Addrs :
              /\ saved.seen[a] # None <=> req.seen[a] # None
              /\ saved.seen[a] # None =>
                   Cardinality(saved.seen[a].outs) = Cardinality(req.seen[a].outs)
<1>1. /\ req # None /\ req.stage = "count" /\ Counted(req) /\ req.tag = "saved"
      /\ Etag(req) = Etag(saved)
  BY DEF Revalidated
<1>2. saved # None /\ saved.view = req.view BY <1>1 DEF IndInv, ReqInv
<1> DEFINE tag(r) == [a \in Addrs |-> IF r.seen[a] = None THEN None
                                      ELSE <<Cardinality(r.seen[a].outs)>>]
<1>3. tag(req) = tag(saved) BY <1>1 DEF Etag
<1>4. \A a \in Addrs : tag(req)[a] = tag(saved)[a] BY <1>3
<1>5. ASSUME NEW r, NEW a \in Addrs, r.seen[a] # None, r.seen[a].outs \subseteq Outs
      PROVE  /\ Cardinality(r.seen[a].outs) \in 0 .. Cardinality(Outs)
             /\ <<Cardinality(r.seen[a].outs)>> # None
  <2>1. IsFiniteSet(r.seen[a].outs)
        /\ Cardinality(r.seen[a].outs) <= Cardinality(Outs)
    BY <1>5, FS_Subset
  <2>2. Cardinality(r.seen[a].outs) \in Nat /\ Cardinality(Outs) \in Nat
    BY <2>1, FS_CardinalityType
  <2>3. Cardinality(r.seen[a].outs) \in 0 .. Cardinality(Outs) BY <2>1, <2>2
  <2> QED BY <2>3
<1>6. \A a \in Addrs :
        /\ req.seen[a] # None => req.seen[a].outs \subseteq Outs
        /\ saved.seen[a] # None => saved.seen[a].outs \subseteq Outs
  BY <1>1, <1>2, SeenTyped DEF IndInv
<1>7. ASSUME NEW a \in Addrs
      PROVE  /\ saved.seen[a] # None <=> req.seen[a] # None
             /\ saved.seen[a] # None =>
                  Cardinality(saved.seen[a].outs) = Cardinality(req.seen[a].outs)
  <2>1. (IF req.seen[a] = None THEN None ELSE <<Cardinality(req.seen[a].outs)>>)
          = (IF saved.seen[a] = None THEN None ELSE <<Cardinality(saved.seen[a].outs)>>)
    BY <1>4
  <2>2. req.seen[a] # None => <<Cardinality(req.seen[a].outs)>> # None
    BY <1>5, <1>6
  <2>3. saved.seen[a] # None => <<Cardinality(saved.seen[a].outs)>> # None
    BY <1>5, <1>6
  <2> QED BY <2>1, <2>2, <2>3
<1>8. TagAddrs(saved) \subseteq Addrs /\ TagAddrs(req) \subseteq Addrs
  <2>1. req.addrs \subseteq Addrs /\ saved.addrs \subseteq Addrs
    BY <1>1, <1>2 DEF IndInv, TypeOK, Requests
  <2> QED BY <2>1, Scopes
<1>9. \A a \in Addrs : saved.seen[a] # None <=> a \in TagAddrs(saved)
  BY <1>2 DEF IndInv, SavedInv, Complete
<1>10. \A a \in Addrs : req.seen[a] # None <=> a \in TagAddrs(req)
  BY <1>1 DEF IndInv, ReqInv, Staged, Counted
<1> QED BY <1>1, <1>2, <1>7, <1>8, <1>9, <1>10

LEMMA Listed == IndInv => ValidatedWalletsAreListed
<1> SUFFICES ASSUME IndInv, Revalidated, req.view.scope = "mine" \/ req.view.who = None
             PROVE  saved.addrs = req.addrs
  BY DEF ValidatedWalletsAreListed
<1>1. saved.view = req.view /\ TagAddrs(saved) = TagAddrs(req) BY SameTag
<1> QED BY <1>1 DEF TagAddrs, Fetched

LEMMA Unhidden == IndInv => NothingNewIsHidden
<1> SUFFICES ASSUME IndInv, Revalidated, NEW a \in Fetched(saved)
             PROVE  \/ saved.got[a] = req.seen[a].outs \cap Inscriptions
                    \/ saved.seen[a].gone < req.seen[a].gone
  BY DEF NothingNewIsHidden
<1>1. /\ req # None /\ saved # None
      /\ \A b \in Addrs :
           /\ saved.seen[b] # None <=> req.seen[b] # None
           /\ saved.seen[b] # None =>
                Cardinality(saved.seen[b].outs) = Cardinality(req.seen[b].outs)
  BY SameTag
<1>2. req.tag = "saved" BY DEF Revalidated
<1>3. /\ Recounted(req, saved) /\ Sound(saved, gone, holder) /\ Complete(saved)
  BY <1>1, <1>2 DEF IndInv, ReqInv, SavedInv
<1>4. a \in Addrs /\ a \in TagAddrs(saved)
  <2>1. saved.addrs \subseteq Addrs BY <1>1 DEF IndInv, TypeOK
  <2> QED BY <2>1, Scopes
<1>5. saved.seen[a] # None /\ req.seen[a] # None /\ saved.got[a] # None
  BY <1>1, <1>3, <1>4 DEF Complete
<1>6. /\ saved.seen[a].gone \in Nat /\ req.seen[a].gone \in Nat
      /\ req.seen[a].outs \subseteq Outs /\ saved.seen[a].outs \subseteq Outs
  BY <1>1, <1>4, <1>5, SeenTyped DEF IndInv
<1>7. saved.seen[a].gone <= req.seen[a].gone BY <1>3, <1>4, <1>5 DEF Recounted
<1>8. ASSUME saved.seen[a].gone = req.seen[a].gone
      PROVE  saved.got[a] = req.seen[a].outs \cap Inscriptions
  <2>1. /\ saved.seen[a].outs \subseteq req.seen[a].outs
        /\ saved.seen[a].outs \cap Inscriptions \subseteq saved.got[a]
        /\ saved.got[a] \subseteq req.seen[a].outs
    BY <1>3, <1>4, <1>5, <1>8 DEF Recounted
  <2>2. IsFiniteSet(req.seen[a].outs) BY <1>6, FS_Subset
  <2>3. Cardinality(saved.seen[a].outs) = Cardinality(req.seen[a].outs)
    BY <1>1, <1>4, <1>5
  <2>4. saved.seen[a].outs = req.seen[a].outs BY <2>1, <2>2, <2>3, FS_Subset
  <2>5. saved.got[a] \subseteq Inscriptions BY <1>1, <1>4, <1>5 DEF IndInv, TypeOK
  <2> QED BY <2>1, <2>4, <2>5
<1> QED BY <1>6, <1>7, <1>8

LEMMA OneOwner == IndInv => EachCardHasOneOwner
<1> SUFFICES ASSUME IndInv, req # None, NEW a \in Addrs, NEW b \in Addrs, a # b,
                    req.got[a] # None, req.got[b] # None
             PROVE  req.got[a] \cap req.got[b] = {} /\ {a, b} \subseteq req.addrs
  BY DEF EachCardHasOneOwner
<1>1. Owned(req) /\ req.addrs \subseteq Addrs BY DEF IndInv, ReqInv, TypeOK, Requests
<1>2. a \in Fetched(req) /\ b \in Fetched(req) BY <1>1 DEF Owned
<1>3. Fetched(req) \subseteq req.addrs BY <1>1, Scopes
<1> QED BY <1>1, <1>2, <1>3 DEF Owned

LEMMA Counts == IndInv => GridCountsBits
BY DEF IndInv, ReqInv, Gridded, GridCountsBits

LEMMA Missed == IndInv => WalkMissesNothing
<1> SUFFICES ASSUME IndInv, walk # None
             PROVE  \A p \in 0 .. (IF walk.more THEN walk.page * Limit ELSE walk.total) - 1 :
                      p \in walk.listed
  BY DEF WalkMissesNothing
<1>1. IF walk.more THEN 0 .. walk.page * Limit - 1 \subseteq walk.listed
                   ELSE 0 .. walk.total - 1 \subseteq walk.listed
  BY DEF IndInv, WalkInv
<1>2. CASE walk.more BY <1>1, <1>2
<1>3. CASE ~walk.more BY <1>1, <1>3
<1> QED BY <1>2, <1>3

-----------------------------------------------------------------------------
\* The invariant of the gallery is inductive: what an answer is put together
\* from stays within what each address, the table and the pages have become.
THEOREM Inductive == Spec => []IndInv
BY Start, Step, PTL DEF Spec

\* The variables keep their types.
THEOREM TypeCorrect == Spec => []TypeOK
<1>1. IndInv => TypeOK BY DEF IndInv
<1> QED BY <1>1, Inductive, PTL

\* A 304 whose ETag covers the whole profile (get_my_portfolio, and
\* get_profile_portfolio without a filter) confirms the list of wallets.
THEOREM ValidatedListed == Spec => []ValidatedWalletsAreListed
BY Inductive, Listed, PTL

\* Where a 304 of the portfolio handlers leaves other cards on screen than the
\* addresses hold, an output has left the address: nothing that only arrived is
\* hidden by an ETag of counts.
THEOREM NothingNewHidden == Spec => []NothingNewIsHidden
BY Inductive, Unhidden, PTL

\* An inscription that moves between two wallets while fetch_owner_map asks ord
\* about them is one card with one of them for its owner.
THEOREM CardsHaveOneOwner == Spec => []EachCardHasOneOwner
BY Inductive, OneOwner, PTL

\* The bitfield has a bit for each owned block, although get_block_heights and
\* get_max_block_height read the table at two moments.
THEOREM GridCounts == Spec => []GridCountsBits
BY Inductive, Counts, PTL

\* For any page size, who follows has_more through explore or get_children
\* while rows are added misses none.
THEOREM WalksMissNothing == Spec => []WalkMissesNothing
BY Inductive, Missed, PTL
=============================================================================
