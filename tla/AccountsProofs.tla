----------------------------- MODULE AccountsProofs -----------------------------
(***************************************************************************)
(* Proofs about Accounts, for every set of addresses, profiles, challenges *)
(* and requests.                                                           *)
(***************************************************************************)
EXTENDS Accounts, TLAPS

USE NoneAssumption

-----------------------------------------------------------------------------
\* Types.

\* What a request carries at each of its stages.
LEMMA Carried ==
  ASSUME TypeOK, NEW r \in Requests
  PROVE  /\ req[r].pc \in {"lookup", "create"} =>
              req[r] \in [pc : {"lookup", "create"}, address : Addresses,
                          nonce : Nonces, token : Token \cup {None}]
         /\ req[r].pc \in {"linkTo", "insert", "issue"} =>
              req[r] \in [pc : {"linkTo", "insert", "issue"}, address : Addresses,
                          nonce : Nonces, profile : Profiles, version : Versions]
         /\ req[r].pc = "count" =>
              req[r] \in [pc : {"count"}, profile : Profiles, address : Addresses]
         /\ req[r].pc = "delete" =>
              req[r] \in [pc : {"delete"}, profile : Profiles, address : Addresses,
                          counted : SUBSET Addresses]
         /\ req[r].pc = "bump" =>
              req[r] \in [pc : {"bump"}, profile : Profiles, version : Versions]
         /\ req[r] = Idle => ~InConnect(r)
<1>1. req[r] \in {Idle} \cup Connecting \cup Authenticated BY DEF TypeOK
<1>2. CASE req[r] = Idle BY <1>2 DEF Idle, InConnect
<1>3. CASE req[r] \in Connecting BY <1>3 DEF Connecting, Idle
<1>4. CASE req[r] \in Authenticated BY <1>4 DEF Authenticated, Idle
<1> QED BY <1>1, <1>2, <1>3, <1>4

\* A request goes on to a typed record.
LEMMA GoesTyped ==
  ASSUME req \in [Requests -> {Idle} \cup Connecting \cup Authenticated],
         NEW r \in Requests, NEW q \in {Idle} \cup Connecting \cup Authenticated,
         Goes(r, q)
  PROVE  req' \in [Requests -> {Idle} \cup Connecting \cup Authenticated]
BY DEF Goes

\* A request that goes on with a profile it has read is typed.
LEMMA WithProfileTyped ==
  ASSUME TypeOK, NEW r \in Requests, NEW pc \in {"linkTo", "insert", "issue"},
         NEW p \in Profiles, req[r].pc \in {"lookup", "create"}, WithProfile(r, pc, p)
  PROVE  req' \in [Requests -> {Idle} \cup Connecting \cup Authenticated]
<1>1. version[p] \in Versions BY DEF TypeOK
<1>2. [pc |-> pc, address |-> req[r].address, nonce |-> req[r].nonce,
       profile |-> p, version |-> version[p]] \in Connecting
  BY <1>1, Carried DEF Connecting
<1> QED BY <1>2, GoesTyped DEF WithProfile, TypeOK

\* The steps of the cache and of connect keep the variables typed.
LEMMA ConnectTyped ==
  ASSUME TypeOK, NEW r \in Requests,
         \/ \E n \in Nonces : MismatchChallenge(r, n)
         \/ \E n \in Nonces, t \in tokens \cup {None} : TakeChallenge(r, n, t)
         \/ LookUp(r)
         \/ \E p \in Profiles : CreateProfile(r, p)
         \/ AddWallet(r)
         \/ Issue(r)
  PROVE  TypeOK'
<1> DEFINE Reqs == [Requests -> {Idle} \cup Connecting \cup Authenticated]
<1> USE DEF tables
<1>1. ASSUME NEW n \in Nonces, MismatchChallenge(r, n) PROVE TypeOK'
  BY <1>1 DEF MismatchChallenge, TypeOK
<1>2. ASSUME NEW n \in Nonces, NEW t \in tokens \cup {None}, TakeChallenge(r, n, t) PROVE TypeOK'
  <2>1. [pc |-> "lookup", address |-> challenge[n], nonce |-> n, token |-> t] \in Connecting
    BY <1>2 DEF TakeChallenge, Connecting, TypeOK
  <2>2. req' \in Reqs BY <1>2, <2>1, GoesTyped DEF TakeChallenge, TypeOK
  <2> QED BY <1>2, <2>2 DEF TakeChallenge, TypeOK
<1>3. CASE LookUp(r)
  <2>1. req' \in Reqs
    <3>1. CASE wallet[req[r].address] # None
      <4>1. wallet[req[r].address] \in Profiles BY <1>3, <3>1, Carried DEF LookUp, TypeOK
      <4> QED BY <1>3, <3>1, <4>1, WithProfileTyped DEF LookUp
    <3>2. CASE wallet[req[r].address] = None /\ req[r].token # None
      <4>1. req[r].token.profile \in Profiles BY <1>3, <3>2, Carried DEF LookUp, Token
      <4> QED BY <1>3, <3>2, <4>1, WithProfileTyped DEF LookUp
    <3>3. CASE wallet[req[r].address] = None /\ req[r].token = None
      <4>1. [req[r] EXCEPT !.pc = "create"] \in Connecting
        BY <1>3, Carried DEF LookUp, Connecting
      <4> QED BY <1>3, <3>3, <4>1, GoesTyped DEF LookUp, TypeOK
    <3> QED BY <3>1, <3>2, <3>3
  <2> QED BY <1>3, <2>1 DEF LookUp, TypeOK
<1>4. ASSUME NEW p \in Profiles, CreateProfile(r, p) PROVE TypeOK'
  <2>1. CASE \E q \in Profiles : primary[q] = req[r].address
    <3>1. req' \in Reqs BY <1>4, <2>1, GoesTyped DEF CreateProfile, Ends, TypeOK
    <3> QED BY <1>4, <2>1, <3>1 DEF CreateProfile, TypeOK
  <2>2. CASE ~ \E q \in Profiles : primary[q] = req[r].address
    <3>1. req' \in Reqs BY <1>4, <2>2, WithProfileTyped DEF CreateProfile
    <3>2. req[r].address \in Addresses BY <1>4, Carried DEF CreateProfile
    <3> QED BY <1>4, <2>2, <3>1, <3>2 DEF CreateProfile, TypeOK
  <2> QED BY <2>1, <2>2
<1>5. CASE AddWallet(r)
  <2>1. req[r].address \in Addresses /\ req[r].profile \in Profiles
    BY <1>5, Carried DEF AddWallet
  <2>2. [req[r] EXCEPT !.pc = "issue"] \in Connecting
    BY <1>5, Carried DEF AddWallet, Connecting
  <2>3. req' \in Reqs BY <1>5, <2>2, GoesTyped DEF AddWallet, Ends, TypeOK
  <2> QED BY <1>5, <2>1, <2>3 DEF AddWallet, TypeOK
<1>6. CASE Issue(r)
  <2>1. [profile |-> req[r].profile, version |-> req[r].version,
         nonce |-> req[r].nonce] \in Token
    BY <1>6, Carried DEF Issue, Token
  <2>2. req' \in Reqs BY <1>6, GoesTyped DEF Issue, Ends, TypeOK
  <2> QED BY <1>6, <2>1, <2>2 DEF Issue, TypeOK
<1> QED BY <1>1, <1>2, <1>3, <1>4, <1>5, <1>6

\* The handlers of a user with a token, and what ends requests and tokens, keep
\* the variables typed.
LEMMA SessionTyped ==
  ASSUME TypeOK, NEW r \in Requests,
         \/ \E t \in tokens, a \in Addresses : RemoveWallet(r, t, a)
         \/ CountWallets(r)
         \/ DeleteWallet(r)
         \/ \E t \in tokens : Logout(r, t)
         \/ IncrementVersion(r)
         \/ Abandon(r)
  PROVE  TypeOK'
<1> DEFINE Reqs == [Requests -> {Idle} \cup Connecting \cup Authenticated]
<1> USE DEF tables
<1>1. ASSUME NEW t \in tokens, NEW a \in Addresses, RemoveWallet(r, t, a) PROVE TypeOK'
  <2>1. [pc |-> "count", profile |-> t.profile, address |-> a] \in Authenticated
    BY <1>1 DEF TypeOK, Token, Authenticated
  <2>2. req' \in Reqs BY <1>1, <2>1, GoesTyped DEF RemoveWallet, TypeOK
  <2> QED BY <1>1, <2>2 DEF RemoveWallet, TypeOK
<1>2. CASE CountWallets(r)
  <2>1. [pc |-> "delete", profile |-> req[r].profile, address |-> req[r].address,
         counted |-> WalletsOf(req[r].profile)] \in Authenticated
    BY <1>2, Carried DEF CountWallets, Authenticated, WalletsOf
  <2>2. req' \in Reqs BY <1>2, <2>1, GoesTyped DEF CountWallets, Deletes, Ends, TypeOK
  <2> QED BY <1>2, <2>2 DEF CountWallets, TypeOK
<1>3. CASE DeleteWallet(r)
  <2>1. req' \in Reqs BY <1>3, GoesTyped DEF DeleteWallet, Ends, TypeOK
  <2>2. wallet' \in [Addresses -> Profiles \cup {None}] BY <1>3 DEF DeleteWallet, TypeOK
  <2> QED BY <1>3, <2>1, <2>2 DEF DeleteWallet, TypeOK
<1>4. ASSUME NEW t \in tokens, Logout(r, t) PROVE TypeOK'
  <2>1. [pc |-> "bump", profile |-> t.profile, version |-> t.version] \in Authenticated
    BY <1>4 DEF TypeOK, Token, Authenticated
  <2>2. req' \in Reqs BY <1>4, <2>1, GoesTyped DEF Logout, TypeOK
  <2> QED BY <1>4, <2>2 DEF Logout, TypeOK
<1>5. CASE IncrementVersion(r)
  <2>1. req' \in Reqs BY <1>5, GoesTyped DEF IncrementVersion, Ends, TypeOK
  <2>2. version' \in [Profiles -> Versions]
    BY <1>5, Carried DEF IncrementVersion, TypeOK, Versions
  <2> QED BY <1>5, <2>1, <2>2 DEF IncrementVersion, TypeOK
<1>6. CASE Abandon(r)
  <2>1. req' \in Reqs BY <1>6, GoesTyped DEF Abandon, Ends, TypeOK
  <2> QED BY <1>6, <2>1 DEF Abandon, TypeOK
<1> QED BY <1>1, <1>2, <1>3, <1>4, <1>5, <1>6

\* Every step keeps the variables typed.
LEMMA NextTyped ==
  ASSUME TypeOK, [Next]_vars
  PROVE  TypeOK'
<1>1. ASSUME NEW t \in tokens, TokenExpires(t) PROVE TypeOK'
  BY <1>1 DEF TokenExpires, TypeOK, tables
<1>2. CASE Restart BY <1>2 DEF Restart, TypeOK, tables
<1>3. CASE UNCHANGED vars BY <1>3 DEF vars, TypeOK
<1>4. ASSUME NEW n \in Nonces,
             Evict(n) \/ \E a \in Addresses : GetChallenge(n, a)
      PROVE  TypeOK'
  BY <1>4 DEF GetChallenge, Evict, TypeOK, tables
<1> QED BY <1>1, <1>2, <1>3, <1>4, ConnectTyped, SessionTyped DEF Next

-----------------------------------------------------------------------------
\* Challenges.

\* A step that starts no connect and issues no token: no request gets a challenge
\* it did not have, and no challenge comes back into the cache.
Quiet ==
  /\ tokens' \subseteq tokens
  /\ \A r \in Requests : InConnect(r)' => InConnect(r) /\ req'[r].nonce = req[r].nonce
  /\ \A n \in Nonces : challenge[n] = "gone" => challenge'[n] = "gone"

\* Such a step leaves every challenge good for one session at most.
LEMMA QuietKeepsChallenges ==
  ASSUME TypeOK, OneUse, Quiet
  PROVE  OneUse'
<1>1. \A r \in Requests : InConnect(r) => req[r].nonce \in Nonces
  BY Carried DEF InConnect
<1>2. \A t \in tokens : t.nonce \in Nonces BY DEF TypeOK, Token
<1>3. ChallengesAreUsed' BY <1>1, <1>2 DEF OneUse, ChallengesAreUsed, Quiet
<1>4. OneSessionPerChallenge' BY DEF OneUse, OneSessionPerChallenge, Quiet
<1> QED BY <1>3, <1>4 DEF OneUse

\* A request that ends leaves the others as they are.
LEMMA EndsIsQuiet ==
  ASSUME TypeOK, NEW r \in Requests, Ends(r), NEW s \in Requests, InConnect(s)'
  PROVE  InConnect(s) /\ req'[s].nonce = req[s].nonce
BY DEF TypeOK, Ends, Goes, Idle, InConnect

\* The calls of a request that neither take a challenge nor issue a token.
LEMMA StepsAreQuiet ==
  ASSUME TypeOK, NEW r \in Requests,
         \/ LookUp(r)
         \/ \E p \in Profiles : CreateProfile(r, p)
         \/ AddWallet(r)
         \/ \E t \in tokens, a \in Addresses : RemoveWallet(r, t, a)
         \/ CountWallets(r)
         \/ DeleteWallet(r)
         \/ \E t \in tokens : Logout(r, t)
         \/ IncrementVersion(r)
         \/ Abandon(r)
  PROVE  Quiet
<1>1. challenge' = challenge /\ tokens' = tokens
  BY DEF LookUp, CreateProfile, AddWallet, RemoveWallet, CountWallets, DeleteWallet,
         Logout, IncrementVersion, Abandon
<1>2. ASSUME NEW s \in Requests, InConnect(s)'
      PROVE  InConnect(s) /\ req'[s].nonce = req[s].nonce
  <2> USE DEF TypeOK, Goes, InConnect
  <2>1. CASE LookUp(r)
    <3>1. CASE s = r BY <1>2, <2>1, <3>1, Carried DEF LookUp, WithProfile
    <3>2. CASE s # r BY <1>2, <2>1, <3>2 DEF LookUp, WithProfile
    <3> QED BY <3>1, <3>2
  <2>2. ASSUME NEW p \in Profiles, CreateProfile(r, p)
        PROVE  InConnect(s) /\ req'[s].nonce = req[s].nonce
    BY <1>2, <2>2, EndsIsQuiet DEF CreateProfile, WithProfile
  <2>3. CASE AddWallet(r)
    <3>1. CASE s = r BY <1>2, <2>3, <3>1, EndsIsQuiet, Carried DEF AddWallet
    <3>2. CASE s # r BY <1>2, <2>3, <3>2, EndsIsQuiet DEF AddWallet
    <3> QED BY <3>1, <3>2
  <2>4. ASSUME NEW t \in tokens, NEW a \in Addresses, RemoveWallet(r, t, a)
        PROVE  InConnect(s) /\ req'[s].nonce = req[s].nonce
    BY <1>2, <2>4 DEF RemoveWallet
  <2>5. CASE CountWallets(r)
    <3>1. CASE s = r BY <1>2, <2>5, <3>1, EndsIsQuiet, Carried DEF CountWallets, Deletes
    <3>2. CASE s # r BY <1>2, <2>5, <3>2, EndsIsQuiet DEF CountWallets, Deletes
    <3> QED BY <3>1, <3>2
  <2>6. ASSUME NEW t \in tokens, Logout(r, t)
        PROVE  InConnect(s) /\ req'[s].nonce = req[s].nonce
    BY <1>2, <2>6 DEF Logout
  <2>7. CASE DeleteWallet(r) \/ IncrementVersion(r) \/ Abandon(r)
    BY <1>2, <2>7, EndsIsQuiet DEF DeleteWallet, IncrementVersion, Abandon
  <2> QED BY <2>1, <2>2, <2>3, <2>4, <2>5, <2>6, <2>7
<1> QED BY <1>1, <1>2 DEF Quiet

\* Every step keeps a challenge good for one session.
LEMMA ChallengesStep ==
  ASSUME TypeOK, OneUse, [Next]_vars
  PROVE  OneUse'
<1>1. ASSUME NEW n \in Nonces,
             \/ \E a \in Addresses : GetChallenge(n, a)
             \/ Evict(n)
             \/ \E r \in Requests : MismatchChallenge(r, n)
      PROVE  OneUse'
  <2>1. Quiet
    BY <1>1 DEF GetChallenge, Evict, MismatchChallenge, Quiet, TypeOK, InConnect
  <2> QED BY <2>1, QuietKeepsChallenges
<1>2. ASSUME NEW r \in Requests, NEW n \in Nonces, NEW t \in tokens \cup {None},
             TakeChallenge(r, n, t)
      PROVE  OneUse'
  <2>1. /\ challenge[n] # "gone"
        /\ challenge' = [challenge EXCEPT ![n] = "gone"]
        /\ tokens' = tokens
    BY <1>2 DEF TakeChallenge
  <2>2. req'[r].nonce = n /\ \A s \in Requests \ {r} : req'[s] = req[s]
    BY <1>2 DEF TakeChallenge, Goes, TypeOK
  <2>3. \A s \in Requests \ {r} : InConnect(s) => req[s].nonce # n
    BY <2>1 DEF OneUse, ChallengesAreUsed
  <2>4. \A u \in tokens : u.nonce # n BY <2>1 DEF OneUse, ChallengesAreUsed
  <2>5. OneSessionPerChallenge'
    BY <2>1, <2>2, <2>3, <2>4 DEF OneUse, OneSessionPerChallenge, InConnect
  <2>6. ChallengesAreUsed'
    BY <2>1, <2>2, <2>3, <2>4, Carried DEF OneUse, ChallengesAreUsed, InConnect, TypeOK, Token
  <2> QED BY <2>5, <2>6 DEF OneUse
<1>3. ASSUME NEW r \in Requests, Issue(r) PROVE OneUse'
  <2>1. InConnect(r) /\ challenge' = challenge
    BY <1>3 DEF Issue, InConnect
  <2>2. \A u \in tokens' : u \in tokens \/ u.nonce = req[r].nonce BY <1>3 DEF Issue
  <2>3. \A s \in Requests : InConnect(s)' => s # r /\ req'[s] = req[s] /\ InConnect(s)
    BY <1>3 DEF Issue, Ends, Goes, Idle, TypeOK, InConnect
  <2> HIDE DEF InConnect
  <2>4. OneSessionPerChallenge' BY <2>1, <2>2, <2>3 DEF OneUse, OneSessionPerChallenge
  <2>5. ChallengesAreUsed' BY <2>1, <2>2, <2>3 DEF OneUse, ChallengesAreUsed
  <2> QED BY <2>4, <2>5 DEF OneUse
<1>4. ASSUME NEW t \in tokens, TokenExpires(t) PROVE OneUse'
  <2>1. Quiet BY <1>4 DEF TokenExpires, Quiet, InConnect
  <2> QED BY <2>1, QuietKeepsChallenges
<1>5. CASE Restart
  <2>1. Quiet BY <1>5 DEF Restart, Quiet, InConnect, Idle, TypeOK
  <2> QED BY <2>1, QuietKeepsChallenges
<1>6. CASE UNCHANGED vars
  <2>1. Quiet BY <1>6 DEF vars, Quiet, InConnect
  <2> QED BY <2>1, QuietKeepsChallenges
<1>7. ASSUME NEW r \in Requests,
             \/ LookUp(r)
             \/ \E p \in Profiles : CreateProfile(r, p)
             \/ AddWallet(r)
             \/ \E t \in tokens, a \in Addresses : RemoveWallet(r, t, a)
             \/ CountWallets(r)
             \/ DeleteWallet(r)
             \/ \E t \in tokens : Logout(r, t)
             \/ IncrementVersion(r)
             \/ Abandon(r)
      PROVE  OneUse'
  BY <1>7, StepsAreQuiet, QuietKeepsChallenges
<1>8. ASSUME NEW n \in Nonces, Evict(n) \/ \E a \in Addresses : GetChallenge(n, a)
      PROVE  OneUse'
  BY <1>1, <1>8
<1>9. ASSUME NEW r \in Requests, NEW n \in Nonces,
             \/ MismatchChallenge(r, n)
             \/ \E t \in tokens \cup {None} : TakeChallenge(r, n, t)
      PROVE  OneUse'
  BY <1>1, <1>2, <1>9
<1>10. CASE Next
  <2>1. ASSUME NEW r \in Requests, NEW t \in tokens,
               Logout(r, t) \/ \E a \in Addresses : RemoveWallet(r, t, a)
        PROVE  OneUse'
    BY <1>7, <2>1
  <2>2. ASSUME NEW r \in Requests,
               \/ LookUp(r)
               \/ \E p \in Profiles : CreateProfile(r, p)
               \/ AddWallet(r) \/ Issue(r)
               \/ CountWallets(r) \/ DeleteWallet(r) \/ IncrementVersion(r) \/ Abandon(r)
        PROVE  OneUse'
    BY <1>3, <1>7, <2>2
  <2> QED BY <1>4, <1>5, <1>8, <1>9, <1>10, <2>1, <2>2 DEF Next
<1> QED BY <1>6, <1>10

-----------------------------------------------------------------------------
\* Versions.

\* No row's version goes down, and what a request or a token holds is what it held
\* already, or what the row or the request it comes from says.
VersionsGrow ==
  /\ \A p \in Profiles : version[p] <= version'[p]
  /\ \A r \in Requests : req'[r].pc \in {"linkTo", "insert", "issue"} =>
       \/ /\ req'[r].profile \in Profiles
          /\ req'[r].version = version[req'[r].profile]
       \/ /\ req[r].pc \in {"linkTo", "insert", "issue"}
          /\ req'[r].profile = req[r].profile /\ req'[r].version = req[r].version
  /\ \A t \in tokens' : t \in tokens \/ \E r \in Requests :
       /\ req[r].pc = "issue"
       /\ t.profile = req[r].profile /\ t.version = req[r].version

\* The three parts of a step that leaves the versions and the tokens alone.
LEMMA RowsAlone ==
  ASSUME TypeOK, version' = version, tokens' \subseteq tokens,
         \A r \in Requests : req'[r].pc \in {"linkTo", "insert", "issue"} =>
           \/ /\ req'[r].profile \in Profiles
              /\ req'[r].version = version[req'[r].profile]
           \/ /\ req[r].pc \in {"linkTo", "insert", "issue"}
              /\ req'[r].profile = req[r].profile /\ req'[r].version = req[r].version
  PROVE  VersionsGrow
<1>1. \A p \in Profiles : version[p] \in Nat BY DEF TypeOK, Versions
<1>2. \A p \in Profiles : version[p] <= version'[p] BY <1>1
<1> QED BY <1>2 DEF VersionsGrow

\* Taking a challenge and every call of connect.
LEMMA ConnectGrows ==
  ASSUME TypeOK, NEW r \in Requests,
         \/ \E n \in Nonces : MismatchChallenge(r, n)
         \/ \E n \in Nonces, t \in tokens \cup {None} : TakeChallenge(r, n, t)
         \/ LookUp(r)
         \/ \E p \in Profiles : CreateProfile(r, p)
         \/ AddWallet(r)
         \/ Issue(r)
  PROVE  VersionsGrow
<1> USE DEF tables
<1>0. \A s \in Requests : req'[s] = req[s] =>
        (req'[s].pc \in {"linkTo", "insert", "issue"} =>
           /\ req[s].pc \in {"linkTo", "insert", "issue"}
           /\ req'[s].profile = req[s].profile /\ req'[s].version = req[s].version)
  OBVIOUS
<1>1. ASSUME NEW n \in Nonces, MismatchChallenge(r, n) PROVE VersionsGrow
  BY <1>1, RowsAlone DEF MismatchChallenge
<1>2. ASSUME NEW n \in Nonces, NEW t \in tokens \cup {None}, TakeChallenge(r, n, t)
      PROVE  VersionsGrow
  BY <1>2, RowsAlone DEF TakeChallenge, Goes, TypeOK
<1>3. CASE LookUp(r)
  <2>1. CASE wallet[req[r].address] # None
    <3>1. wallet[req[r].address] \in Profiles BY <1>3, <2>1, Carried DEF LookUp, TypeOK
    <3> QED BY <1>3, <2>1, <3>1, RowsAlone DEF LookUp, WithProfile, Goes, TypeOK
  <2>2. CASE wallet[req[r].address] = None /\ req[r].token # None
    <3>1. req[r].token.profile \in Profiles BY <1>3, <2>2, Carried DEF LookUp, Token
    <3> QED BY <1>3, <2>2, <3>1, RowsAlone DEF LookUp, WithProfile, Goes, TypeOK
  <2>3. CASE wallet[req[r].address] = None /\ req[r].token = None
    <3>1. req'[r].pc = "create" BY <1>3, <2>3, Carried DEF LookUp, Goes, TypeOK
    <3> QED BY <1>3, <2>3, <3>1, RowsAlone DEF LookUp, Goes, TypeOK
  <2> QED BY <2>1, <2>2, <2>3
<1>4. ASSUME NEW p \in Profiles, CreateProfile(r, p) PROVE VersionsGrow
  BY <1>4, RowsAlone DEF CreateProfile, WithProfile, Ends, Goes, Idle, TypeOK
<1>5. CASE AddWallet(r)
  <2>1. CASE wallet[req[r].address] = None
    <3>1. /\ req'[r].profile = req[r].profile /\ req'[r].version = req[r].version
          /\ \A s \in Requests \ {r} : req'[s] = req[s]
      BY <1>5, <2>1, Carried DEF AddWallet, Goes, TypeOK
    <3> QED BY <1>5, <2>1, <3>1, RowsAlone DEF AddWallet
  <2>2. CASE wallet[req[r].address] # None
    BY <1>5, <2>2, RowsAlone DEF AddWallet, Ends, Goes, Idle, TypeOK
  <2> QED BY <2>1, <2>2
<1>6. CASE Issue(r)
  <2>1. /\ version' = version
        /\ \A s \in Requests : req'[s].pc \in {"linkTo", "insert", "issue"} =>
                                 s # r /\ req'[s] = req[s]
    BY <1>6 DEF Issue, Ends, Goes, Idle, TypeOK
  <2>2. \A t \in tokens' : t \in tokens \/ \E s \in Requests :
          /\ req[s].pc = "issue"
          /\ t.profile = req[s].profile /\ t.version = req[s].version
    BY <1>6 DEF Issue
  <2>3. \A p \in Profiles : version[p] <= version'[p] BY <2>1 DEF TypeOK, Versions
  <2> QED BY <2>1, <2>2, <2>3 DEF VersionsGrow
<1> QED BY <1>1, <1>2, <1>3, <1>4, <1>5, <1>6

\* The requests of a user with a token.
LEMMA SessionGrows ==
  ASSUME TypeOK, NEW r \in Requests,
         \/ \E t \in tokens, a \in Addresses : RemoveWallet(r, t, a)
         \/ CountWallets(r)
         \/ DeleteWallet(r)
         \/ \E t \in tokens : Logout(r, t)
         \/ IncrementVersion(r)
         \/ Abandon(r)
  PROVE  VersionsGrow
<1> USE DEF tables
<1>1. ASSUME NEW s \in Requests, req'[s].pc \in {"linkTo", "insert", "issue"}
      PROVE  req'[s] = req[s]
  <2> USE DEF TypeOK, Goes, Ends, Idle
  <2>1. CASE s # r
    BY <2>1 DEF RemoveWallet, CountWallets, Deletes, DeleteWallet, Logout,
                IncrementVersion, Abandon
  <2>2. CASE s = r
    <3>1. CASE CountWallets(r) BY <1>1, <2>2, <3>1, Carried DEF CountWallets, Deletes
    <3> QED BY <1>1, <2>2, <3>1 DEF RemoveWallet, DeleteWallet, Logout, IncrementVersion, Abandon
  <2> QED BY <2>1, <2>2
<1>2. tokens' = tokens
  BY DEF RemoveWallet, CountWallets, DeleteWallet, Logout, IncrementVersion, Abandon
<1>3. \A p \in Profiles : version[p] <= version'[p]
  <2>1. \A p \in Profiles : version[p] \in Nat BY DEF TypeOK, Versions
  <2>2. CASE IncrementVersion(r)
    <3>1. version' = [version EXCEPT ![req[r].profile] = version[req[r].profile] + 1]
      BY <2>2 DEF IncrementVersion
    <3> QED BY <2>1, <3>1 DEF TypeOK
  <2>3. CASE ~IncrementVersion(r)
    <3>1. version' = version
      BY <2>3 DEF RemoveWallet, CountWallets, DeleteWallet, Logout, Abandon
    <3> QED BY <2>1, <3>1
  <2> QED BY <2>2, <2>3
<1> QED BY <1>1, <1>2, <1>3 DEF VersionsGrow

\* Every step only moves versions forward.
LEMMA NextGrows ==
  ASSUME TypeOK, [Next]_vars
  PROVE  VersionsGrow
<1> USE DEF tables
<1>1. ASSUME NEW t \in tokens, TokenExpires(t) PROVE VersionsGrow
  BY <1>1, RowsAlone DEF TokenExpires
<1>2. CASE Restart BY <1>2, RowsAlone DEF Restart, Idle
<1>3. CASE UNCHANGED vars BY <1>3, RowsAlone DEF vars
<1>4. ASSUME NEW n \in Nonces,
             Evict(n) \/ \E a \in Addresses : GetChallenge(n, a)
      PROVE  VersionsGrow
  BY <1>4, RowsAlone DEF GetChallenge, Evict
<1> QED BY <1>1, <1>2, <1>3, <1>4, ConnectGrows, SessionGrows DEF Next

\* What was behind its row is behind it still.
LEMMA VersionsStep ==
  ASSUME TypeOK, TypeOK', VersionsRead, TokensNotAhead, VersionsGrow
  PROVE  VersionsRead' /\ TokensNotAhead'
<1>1. /\ \A p \in Profiles : version[p] \in Nat /\ version'[p] \in Nat
      /\ \A p \in Profiles : version[p] <= version'[p]
  BY DEF TypeOK, Versions, VersionsGrow
<1>2. ASSUME NEW r \in Requests, req'[r].pc \in {"linkTo", "insert", "issue"}
      PROVE  req'[r].version <= version'[req'[r].profile]
  <2>1. CASE req'[r].profile \in Profiles /\ req'[r].version = version[req'[r].profile]
    BY <1>1, <2>1
  <2>2. CASE /\ req[r].pc \in {"linkTo", "insert", "issue"}
             /\ req'[r].profile = req[r].profile /\ req'[r].version = req[r].version
    <3>1. req[r].profile \in Profiles /\ req[r].version \in Nat
      BY <2>2, Carried DEF Versions
    <3>2. req[r].version <= version[req[r].profile] BY <2>2 DEF VersionsRead
    <3> QED BY <1>1, <2>2, <3>1, <3>2
  <2> QED BY <1>2, <2>1, <2>2 DEF VersionsGrow
<1>3. ASSUME NEW t \in tokens' PROVE t.version <= version'[t.profile]
  <2>1. CASE t \in tokens
    <3>1. t.profile \in Profiles /\ t.version \in Nat BY <2>1 DEF TypeOK, Token, Versions
    <3>2. t.version <= version[t.profile] BY <2>1 DEF TokensNotAhead
    <3> QED BY <1>1, <3>1, <3>2
  <2>2. ASSUME NEW r \in Requests, req[r].pc = "issue",
               t.profile = req[r].profile, t.version = req[r].version
        PROVE  t.version <= version'[t.profile]
    <3>1. req[r].profile \in Profiles /\ req[r].version \in Nat
      BY <2>2, Carried DEF Versions
    <3>2. req[r].version <= version[req[r].profile] BY <2>2 DEF VersionsRead
    <3> QED BY <1>1, <2>2, <3>1, <3>2
  <2> QED BY <2>1, <2>2 DEF VersionsGrow
<1> QED BY <1>2, <1>3 DEF VersionsRead, TokensNotAhead

-----------------------------------------------------------------------------
\* Removals.

\* A request that goes on is what it was, or what it went on with.
LEMMA GoesTo ==
  ASSUME req \in [Requests -> {Idle} \cup Connecting \cup Authenticated],
         NEW r \in Requests, NEW q, Goes(r, q), NEW s \in Requests
  PROVE  req'[s] = IF s = r THEN q ELSE req[s]
BY DEF Goes

\* The removals in flight are those that were, and one that counts two wallets.
LEMMA RemovalsStep ==
  ASSUME TypeOK, RemovalsCounted, [Next]_vars
  PROVE  RemovalsCounted'
<1> SUFFICES ASSUME NEW s \in Requests, req'[s].pc = "delete"
             PROVE  \E a, b \in req'[s].counted : a # b
  BY DEF RemovalsCounted
<1>0. req[s].pc = "delete" => \E a, b \in req[s].counted : a # b BY DEF RemovalsCounted
<1>1. CASE req' = req BY <1>0, <1>1
<1>2. ASSUME NEW r \in Requests, NEW q, Goes(r, q), q.pc # "delete"
      PROVE  \E a, b \in req'[s].counted : a # b
  <2>1. req'[s] = IF s = r THEN q ELSE req[s] BY <1>2, GoesTo DEF TypeOK
  <2> QED BY <1>0, <1>2, <2>1
<1>3. ASSUME NEW r \in Requests, CountWallets(r)
      PROVE  \E a, b \in req'[s].counted : a # b
  <2>1. CASE Ends(r) BY <1>2, <2>1 DEF Ends, Idle
  <2>2. CASE Deletes(r) /\ \E a, b \in WalletsOf(req[r].profile) : a # b
    <3>1. req'[s] = IF s = r
                    THEN [pc |-> "delete", profile |-> req[r].profile,
                          address |-> req[r].address, counted |-> WalletsOf(req[r].profile)]
                    ELSE req[s]
      BY <2>2, GoesTo DEF Deletes, TypeOK
    <3> QED BY <1>0, <2>2, <3>1
  <2> QED BY <1>3, <2>1, <2>2 DEF CountWallets
<1>4. ASSUME NEW r \in Requests, LookUp(r) PROVE \E a, b \in req'[s].counted : a # b
  <2>1. [req[r] EXCEPT !.pc = "create"].pc # "delete" BY <1>4, Carried DEF LookUp
  <2> QED BY <1>2, <1>4, <2>1 DEF LookUp, WithProfile
<1>5. ASSUME NEW r \in Requests, AddWallet(r) PROVE \E a, b \in req'[s].counted : a # b
  <2>1. [req[r] EXCEPT !.pc = "issue"].pc # "delete" BY <1>5, Carried DEF AddWallet
  <2> QED BY <1>2, <1>5, <2>1 DEF AddWallet, Ends, Idle
<1>6. ASSUME NEW r \in Requests,
             \/ \E n \in Nonces, t \in tokens \cup {None} : TakeChallenge(r, n, t)
             \/ \E p \in Profiles : CreateProfile(r, p)
             \/ Issue(r) \/ DeleteWallet(r) \/ IncrementVersion(r) \/ Abandon(r)
             \/ \E t \in tokens : Logout(r, t) \/ \E a \in Addresses : RemoveWallet(r, t, a)
      PROVE  \E a, b \in req'[s].counted : a # b
  BY <1>2, <1>6 DEF TakeChallenge, CreateProfile, WithProfile, Issue, DeleteWallet,
         IncrementVersion, Abandon, Logout, RemoveWallet, Ends, Idle
<1>7. CASE Restart BY <1>7 DEF Restart, Idle
<1>8. ASSUME NEW r \in Requests, NEW n \in Nonces,
             MismatchChallenge(r, n) \/ \E t \in tokens \cup {None} : TakeChallenge(r, n, t)
      PROVE  \E a, b \in req'[s].counted : a # b
  BY <1>1, <1>6, <1>8 DEF MismatchChallenge
<1>9. ASSUME NEW r \in Requests, NEW t \in tokens,
             Logout(r, t) \/ \E a \in Addresses : RemoveWallet(r, t, a)
      PROVE  \E a, b \in req'[s].counted : a # b
  BY <1>6, <1>9
<1>10. ASSUME NEW r \in Requests,
             \/ LookUp(r)
             \/ \E p \in Profiles : CreateProfile(r, p)
             \/ AddWallet(r) \/ Issue(r)
             \/ CountWallets(r) \/ DeleteWallet(r) \/ IncrementVersion(r) \/ Abandon(r)
      PROVE  \E a, b \in req'[s].counted : a # b
  BY <1>3, <1>4, <1>5, <1>6, <1>10
<1>11. CASE \/ \E n \in Nonces, a \in Addresses : GetChallenge(n, a)
            \/ \E n \in Nonces : Evict(n)
            \/ \E t \in tokens : TokenExpires(t)
            \/ UNCHANGED vars
  BY <1>1, <1>11 DEF GetChallenge, Evict, TokenExpires, vars
<1> QED BY <1>7, <1>8, <1>9, <1>10, <1>11 DEF Next

-----------------------------------------------------------------------------
\* The theorems.

\* Every reachable state is typed.
THEOREM TypeCorrect == Spec => []TypeOK
<1>1. Init => TypeOK BY DEF Init, TypeOK, Versions
<1>2. TypeOK /\ [Next]_vars => TypeOK' BY NextTyped
<1> QED BY <1>1, <1>2, PTL DEF Spec

\* Challenges are used once and versions only grow, whatever requests are in
\* flight, dropped or lost in a restart.
THEOREM Inductive == Spec => []IndInv
<1>1. Init => IndInv
  <2>1. Init => TypeOK BY DEF Init, TypeOK, Versions
  <2>2. Init => OneUse /\ VersionsRead /\ TokensNotAhead
    BY DEF Init, Idle, OneUse, ChallengesAreUsed, OneSessionPerChallenge, InConnect,
           VersionsRead, TokensNotAhead
  <2>3. Init => RemovalsCounted BY DEF Init, Idle, RemovalsCounted
  <2> QED BY <2>1, <2>2, <2>3 DEF IndInv
<1>2. IndInv /\ [Next]_vars => IndInv'
  <2> SUFFICES ASSUME IndInv, [Next]_vars PROVE IndInv' OBVIOUS
  <2>1. TypeOK' BY NextTyped DEF IndInv
  <2>2. OneUse' BY ChallengesStep DEF IndInv
  <2>3. VersionsRead' /\ TokensNotAhead'
    <3>1. VersionsGrow BY NextGrows DEF IndInv
    <3> QED BY <2>1, <3>1, VersionsStep DEF IndInv
  <2>4. RemovalsCounted' BY RemovalsStep DEF IndInv
  <2> QED BY <2>1, <2>2, <2>3, <2>4 DEF IndInv
<1> QED BY <1>1, <1>2, PTL DEF Spec

\* A challenge opens one session, however many requests bring its signature.
THEOREM ChallengeOpensOneSession == Spec => []OneSessionPerChallenge
<1>1. IndInv => OneSessionPerChallenge BY DEF IndInv, OneUse
<1> QED BY <1>1, Inductive, PTL

\* No token is ahead of its profile.
THEOREM NoTokenIsAhead == Spec => []TokensNotAhead
<1>1. IndInv => TokensNotAhead BY DEF IndInv
<1> QED BY <1>1, Inductive, PTL

\* A revoked token is never accepted again.
THEOREM RevocationIsFinal == Spec => RevokedIsFinal
<1>1. IndInv /\ [Next]_vars =>
        [\A t \in tokens : ~Current(t) => t.version # version'[t.profile]]_vars
  <2> SUFFICES ASSUME IndInv, [Next]_vars, NEW t \in tokens, ~Current(t)
               PROVE  t.version # version'[t.profile]
    OBVIOUS
  <2>1. t.profile \in Profiles /\ t.version \in Nat BY DEF IndInv, TypeOK, Token, Versions
  <2>2. version[t.profile] \in Nat /\ version'[t.profile] \in Nat
    BY <2>1, NextTyped DEF IndInv, TypeOK, Versions
  <2>3. t.version < version[t.profile]
    BY <2>1, <2>2 DEF IndInv, TokensNotAhead, Current
  <2>4. version[t.profile] <= version'[t.profile]
    BY <2>1, NextGrows DEF IndInv, VersionsGrow
  <2> QED BY <2>1, <2>2, <2>3, <2>4
<1> QED BY <1>1, Inductive, PTL DEF Spec, RevokedIsFinal

\* A linked address is not taken over by another profile.
THEOREM AddressIsKept == Spec => AddressKeepsProfile
<1>1. TypeOK /\ [Next]_vars =>
        [\A a \in Addresses : wallet[a] # None => wallet'[a] \in {wallet[a], None}]_vars
  <2> SUFFICES ASSUME TypeOK, [Next]_vars, NEW a \in Addresses, wallet[a] # None
               PROVE  wallet'[a] \in {wallet[a], None}
    OBVIOUS
  <2>1. ASSUME NEW r \in Requests, AddWallet(r) PROVE wallet'[a] \in {wallet[a], None}
    BY <2>1, Carried DEF AddWallet, TypeOK
  <2>2. ASSUME NEW r \in Requests, DeleteWallet(r) PROVE wallet'[a] \in {wallet[a], None}
    BY <2>2 DEF DeleteWallet, TypeOK
  <2>3. CASE wallet' = wallet BY <2>3
  <2> QED BY <2>1, <2>2, <2>3
      DEF Next, vars, tables, GetChallenge, Evict, MismatchChallenge, TakeChallenge, LookUp,
          CreateProfile, Issue, RemoveWallet, CountWallets, Logout, IncrementVersion,
          Abandon, TokenExpires, Restart
<1> QED BY <1>1, TypeCorrect, PTL DEF Spec, AddressKeepsProfile

\* Only removals that race take a profile's last wallet.
THEOREM RemovalsLeaveOne == Spec => LastWalletGoesInARace
<1>1. IndInv /\ [Next]_vars =>
        [\A p \in Profiles :
           WalletsOf(p) # {} /\ (\A a \in Addresses : wallet'[a] # p) =>
             \E r \in Requests : /\ req[r].pc = "delete" /\ req[r].profile = p
                                 /\ \E a \in req[r].counted : wallet[a] # p]_vars
  <2> SUFFICES ASSUME IndInv, [Next]_vars, NEW p \in Profiles, WalletsOf(p) # {},
                      \A a \in Addresses : wallet'[a] # p
               PROVE  \E r \in Requests : /\ req[r].pc = "delete" /\ req[r].profile = p
                                          /\ \E a \in req[r].counted : wallet[a] # p
    OBVIOUS
  <2>1. PICK a \in Addresses : wallet[a] = p BY DEF WalletsOf
  <2>2. ~(wallet' = wallet) BY <2>1
  <2>3. ASSUME NEW r \in Requests, AddWallet(r) PROVE FALSE
    <3>1. wallet' = [wallet EXCEPT ![req[r].address] = req[r].profile]
          /\ wallet[req[r].address] = None
      BY <2>2, <2>3 DEF AddWallet
    <3>2. p # None BY NoneAssumption
    <3> QED BY <2>1, <3>1, <3>2 DEF IndInv, TypeOK
  <2>4. ASSUME NEW r \in Requests, DeleteWallet(r)
        PROVE  /\ req[r].pc = "delete" /\ req[r].profile = p
               /\ \E b \in req[r].counted : wallet[b] # p
    <3>1. /\ wallet[req[r].address] = req[r].profile
          /\ wallet' = [wallet EXCEPT ![req[r].address] = None]
      BY <2>2, <2>4 DEF DeleteWallet
    <3>2. req[r].pc = "delete" /\ req[r].counted \subseteq Addresses
      BY <2>4, Carried DEF DeleteWallet, IndInv
    <3>3. \A b \in Addresses : b # req[r].address => wallet'[b] = wallet[b]
      BY <3>1 DEF IndInv, TypeOK
    <3>4. req[r].profile = p BY <2>1, <3>1, <3>3
    <3>5. PICK b \in req[r].counted, c \in req[r].counted : b # c
      BY <3>2 DEF IndInv, RemovalsCounted
    <3>6. wallet[b] # p \/ wallet[c] # p BY <3>2, <3>3, <3>5
    <3> QED BY <3>2, <3>4, <3>5, <3>6
  <2> QED BY <2>2, <2>3, <2>4
      DEF Next, vars, tables, GetChallenge, Evict, MismatchChallenge, TakeChallenge, LookUp,
          CreateProfile, Issue, RemoveWallet, CountWallets, Logout, IncrementVersion,
          Abandon, TokenExpires, Restart
<1> QED BY <1>1, Inductive, PTL DEF Spec, LastWalletGoesInARace

\* No request comes to name a deserted profile.
LEMMA DesertedUnnamed ==
  ASSUME TypeOK, [Next]_vars, NEW p \in Profiles, Deserted(p)
  PROVE  \A s \in Requests : ~Names(req'[s], p)
<1> SUFFICES ASSUME NEW s \in Requests PROVE ~Names(req'[s], p) OBVIOUS
<1>0. ~Names(req[s], p) BY DEF Deserted
<1>1. CASE req' = req BY <1>0, <1>1
<1>2. ASSUME NEW r \in Requests, NEW q, Goes(r, q), ~Names(q, p) PROVE ~Names(req'[s], p)
  <2>1. req'[s] = IF s = r THEN q ELSE req[s] BY <1>2, GoesTo DEF TypeOK
  <2> QED BY <1>0, <1>2, <2>1
<1>3. ~Names(Idle, p) BY DEF Idle, Names
<1>4. ASSUME NEW r \in Requests, NEW t \in tokens \cup {None}, NEW n \in Nonces,
             TakeChallenge(r, n, t)
      PROVE  ~Names(req'[s], p)
  <2>1. ~Names([pc |-> "lookup", address |-> challenge[n], nonce |-> n, token |-> t], p)
    BY DEF Names, Deserted
  <2> QED BY <1>2, <1>4, <2>1 DEF TakeChallenge
<1>5. ASSUME NEW r \in Requests, NEW q \in Profiles \ {p}, NEW pc \in {"linkTo", "insert", "issue"},
             WithProfile(r, pc, q)
      PROVE  ~Names(req'[s], p)
  <2>1. ~Names([pc |-> pc, address |-> req[r].address, nonce |-> req[r].nonce,
                profile |-> q, version |-> version[q]], p)
    BY DEF Names
  <2> QED BY <1>2, <1>5, <2>1 DEF WithProfile
<1>6. ASSUME NEW r \in Requests, LookUp(r) PROVE ~Names(req'[s], p)
  <2>1. /\ req[r].pc = "lookup" /\ req[r].address \in Addresses
        /\ req[r].token \in Token \cup {None}
    BY <1>6, Carried DEF LookUp
  <2>2. wallet[req[r].address] \in (Profiles \ {p}) \cup {None}
    BY <2>1 DEF Deserted, TypeOK
  <2>3. req[r].token # None => req[r].token.profile \in Profiles \ {p}
    BY <2>1 DEF Deserted, Names, Token
  <2>4. CASE req[r].token = None /\ Goes(r, [req[r] EXCEPT !.pc = "create"])
    <3>1. ~Names([req[r] EXCEPT !.pc = "create"], p)
      BY <1>6, <2>4, Carried DEF LookUp, Names
    <3> QED BY <1>2, <2>4, <3>1
  <2> QED BY <1>5, <1>6, <2>2, <2>3, <2>4 DEF LookUp
<1>7. ASSUME NEW r \in Requests, NEW q \in Profiles, CreateProfile(r, q) PROVE ~Names(req'[s], p)
  <2>1. CASE Ends(r) BY <1>2, <1>3, <2>1 DEF Ends
  <2>2. CASE ~Exists(q) /\ WithProfile(r, "insert", q)
    <3>1. q # p BY <2>2 DEF Deserted, Exists
    <3> QED BY <1>5, <2>2, <3>1
  <2> QED BY <1>7, <2>1, <2>2 DEF CreateProfile
<1>8. ASSUME NEW r \in Requests, AddWallet(r) PROVE ~Names(req'[s], p)
  <2>1. CASE Ends(r) BY <1>2, <1>3, <2>1 DEF Ends
  <2>2. CASE Goes(r, [req[r] EXCEPT !.pc = "issue"])
    <3>1. ~Names([req[r] EXCEPT !.pc = "issue"], p)
      BY <1>8, Carried DEF AddWallet, Names, Deserted
    <3> QED BY <1>2, <2>2, <3>1
  <2> QED BY <1>8, <2>1, <2>2 DEF AddWallet
<1>9. ASSUME NEW r \in Requests, CountWallets(r) PROVE ~Names(req'[s], p)
  <2>1. CASE Ends(r) BY <1>2, <1>3, <2>1 DEF Ends
  <2>2. CASE Deletes(r)
    <3>1. ~Names([pc |-> "delete", profile |-> req[r].profile, address |-> req[r].address,
                  counted |-> WalletsOf(req[r].profile)], p)
      BY <1>9 DEF CountWallets, Names, Deserted
    <3> QED BY <1>2, <2>2, <3>1 DEF Deletes
  <2> QED BY <1>9, <2>1, <2>2 DEF CountWallets
<1>10. ASSUME NEW r \in Requests, NEW t \in tokens,
              Logout(r, t) \/ \E a \in Addresses : RemoveWallet(r, t, a)
       PROVE  ~Names(req'[s], p)
  <2>1. /\ ~Names([pc |-> "bump", profile |-> t.profile, version |-> t.version], p)
        /\ \A a \in Addresses :
             ~Names([pc |-> "count", profile |-> t.profile, address |-> a], p)
    BY DEF Names, Deserted
  <2> QED BY <1>2, <1>10, <2>1 DEF Logout, RemoveWallet
<1>11. ASSUME NEW r \in Requests,
              Issue(r) \/ DeleteWallet(r) \/ IncrementVersion(r) \/ Abandon(r)
       PROVE  ~Names(req'[s], p)
  BY <1>2, <1>3, <1>11 DEF Issue, DeleteWallet, IncrementVersion, Abandon, Ends
<1>12. CASE Restart BY <1>3, <1>12 DEF Restart
<1>13. ASSUME NEW r \in Requests, NEW n \in Nonces,
              MismatchChallenge(r, n) \/ \E t \in tokens \cup {None} : TakeChallenge(r, n, t)
       PROVE  ~Names(req'[s], p)
  BY <1>1, <1>4, <1>13 DEF MismatchChallenge
<1>14. ASSUME NEW r \in Requests,
             \/ LookUp(r)
             \/ \E q \in Profiles : CreateProfile(r, q)
             \/ AddWallet(r) \/ Issue(r)
             \/ CountWallets(r) \/ DeleteWallet(r) \/ IncrementVersion(r) \/ Abandon(r)
       PROVE  ~Names(req'[s], p)
  BY <1>6, <1>7, <1>8, <1>9, <1>11, <1>14
<1>15. CASE \/ \E n \in Nonces, a \in Addresses : GetChallenge(n, a)
            \/ \E n \in Nonces : Evict(n)
            \/ \E t \in tokens : TokenExpires(t)
            \/ UNCHANGED vars
  BY <1>1, <1>15 DEF GetChallenge, Evict, TokenExpires, vars
<1> QED BY <1>10, <1>12, <1>13, <1>14, <1>15 DEF Next

\* A profile that nobody can speak for stays so.
THEOREM DesertedStays == Spec => DesertedForGood
<1>1. TypeOK /\ [Next]_vars => [\A p \in Profiles : Deserted(p) => Deserted(p)']_vars
  <2> SUFFICES ASSUME TypeOK, [Next]_vars, NEW p \in Profiles, Deserted(p)
               PROVE  Deserted(p)'
    OBVIOUS
  <2>1. \A s \in Requests : ~Names(req'[s], p) BY DesertedUnnamed
  <2>2. primary'[p] = primary[p]
    <3>1. ASSUME NEW r \in Requests, NEW q \in Profiles, CreateProfile(r, q)
          PROVE  primary'[p] = primary[p]
      BY <3>1 DEF CreateProfile, Exists, Deserted, TypeOK
    <3> QED BY <3>1
      DEF Next, vars, tables, GetChallenge, Evict, MismatchChallenge, TakeChallenge, LookUp,
          AddWallet, DeleteWallet, Issue, RemoveWallet, CountWallets, Logout,
          IncrementVersion, Abandon, TokenExpires, Restart
  <2>3. \A a \in Addresses : wallet'[a] # p
    <3>1. ASSUME NEW r \in Requests, AddWallet(r) PROVE \A a \in Addresses : wallet'[a] # p
      <4>1. req[r].profile # p BY <3>1, Carried DEF AddWallet, Names, Deserted
      <4> QED BY <3>1, <4>1 DEF AddWallet, Deserted, TypeOK
    <3>2. ASSUME NEW r \in Requests, DeleteWallet(r) PROVE \A a \in Addresses : wallet'[a] # p
      BY <3>2 DEF DeleteWallet, Deserted, TypeOK
    <3>3. CASE wallet' = wallet BY <3>3 DEF Deserted
    <3> QED BY <3>1, <3>2, <3>3
      DEF Next, vars, tables, GetChallenge, Evict, MismatchChallenge, TakeChallenge, LookUp,
          CreateProfile, Issue, RemoveWallet, CountWallets, Logout,
          IncrementVersion, Abandon, TokenExpires, Restart
  <2>4. \A t \in tokens' : t.profile # p
    <3>1. ASSUME NEW r \in Requests, Issue(r) PROVE \A t \in tokens' : t.profile # p
      <4>1. req[r].profile # p BY <3>1 DEF Issue, Names, Deserted
      <4> QED BY <3>1, <4>1 DEF Issue, Deserted
    <3>2. CASE tokens' \subseteq tokens BY <3>2 DEF Deserted
    <3> QED BY <3>1, <3>2
      DEF Next, vars, tables, GetChallenge, Evict, MismatchChallenge, TakeChallenge, LookUp,
          CreateProfile, AddWallet, DeleteWallet, RemoveWallet, CountWallets, Logout,
          IncrementVersion, Abandon, TokenExpires, Restart
  <2> QED BY <2>1, <2>2, <2>3, <2>4 DEF Deserted
<1> QED BY <1>1, TypeCorrect, PTL DEF Spec, DesertedForGood
=============================================================================
