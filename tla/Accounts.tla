------------------------------- MODULE Accounts -------------------------------
(***************************************************************************)
(* Profiles, wallets and sessions: routes/auth.rs over db/profiles.rs and  *)
(* the challenge cache of main.rs.                                         *)
(*                                                                         *)
(* A user proves to hold an address by signing a challenge; POST /connect  *)
(* trades the challenge for a token of the address's profile, creating the *)
(* profile or linking the address to that of the caller's token.  A logout *)
(* raises the version the profile's tokens must have.  Every awaited call  *)
(* of a handler is a step, and a handler may be dropped at any of them.    *)
(*                                                                         *)
(* A signature counts as given by whoever sends the request; labels and    *)
(* payment addresses are left out.                                         *)
(***************************************************************************)
EXTENDS Naturals

CONSTANTS
  Addresses,    \* ordinals addresses
  Profiles,     \* ids of profiles
  Nonces,       \* of challenges; each is drawn once
  Requests,
  MaxVersion,   \* bound on the logouts of a profile
  None

ASSUME NoneAssumption ==
  /\ None \notin Addresses \cup Profiles
  /\ {"new", "gone"} \cap Addresses = {}
  /\ MaxVersion \in Nat \ {0}

VARIABLES
  challenge,   \* cache: the address a nonce was issued for, "new" or "gone"
  primary,     \* table profiles: primary_address, None when there is no row
  version,     \* table profiles: token_version
  wallet,      \* table profile_wallets: the profile an address is linked to
  tokens,      \* tokens in the users' hands
  req          \* the requests in flight

vars == <<challenge, primary, version, wallet, tokens, req>>

Versions == 1 .. MaxVersion
Token    == [profile : Profiles, version : Versions, nonce : Nonces]

Idle == [pc |-> "idle"]

\* A connect past its challenge, and a request of an authenticated user.
Connecting ==
  [pc : {"lookup", "create"}, address : Addresses, nonce : Nonces,
   token : Token \cup {None}]
    \cup [pc : {"linkTo", "insert", "issue"}, address : Addresses, nonce : Nonces,
          profile : Profiles, version : Versions]
Authenticated ==
  [pc : {"count"}, profile : Profiles, address : Addresses]
    \cup [pc : {"delete"}, profile : Profiles, address : Addresses,
          counted : SUBSET Addresses]
    \cup [pc : {"bump"}, profile : Profiles, version : Versions]

TypeOK ==
  /\ challenge \in [Nonces -> Addresses \cup {"new", "gone"}]
  /\ primary \in [Profiles -> Addresses \cup {None}]
  /\ version \in [Profiles -> Versions]
  /\ wallet \in [Addresses -> Profiles \cup {None}]
  /\ tokens \subseteq Token
  /\ req \in [Requests -> {Idle} \cup Connecting \cup Authenticated]

Init ==
  /\ challenge = [n \in Nonces |-> "new"]
  /\ primary = [p \in Profiles |-> None]
  /\ version = [p \in Profiles |-> 1]
  /\ wallet = [a \in Addresses |-> None]
  /\ tokens = {}
  /\ req = [r \in Requests |-> Idle]

Exists(p)    == primary[p] # None
WalletsOf(p) == {a \in Addresses : wallet[a] = p}

Goes(r, q) == req' = [req EXCEPT ![r] = q]
Ends(r)    == Goes(r, Idle)

tables == <<primary, version, wallet>>

-----------------------------------------------------------------------------
\* GET /challenge, and what drops an entry of the cache: its time to live, its
\* capacity.

GetChallenge(n, a) ==
  /\ challenge[n] = "new"
  /\ challenge' = [challenge EXCEPT ![n] = a]
  /\ UNCHANGED <<tables, tokens, req>>

Evict(n) ==
  /\ challenge[n] \in Addresses
  /\ challenge' = [challenge EXCEPT ![n] = "gone"]
  /\ UNCHANGED <<tables, tokens, req>>

-----------------------------------------------------------------------------
\* POST /connect.

\* A challenge that does not match the request is removed from the cache too.
MismatchChallenge(r, n) ==
  /\ req[r] = Idle
  /\ challenge[n] \in Addresses
  /\ challenge' = [challenge EXCEPT ![n] = "gone"]
  /\ UNCHANGED <<tables, tokens, req>>

TakeChallenge_Get(r, n, t) ==
  /\ req[r] = Idle
  /\ challenge[n] \in Addresses
  /\ UNCHANGED challenge
  /\ Goes(r, [pc |-> "lookup", address |-> challenge[n], nonce |-> n, token |-> t])
  /\ UNCHANGED <<tables, tokens>>

TakeChallenge(r, n, t) ==
  /\ req[r] = Idle
  /\ challenge[n] \in Addresses
  /\ challenge' = [challenge EXCEPT ![n] = "gone"]
  /\ Goes(r, [pc |-> "lookup", address |-> challenge[n], nonce |-> n, token |-> t])
  /\ UNCHANGED <<tables, tokens>>

\* The request goes on with a profile row it has read.
WithProfile(r, pc, p) ==
  Goes(r, [pc |-> pc, address |-> req[r].address, nonce |-> req[r].nonce,
           profile |-> p, version |-> version[p]])

\* Mutant: a profile whose primary address this is serves without a wallet row.
LookUp_ByPrimary(r) ==
  /\ req[r].pc = "lookup"
  /\ LET known == {p \in Profiles : primary[p] = req[r].address
                                     \/ wallet[req[r].address] = p} IN
       \/ \E p \in known : WithProfile(r, "issue", p)
       \/ known = {} /\ req[r].token # None /\ WithProfile(r, "linkTo", req[r].token.profile)
       \/ known = {} /\ req[r].token = None /\ Goes(r, [req[r] EXCEPT !.pc = "create"])
  /\ UNCHANGED <<challenge, tables, tokens>>

\* get_profile_by_address; without a row, the token, whose version is not
\* looked at here, tells the profile to link to.
LookUp(r) ==
  /\ req[r].pc = "lookup"
  /\ LET p == wallet[req[r].address] IN
       \/ p # None /\ WithProfile(r, "issue", p)
       \/ p = None /\ req[r].token # None /\ WithProfile(r, "linkTo", req[r].token.profile)
       \/ p = None /\ req[r].token = None /\ Goes(r, [req[r] EXCEPT !.pc = "create"])
  /\ UNCHANGED <<challenge, tables, tokens>>

\* create_profile; primary_address is unique.
CreateProfile(r, p) ==
  /\ req[r].pc = "create"
  /\ IF \E q \in Profiles : primary[q] = req[r].address
     THEN Ends(r) /\ UNCHANGED primary
     ELSE /\ ~Exists(p)
          /\ primary' = [primary EXCEPT ![p] = req[r].address]
          /\ WithProfile(r, "insert", p)
  /\ UNCHANGED <<challenge, version, wallet, tokens>>

\* add_wallet_to_profile; ordinals_address is unique.
AddWallet_Moves(r) ==
  /\ req[r].pc \in {"linkTo", "insert"}
  /\ wallet' = [wallet EXCEPT ![req[r].address] = req[r].profile]
  /\ Goes(r, [req[r] EXCEPT !.pc = "issue"])
  /\ UNCHANGED <<challenge, primary, version, tokens>>

AddWallet(r) ==
  /\ req[r].pc \in {"linkTo", "insert"}
  /\ IF wallet[req[r].address] = None
     THEN /\ wallet' = [wallet EXCEPT ![req[r].address] = req[r].profile]
          /\ Goes(r, [req[r] EXCEPT !.pc = "issue"])
     ELSE Ends(r) /\ UNCHANGED wallet
  /\ UNCHANGED <<challenge, primary, version, tokens>>

\* The token has the version of the row as it was read.
Issue_Unversioned(r) ==
  /\ req[r].pc = "issue"
  /\ tokens' = tokens \cup {[profile |-> req[r].profile, version |-> 0,
                             nonce |-> req[r].nonce]}
  /\ Ends(r)
  /\ UNCHANGED <<challenge, tables>>

Issue(r) ==
  /\ req[r].pc = "issue"
  /\ tokens' = tokens \cup {[profile |-> req[r].profile, version |-> req[r].version,
                             nonce |-> req[r].nonce]}
  /\ Ends(r)
  /\ UNCHANGED <<challenge, tables>>

-----------------------------------------------------------------------------
\* The handlers behind authenticate: DELETE /wallets/:address and POST /logout.

Current(t) == t.version = version[t.profile]

RemoveWallet(r, t, a) ==
  /\ req[r] = Idle
  /\ Current(t)
  /\ Goes(r, [pc |-> "count", profile |-> t.profile, address |-> a])
  /\ UNCHANGED <<challenge, tables, tokens>>

\* The removal goes on; the wallets it has counted are kept for the properties.
Deletes(r) ==
  Goes(r, [pc |-> "delete", profile |-> req[r].profile, address |-> req[r].address,
           counted |-> WalletsOf(req[r].profile)])

\* Mutant: a profile with one wallet passes the count.
CountWallets_One(r) ==
  /\ req[r].pc = "count"
  /\ IF WalletsOf(req[r].profile) # {} THEN Deletes(r) ELSE Ends(r)
  /\ UNCHANGED <<challenge, tables, tokens>>

\* remove_wallet_from_profile counts, and deletes in another statement.
CountWallets(r) ==
  /\ req[r].pc = "count"
  /\ IF \E a, b \in WalletsOf(req[r].profile) : a # b THEN Deletes(r) ELSE Ends(r)
  /\ UNCHANGED <<challenge, tables, tokens>>

DeleteWallet(r) ==
  /\ req[r].pc = "delete"
  /\ wallet' = IF wallet[req[r].address] = req[r].profile
               THEN [wallet EXCEPT ![req[r].address] = None]
               ELSE wallet
  /\ Ends(r)
  /\ UNCHANGED <<challenge, primary, version, tokens>>

Logout(r, t) ==
  /\ req[r] = Idle
  /\ Current(t)
  /\ Goes(r, [pc |-> "bump", profile |-> t.profile, version |-> t.version])
  /\ UNCHANGED <<challenge, tables, tokens>>

IncrementVersion_AsRead(r) ==
  /\ req[r].pc = "bump" /\ version[req[r].profile] < MaxVersion
  /\ version' = [version EXCEPT ![req[r].profile] = req[r].version + 1]
  /\ Ends(r)
  /\ UNCHANGED <<challenge, primary, wallet, tokens>>

\* UPDATE profiles SET token_version = token_version + 1
IncrementVersion(r) ==
  /\ req[r].pc = "bump" /\ version[req[r].profile] < MaxVersion
  /\ version' = [version EXCEPT ![req[r].profile] = @ + 1]
  /\ Ends(r)
  /\ UNCHANGED <<challenge, primary, wallet, tokens>>

-----------------------------------------------------------------------------
\* What the environment does: a token expires; the timeout or the client drops a
\* handler; a restart loses the cache and every handler.

TokenExpires(t) ==
  /\ tokens' = tokens \ {t}
  /\ UNCHANGED <<challenge, tables, req>>

Abandon(r) ==
  /\ req[r] # Idle
  /\ Ends(r)
  /\ UNCHANGED <<challenge, tables, tokens>>

Restart ==
  /\ challenge' = [n \in Nonces |-> IF challenge[n] = "new" THEN "new" ELSE "gone"]
  /\ req' = [r \in Requests |-> Idle]
  /\ UNCHANGED <<tables, tokens>>

Next ==
  \/ \E n \in Nonces, a \in Addresses : GetChallenge(n, a)
  \/ \E n \in Nonces : Evict(n)
  \/ \E r \in Requests, n \in Nonces :
       MismatchChallenge(r, n) \/ \E t \in tokens \cup {None} : TakeChallenge(r, n, t)
  \/ \E r \in Requests :
       \/ LookUp(r)
       \/ \E p \in Profiles : CreateProfile(r, p)
       \/ AddWallet(r) \/ Issue(r)
       \/ CountWallets(r) \/ DeleteWallet(r) \/ IncrementVersion(r) \/ Abandon(r)
       \/ \E t \in tokens : Logout(r, t) \/ \E a \in Addresses : RemoveWallet(r, t, a)
  \/ \E t \in tokens : TokenExpires(t)
  \/ Restart

Spec == Init /\ [][Next]_vars

-----------------------------------------------------------------------------
InConnect(r) == req[r].pc \in {"lookup", "create", "linkTo", "insert", "issue"}

\* A challenge opens one session: of several requests with the same signature
\* one gets past the cache, and when it is done none of them does again.
OneSessionPerChallenge ==
  \A r \in Requests : InConnect(r) =>
    /\ \A s \in Requests \ {r} : InConnect(s) => req[s].nonce # req[r].nonce
    /\ \A t \in tokens : t.nonce # req[r].nonce

\* An address that is linked stays with its profile until it is removed from it,
\* whatever connects race to create a profile for it or to link it elsewhere.
AddressKeepsProfile ==
  [][\A a \in Addresses : wallet[a] # None => wallet'[a] \in {wallet[a], None}]_vars

\* "Token has been revoked" is for good: a token that a logout has revoked is
\* not accepted again, though tokens are issued from rows read earlier.
RevokedIsFinal ==
  [][\A t \in tokens : ~Current(t) => t.version # version'[t.profile]]_vars

\* A removal takes a profile's last wallet only if a wallet that it has counted
\* was removed by another meanwhile: "Returns false if it's the last wallet"
\* (db/profiles.rs:81) holds of removals that do not race, and of no others.
LastWalletGoesInARace ==
  [][\A p \in Profiles :
       WalletsOf(p) # {} /\ (\A a \in Addresses : wallet'[a] # p) =>
         \E r \in Requests : /\ req[r].pc = "delete" /\ req[r].profile = p
                             /\ \E a \in req[r].counted : wallet[a] # p]_vars

\* A profile that nobody can speak for: no wallet leads to it, no token and no
\* request names it.  A creation cut off between create_profile and
\* add_wallet_to_profile (auth.rs:387) leaves one behind.
Names(q, p) ==
  \/ q.pc \in {"lookup", "create"} /\ q.token # None /\ q.token.profile = p
  \/ q.pc \notin {"idle", "lookup", "create"} /\ q.profile = p

Deserted(p) ==
  /\ primary[p] # None
  /\ \A a \in Addresses : wallet[a] # p
  /\ \A t \in tokens : t.profile # p
  /\ \A r \in Requests : ~Names(req[r], p)

\* Nobody enters such a profile later, whoever connects with its primary address
\* or links that address elsewhere: the row stays as it is, and with it the
\* unique primary address is spent.
DesertedForGood == [][\A p \in Profiles : Deserted(p) => Deserted(p)']_vars

\* A token is never ahead of its profile: no token outlives the next logout.
TokensNotAhead ==
  \A t \in tokens : t.version <= version[t.profile]

-----------------------------------------------------------------------------
\* The inductive invariant behind the properties above.

\* A challenge that is being traded, or was, has left the cache.
ChallengesAreUsed ==
  /\ \A r \in Requests : InConnect(r) => challenge[req[r].nonce] = "gone"
  /\ \A t \in tokens : challenge[t.nonce] = "gone"

\* Together they make a challenge good for one use.
OneUse == ChallengesAreUsed /\ OneSessionPerChallenge

\* Versions only grow: what a request has read is behind the row, or equal.
VersionsRead ==
  \A r \in Requests : req[r].pc \in {"linkTo", "insert", "issue"} =>
                        req[r].version <= version[req[r].profile]

\* A removal that goes on has counted two wallets.
RemovalsCounted ==
  \A r \in Requests : req[r].pc = "delete" => \E a, b \in req[r].counted : a # b

\* What every step of connect, removal and logout keeps, faults included.
IndInv ==
  /\ TypeOK
  /\ OneUse
  /\ VersionsRead
  /\ TokensNotAhead
  /\ RemovalsCounted

=============================================================================
