------------------------------- MODULE Identity -------------------------------
(* Accounts of the auth service: signing in with a passkey, linking a casino key   *)
(* and an EVM address (services/auth/src/server.ts over website/convex/users.ts,   *)
(* auth.ts and evm.ts).  A request consumes its challenge in one Convex mutation   *)
(* and takes effect in another; other requests run between the two.                *)
EXTENDS Integers, FiniteSets

CONSTANTS Keys,          \* casino public keys; an account's id is the key it signs in with
          Addresses,     \* EVM addresses
          None,
          TTL,           \* AUTH_CHALLENGE_TTL_MS
          Cooldown,      \* RELINK_COOLDOWN_MS
          MaxChallenges, \* bound: challenges
          MaxTime        \* bound: the clock

ASSUME DurationAssumption == TTL \in Nat /\ Cooldown \in Nat
ASSUME BoundAssumption == MaxChallenges \in Nat
ASSUME NoneAssumption == None \notin Keys /\ None \notin Addresses

VARIABLES
  now,
  publicKey,  \* users: account -> its casino key, or None where there is no account
  links,      \* evm_links: account -> its link, or NoLink
  challenges, \* auth_challenges and evm_challenges
  issued,     \* the number of challenges, which are their ids
  uses,       \* how many requests each challenge has let pass (auxiliary)
  requests    \* requests past their challenge and before their effect

vars == <<now, publicKey, links, challenges, issued, uses, requests>>

NoLink == [address |-> None]
Link == [address : Addresses, status : {"active", "unlinked"}, linkedAt : Nat,
         unlinkedAt : Nat \cup {-1}]

\* An auth challenge is for a key, an EVM challenge for an account and an address.
Challenge ==
  [id : Nat, kind : {"auth"}, account : {None}, target : Keys, expiresAt : Nat, used : BOOLEAN]
  \cup
  [id : Nat, kind : {"evm"}, account : Keys, target : Addresses, expiresAt : Nat, used : BOOLEAN]
Requests ==
  [op : {"signIn", "linkKey", "view"}, account : Keys, target : Keys] \cup
  [op : {"linkEvm"}, account : Keys, target : Addresses]

\* Accounts may have signed in before.
Init ==
  /\ now = 0
  /\ publicKey \in {f \in [Keys -> Keys \cup {None}] : \A k \in Keys : f[k] \in {k, None}}
  /\ links = [k \in Keys |-> NoLink]
  /\ challenges = {}
  /\ issued = 0
  /\ uses = [i \in 0 .. MaxChallenges - 1 |-> 0]
  /\ requests = {}

-----------------------------------------------------------------------------
(* Challenges. *)

Issue(kind, account, target) ==
  /\ issued < MaxChallenges
  /\ issued' = issued + 1
  /\ challenges' = challenges \cup
       {[id |-> issued, kind |-> kind, account |-> account, target |-> target,
         expiresAt |-> now + TTL, used |-> FALSE]}
  /\ UNCHANGED <<now, publicKey, links, uses, requests>>

\* /auth/challenge and /mobile/challenge.
AuthChallenge(key) == Issue("auth", None, key)

\* /profile/evm-challenge: the account has a casino key.
EvmChallenge(account, address) ==
  /\ publicKey[account] # None
  /\ Issue("evm", account, address)

\* Mutant: a challenge is not marked as used.
Usable(c) == c.expiresAt > now

Consumable(c) == ~c.used /\ c.expiresAt > now

\* consumeAuthChallenge and consumeEvmChallenge, in one mutation.
Consume(c, r) ==
  /\ c \in challenges
  /\ Consumable(c)
  /\ challenges' = (challenges \ {c}) \cup {[c EXCEPT !.used = TRUE]}
  /\ uses' = [uses EXCEPT ![c.id] = @ + 1]
  /\ requests' = requests \cup {r}
  /\ UNCHANGED <<now, publicKey, links, issued>>

\* authorize: a sign-in presents a challenge and its signature.
BeginSignIn(c) ==
  /\ c.kind = "auth"
  /\ Consume(c, [op |-> "signIn", account |-> c.target, target |-> c.target])

\* /mobile/entitlements.
BeginView(c) ==
  /\ c.kind = "auth"
  /\ Consume(c, [op |-> "view", account |-> c.target, target |-> c.target])

\* /profile/link-public-key, of an account that is signed in.
BeginLinkKey(c, a) ==
  /\ c.kind = "auth"
  /\ publicKey[a] # None
  /\ Consume(c, [op |-> "linkKey", account |-> a, target |-> c.target])

\* /profile/link-evm.
BeginLinkEvm(c) ==
  /\ c.kind = "evm"
  /\ Consume(c, [op |-> "linkEvm", account |-> c.account, target |-> c.target])

\* pruneAuthChallenges: long after the challenge has expired; EVM challenges stay.
PruneChallenge(c) ==
  /\ c \in challenges /\ c.kind = "auth"
  /\ c.expiresAt < now
  /\ challenges' = challenges \ {c}
  /\ UNCHANGED <<now, publicKey, links, issued, uses, requests>>

-----------------------------------------------------------------------------
(* Effects: the second mutation of a request. *)

Ends(r) == r \in requests /\ requests' = requests \ {r}

\* upsertUser, by authProvider and authSubject: whoever else has the key.
SignIn(r) ==
  /\ r.op = "signIn"
  /\ Ends(r)
  /\ publicKey' = [publicKey EXCEPT ![r.account] = r.target]
  /\ UNCHANGED <<now, links, challenges, issued, uses>>

Holders(key) == {k \in Keys : publicKey[k] = key}
HolderOfAddress(address) == {k \in Keys : links[k].address = address}

\* linkPublicKey; unique() throws where two accounts hold the key.
LinkPublicKey(r) ==
  /\ r.op = "linkKey"
  /\ Ends(r)
  /\ publicKey' = IF Holders(r.target) \subseteq {r.account}
                    THEN [publicKey EXCEPT ![r.account] = r.target]
                    ELSE publicKey
  /\ UNCHANGED <<now, links, challenges, issued, uses>>

\* Mutant: an address that another account holds may be linked.
FreeForAll(account, address) == Cardinality(HolderOfAddress(address)) <= 1

\* unique() throws where two links name the address, whatever their status.
Free(account, address) ==
  /\ Cardinality(HolderOfAddress(address)) <= 1
  /\ \A k \in HolderOfAddress(address) \ {account} : links[k].status = "unlinked"

LastUnlink(link) == IF link.unlinkedAt # -1 THEN link.unlinkedAt ELSE link.linkedAt

\* Mutant: the cooldown is counted for an address that is unlinked only.
RestedIfUnlinked(link, address) ==
  link = NoLink \/ link.address = address \/ link.status = "active"
                \/ now - LastUnlink(link) >= Cooldown

\* The cooldown between one address of an account and another.
Rested(link, address) ==
  link = NoLink \/ link.address = address \/ now - LastUnlink(link) >= Cooldown

\* Linking the same address again keeps the time of the first linking.
Linked(link, address) ==
  [address |-> address, status |-> "active", unlinkedAt |-> -1,
   linkedAt |-> IF link.address = address THEN link.linkedAt ELSE now]

LinkEvmAddress(r) ==
  /\ r.op = "linkEvm"
  /\ Ends(r)
  /\ LET a == r.account
         address == r.target
     IN  links' = IF publicKey[a] # None /\ Free(a, address) /\ Rested(links[a], address)
                    THEN [links EXCEPT ![a] = Linked(@, address)]
                    ELSE links
  /\ UNCHANGED <<now, publicKey, challenges, issued, uses>>

UnlinkEvmAddress(a) ==
  /\ links[a] # NoLink
  /\ links[a].status = "active"
  /\ links' = [links EXCEPT ![a].status = "unlinked", ![a].unlinkedAt = now]
  /\ UNCHANGED <<now, publicKey, challenges, issued, uses, requests>>

\* A read of the entitlements, a bad signature or a stop of the process: no effect,
\* and the challenge is spent.
Drop(r) == Ends(r) /\ UNCHANGED <<now, publicKey, links, challenges, issued, uses>>

Tick ==
  /\ now < MaxTime
  /\ now' = now + 1
  /\ UNCHANGED <<publicKey, links, challenges, issued, uses, requests>>

-----------------------------------------------------------------------------

Request(r) == SignIn(r) \/ LinkPublicKey(r) \/ LinkEvmAddress(r) \/ Drop(r)

Next ==
  \/ \E k \in Keys : AuthChallenge(k)
  \/ \E a \in Keys, address \in Addresses : EvmChallenge(a, address)
  \/ \E c \in challenges :
       \/ BeginSignIn(c) \/ BeginView(c) \/ BeginLinkEvm(c) \/ PruneChallenge(c)
       \/ \E a \in Keys : BeginLinkKey(c, a)
  \/ \E r \in requests : Request(r)
  \/ \E a \in Keys : UnlinkEvmAddress(a)
  \/ Tick

Spec == Init /\ [][Next]_vars

-----------------------------------------------------------------------------
(* Properties. *)

\* The variables have their types.
TypeOK ==
  /\ now \in Nat /\ issued \in Nat
  /\ publicKey \in [Keys -> Keys \cup {None}]
  /\ links \in [Keys -> Link \cup {NoLink}]
  /\ challenges \subseteq Challenge
  /\ uses \in [0 .. MaxChallenges - 1 -> Nat]
  /\ requests \subseteq Requests

\* However the requests of two accounts interleave between their two mutations, an
\* EVM address is actively linked to at most one account.
OneActiveLinkPerAddress ==
  \A a, b \in Keys :
    links[a] # NoLink /\ links[b] # NoLink /\ links[a].address = links[b].address
      /\ links[a].status = "active" /\ links[b].status = "active" => a = b

\* A challenge lets one request pass, however many present it at once, before and
\* after it expires and is pruned.
ChallengeUsedOnce == \A i \in DOMAIN uses : uses[i] <= 1

\* An account that moves to another address has held the former one, linked or
\* unlinked, for the cooldown at least.
AddressChangesAreSpaced ==
  [][\A a \in Keys :
       links[a] # NoLink /\ links'[a].address # links[a].address =>
         now - links[a].linkedAt >= Cooldown]_vars
=============================================================================
