---------------------------- MODULE IdentityProofs ----------------------------
(* The safety properties of Identity, for any number of keys, addresses and         *)
(* challenges and any durations.  Requests interleave between their two mutations;  *)
(* what makes the properties inductive is what each mutation checks by itself, the   *)
(* ids of challenges, and the order of the times of a link.                          *)
EXTENDS Identity, TLAPS

\* Ids are not reused, and a challenge that is not marked has let nothing pass.
ChallengeInv ==
  /\ \A c \in challenges : c.id < issued /\ c.id \in DOMAIN uses
  /\ \A c, d \in challenges : c.id = d.id => c = d
  /\ \A c \in challenges : ~c.used => uses[c.id] = 0
  /\ \A i \in DOMAIN uses : (i >= issued => uses[i] = 0) /\ uses[i] <= 1

\* A link is unlinked after it was linked, and neither is in the future.
LinkInv ==
  \A a \in Keys : links[a] # NoLink =>
    /\ links[a].linkedAt <= now
    /\ links[a].unlinkedAt # -1 => links[a].linkedAt <= links[a].unlinkedAt

\* The inductive invariant.
IInv == TypeOK /\ ChallengeInv /\ LinkInv /\ OneActiveLinkPerAddress

\* A step that leaves the challenges, their count and their uses alone keeps ChallengeInv.
LEMMA ChallengesKept ==
  ASSUME ChallengeInv, UNCHANGED <<challenges, issued, uses>>
  PROVE  ChallengeInv'
BY DEF ChallengeInv

\* A step that leaves the links alone keeps what is said of them while time passes.
LEMMA LinksKept ==
  ASSUME IInv, UNCHANGED links, now' \in Nat, now' >= now
  PROVE  LinkInv' /\ OneActiveLinkPerAddress'
BY DEF IInv, TypeOK, LinkInv, OneActiveLinkPerAddress, Link, NoLink

\* Issuing a challenge takes an id that no challenge has.
LEMMA IssueKeeps ==
  ASSUME IInv,
         NEW kind, NEW account, NEW target, Issue(kind, account, target),
         \/ kind = "auth" /\ account = None /\ target \in Keys
         \/ kind = "evm" /\ account \in Keys /\ target \in Addresses
  PROVE  IInv'
<1> DEFINE new == [id |-> issued, kind |-> kind, account |-> account, target |-> target,
                   expiresAt |-> now + TTL, used |-> FALSE]
<1> USE DurationAssumption, BoundAssumption
<1>1. challenges' = challenges \cup {new} /\ issued' = issued + 1
      /\ UNCHANGED <<now, publicKey, links, uses, requests>> /\ issued < MaxChallenges
  BY DEF Issue
<1>2. new \in Challenge
  BY DEF IInv, TypeOK, Challenge
<1>3. TypeOK'
  <2> HIDE DEF new
  <2> QED BY <1>1, <1>2 DEF IInv, TypeOK
<1>4. new.id = issued /\ ~new.used /\ issued \in DOMAIN uses
  BY <1>1 DEF IInv, TypeOK
<1>5. ChallengeInv'
  <2> HIDE DEF new
  <2>1. \A c \in challenges : c.id \in Nat /\ issued \in Nat
    BY DEF IInv, TypeOK, Challenge
  <2>2. \A c \in challenges' : c.id < issued' /\ c.id \in DOMAIN uses'
    BY <1>1, <1>4, <2>1, SMT DEF IInv, ChallengeInv, TypeOK
  <2>3. \A c, d \in challenges' : c.id = d.id => c = d
    BY <1>1, <1>4, <2>1 DEF IInv, ChallengeInv
  <2>4. \A c \in challenges' : ~c.used => uses'[c.id] = 0
    BY <1>1, <1>4 DEF IInv, ChallengeInv, TypeOK
  <2>5. \A i \in DOMAIN uses' : (i >= issued' => uses'[i] = 0) /\ uses'[i] <= 1
    BY <1>1, <1>4 DEF IInv, ChallengeInv, TypeOK
  <2> QED BY <2>2, <2>3, <2>4, <2>5 DEF ChallengeInv
<1>6. LinkInv' /\ OneActiveLinkPerAddress'
  BY <1>1, LinksKept DEF IInv, TypeOK
<1> QED BY <1>3, <1>5, <1>6 DEF IInv

\* Consuming a challenge marks the only one with its id.
LEMMA ConsumeKeeps ==
  ASSUME IInv, NEW c \in challenges, NEW r \in Requests, Consume(c, r)
  PROVE  IInv'
<1> DEFINE spent == [c EXCEPT !.used = TRUE]
<1>1. /\ challenges' = (challenges \ {c}) \cup {spent}
      /\ uses' = [uses EXCEPT ![c.id] = @ + 1]
      /\ requests' = requests \cup {r}
      /\ UNCHANGED <<now, publicKey, links, issued>>
      /\ ~c.used
  BY DEF Consume, Consumable
<1>2. spent \in Challenge /\ spent.id = c.id /\ spent.used
  BY DEF IInv, TypeOK, Challenge
<1> HIDE DEF spent
<1>3. uses[c.id] = 0 /\ c.id \in DOMAIN uses /\ c.id < issued
  BY <1>1 DEF IInv, ChallengeInv
<1>4. TypeOK'
  BY <1>1, <1>2, <1>3 DEF IInv, TypeOK
<1>5. ChallengeInv'
  <2>1. \A d \in challenges : d.id = c.id => d = c
    BY DEF IInv, ChallengeInv
  <2>2. \A d \in challenges' : d = spent \/ (d \in challenges /\ d.id # c.id)
    BY <1>1, <2>1
  <2>3. \A d \in challenges' : d.id < issued' /\ d.id \in DOMAIN uses'
    BY <1>1, <1>2, <1>3, <2>2 DEF IInv, ChallengeInv, TypeOK
  <2>4. \A d, e \in challenges' : d.id = e.id => d = e
    BY <1>2, <2>2 DEF IInv, ChallengeInv
  <2>5. \A d \in challenges' : ~d.used => uses'[d.id] = 0
    BY <1>1, <1>2, <2>2 DEF IInv, ChallengeInv, TypeOK
  <2>6. \A i \in DOMAIN uses' : (i >= issued' => uses'[i] = 0) /\ uses'[i] <= 1
    BY <1>1, <1>3 DEF IInv, ChallengeInv, TypeOK
  <2> QED BY <2>3, <2>4, <2>5, <2>6 DEF ChallengeInv
<1>6. LinkInv' /\ OneActiveLinkPerAddress'
  BY <1>1, LinksKept DEF IInv, TypeOK
<1> QED BY <1>4, <1>5, <1>6 DEF IInv
\* A request that ends with the links as they were.
LEMMA EndKeeps ==
  ASSUME IInv, UNCHANGED <<now, links, challenges, issued, uses>>,
         requests' \subseteq Requests, publicKey' \in [Keys -> Keys \cup {None}]
  PROVE  IInv'
<1>1. TypeOK'
  BY DEF IInv, TypeOK
<1>2. ChallengeInv'
  BY ChallengesKept DEF IInv
<1>3. LinkInv' /\ OneActiveLinkPerAddress'
  BY LinksKept DEF IInv, TypeOK
<1> QED BY <1>1, <1>2, <1>3 DEF IInv

\* Linking an address: no other account holds it actively when it is written.
LEMMA LinkKeeps ==
  ASSUME IInv, NEW r \in requests, LinkEvmAddress(r)
  PROVE  IInv'
<1> DEFINE a == r.account
           address == r.target
           link == Linked(links[a], address)
<1>1. a \in Keys /\ address \in Addresses /\ requests' \subseteq Requests
      /\ UNCHANGED <<now, publicKey, challenges, issued, uses>>
  BY DEF IInv, TypeOK, Requests, LinkEvmAddress, Ends
<1>2. CASE UNCHANGED links
  BY <1>1, <1>2, EndKeeps DEF IInv, TypeOK
<1>3. CASE Free(a, address) /\ links' = [links EXCEPT ![a] = link]
  <2>1. links \in [Keys -> Link \cup {NoLink}] /\ now \in Nat
    BY DEF IInv, TypeOK
  <2>2. /\ link \in Link /\ link.address = address /\ link.unlinkedAt = -1
        /\ link.linkedAt <= now
    BY <1>1, <2>1, NoneAssumption DEF IInv, LinkInv, Link, Linked, NoLink
  <2> HIDE DEF link
  <2>3. links' \in [Keys -> Link \cup {NoLink}]
    BY <1>3, <2>1, <2>2
  <2>4. TypeOK'
    BY <1>1, <2>3 DEF IInv, TypeOK
  <2>5. LinkInv'
    BY <1>1, <1>3, <2>1, <2>2 DEF IInv, LinkInv
  <2>6. \A b \in Keys \ {a} :
          links[b].address = address => links[b].status = "unlinked"
    BY <1>3 DEF Free, HolderOfAddress
  <2>7. OneActiveLinkPerAddress'
    BY <1>1, <1>3, <2>1, <2>2, <2>6 DEF IInv, OneActiveLinkPerAddress
  <2> QED BY <1>1, <2>4, <2>5, <2>7, ChallengesKept DEF IInv
<1> QED BY <1>2, <1>3 DEF LinkEvmAddress

\* Unlinking adds no active link, and is not before the linking.
LEMMA UnlinkKeeps ==
  ASSUME IInv, NEW a \in Keys, UnlinkEvmAddress(a)
  PROVE  IInv'
<1> DEFINE link == [links[a] EXCEPT !.status = "unlinked", !.unlinkedAt = now]
<1>1. links \in [Keys -> Link \cup {NoLink}] /\ now \in Nat /\ links[a] \in Link
  BY DEF IInv, TypeOK, UnlinkEvmAddress
<1>2. links' = [links EXCEPT ![a] = link]
      /\ UNCHANGED <<now, publicKey, challenges, issued, uses, requests>>
  BY <1>1 DEF UnlinkEvmAddress, Link
<1>3. /\ link \in Link /\ link.status = "unlinked"
      /\ link.linkedAt = links[a].linkedAt /\ link.unlinkedAt = now
  BY <1>1 DEF Link
<1> HIDE DEF link
<1>4. links' \in [Keys -> Link \cup {NoLink}]
  BY <1>1, <1>2, <1>3
<1>5. TypeOK'
  BY <1>2, <1>4 DEF IInv, TypeOK
<1>6. LinkInv'
  BY <1>1, <1>2, <1>3 DEF IInv, LinkInv, UnlinkEvmAddress
<1>7. OneActiveLinkPerAddress'
  BY <1>1, <1>2, <1>3 DEF IInv, OneActiveLinkPerAddress
<1> QED BY <1>2, <1>5, <1>6, <1>7, ChallengesKept DEF IInv
\* The initial states satisfy the invariant.
LEMMA InitInv == Init => IInv
<1> SUFFICES ASSUME Init PROVE IInv
  OBVIOUS
<1> USE BoundAssumption, NoneAssumption
<1>1. TypeOK
  <2>1. publicKey \in [Keys -> Keys \cup {None}]
    BY DEF Init
  <2> QED BY <2>1 DEF Init, TypeOK
<1>2. ChallengeInv
  BY DEF Init, ChallengeInv
<1>3. \A a \in Keys : links[a] = NoLink
  BY DEF Init
<1>4. LinkInv /\ OneActiveLinkPerAddress
  BY <1>3 DEF LinkInv, OneActiveLinkPerAddress
<1> QED BY <1>1, <1>2, <1>4 DEF IInv

\* Every step preserves the invariant.
LEMMA NextInv == IInv /\ [Next]_vars => IInv'
<1> SUFFICES ASSUME IInv, [Next]_vars PROVE IInv'
  OBVIOUS
<1> USE NoneAssumption
<1>1. ASSUME NEW k \in Keys, AuthChallenge(k) PROVE IInv'
  BY <1>1, IssueKeeps DEF AuthChallenge
<1>2. ASSUME NEW a \in Keys, NEW address \in Addresses, EvmChallenge(a, address) PROVE IInv'
  BY <1>2, IssueKeeps DEF EvmChallenge
<1>3. ASSUME NEW c \in challenges,
             BeginSignIn(c) \/ BeginView(c) \/ BeginLinkEvm(c)
               \/ \E a \in Keys : BeginLinkKey(c, a)
      PROVE  IInv'
  <2>1. c \in Challenge
    BY DEF IInv, TypeOK
  <2>2. PICK r \in Requests : Consume(c, r)
    <3>1. CASE BeginSignIn(c)
      BY <2>1, <3>1 DEF BeginSignIn, Challenge, Requests
    <3>2. CASE BeginView(c)
      BY <2>1, <3>2 DEF BeginView, Challenge, Requests
    <3>3. CASE BeginLinkEvm(c)
      BY <2>1, <3>3 DEF BeginLinkEvm, Challenge, Requests
    <3>4. CASE \E a \in Keys : BeginLinkKey(c, a)
      BY <2>1, <3>4 DEF BeginLinkKey, Challenge, Requests
    <3> QED BY <1>3, <3>1, <3>2, <3>3, <3>4
  <2> QED BY <2>2, ConsumeKeeps
<1>4. ASSUME NEW c \in challenges, PruneChallenge(c) PROVE IInv'
  <2>1. challenges' \subseteq challenges
        /\ UNCHANGED <<now, publicKey, links, issued, uses, requests>>
    BY <1>4 DEF PruneChallenge
  <2>2. TypeOK'
    BY <2>1 DEF IInv, TypeOK
  <2>3. ChallengeInv'
    BY <2>1 DEF IInv, ChallengeInv
  <2> QED BY <2>1, <2>2, <2>3, LinksKept DEF IInv, TypeOK
<1>5. ASSUME NEW r \in requests, Request(r) PROVE IInv'
  <2>1. CASE SignIn(r)
    BY <2>1, EndKeeps DEF SignIn, Ends, IInv, TypeOK, Requests
  <2>2. CASE LinkPublicKey(r)
    BY <2>2, EndKeeps DEF LinkPublicKey, Ends, IInv, TypeOK, Requests
  <2>3. CASE LinkEvmAddress(r)
    BY <2>3, LinkKeeps
  <2>4. CASE Drop(r)
    BY <2>4, EndKeeps DEF Drop, Ends, IInv, TypeOK
  <2> QED BY <1>5, <2>1, <2>2, <2>3, <2>4 DEF Request
<1>6. ASSUME NEW a \in Keys, UnlinkEvmAddress(a) PROVE IInv'
  BY <1>6, UnlinkKeeps
<1>7. CASE Tick
  <2>1. now' \in Nat /\ now' >= now
        /\ UNCHANGED <<publicKey, links, challenges, issued, uses, requests>>
    BY <1>7 DEF Tick, IInv, TypeOK
  <2>2. TypeOK'
    BY <2>1 DEF IInv, TypeOK
  <2> QED BY <2>1, <2>2, LinksKept, ChallengesKept DEF IInv
<1>8. CASE UNCHANGED vars
  BY <1>8, EndKeeps DEF vars, IInv, TypeOK
<1> QED BY <1>1, <1>2, <1>3, <1>4, <1>5, <1>6, <1>7, <1>8 DEF Next

\* The invariant holds throughout.
LEMMA Invariant == Spec => []IInv
BY InitInv, NextInv, PTL DEF Spec

\* linkEvmAddress: an EVM address is actively linked to at most one account.
THEOREM LinksAreExclusive == Spec => []OneActiveLinkPerAddress
BY Invariant, PTL DEF IInv

\* consumeAuthChallenge and consumeEvmChallenge: a challenge lets one request pass.
THEOREM ChallengesAreUsedOnce == Spec => []ChallengeUsedOnce
<1>1. IInv => ChallengeUsedOnce
  BY DEF IInv, ChallengeInv, ChallengeUsedOnce
<1> QED BY <1>1, Invariant, PTL

\* A step moves an account to another address only after the cooldown.
LEMMA MoveIsSpaced ==
  ASSUME IInv, [Next]_vars, NEW a \in Keys,
         links[a] # NoLink, links'[a].address # links[a].address
  PROVE  now - links[a].linkedAt >= Cooldown
<1>1. PICK r \in requests : LinkEvmAddress(r) /\ links' # links
  <2>1. links' # links
    OBVIOUS
  <2>2. ASSUME NEW b \in Keys, UnlinkEvmAddress(b) PROVE FALSE
    <3>1. links \in [Keys -> Link \cup {NoLink}] /\ links[b] # NoLink
          /\ links' = [links EXCEPT ![b].status = "unlinked", ![b].unlinkedAt = now]
      BY <2>2 DEF UnlinkEvmAddress, IInv, TypeOK
    <3>2. links'[a].address = links[a].address
      BY <3>1 DEF Link
    <3> QED BY <3>2
  <2>3. ASSUME UNCHANGED links PROVE FALSE
    BY <2>1, <2>3
  <2> QED
    BY <2>1, <2>2, <2>3
    DEF Next, vars, AuthChallenge, EvmChallenge, Issue, BeginSignIn, BeginView, BeginLinkEvm,
        BeginLinkKey, Consume, PruneChallenge, Request, SignIn, LinkPublicKey, Drop, Tick
<1>2. links \in [Keys -> Link \cup {NoLink}] /\ now \in Nat /\ links[a] \in Link
  BY DEF IInv, TypeOK
<1>3. r.account \in Keys /\ links' = [links EXCEPT ![r.account] = Linked(@, r.target)]
      /\ Rested(links[r.account], r.target)
  BY <1>1 DEF LinkEvmAddress, IInv, TypeOK, Requests
<1>4. a = r.account /\ Linked(links[a], r.target).address = r.target
  BY <1>2, <1>3 DEF Linked
<1>5. now - LastUnlink(links[a]) >= Cooldown
  BY <1>2, <1>3, <1>4 DEF Rested
<1>6. links[a].linkedAt <= LastUnlink(links[a]) /\ LastUnlink(links[a]) \in Int
  BY <1>2 DEF IInv, LinkInv, LastUnlink, Link
<1> QED BY <1>2, <1>5, <1>6, DurationAssumption DEF Link

\* The cooldown of linkEvmAddress cannot be shortened by unlinking and linking again.
THEOREM ChangesAreSpaced == Spec => AddressChangesAreSpaced
<1>1. IInv /\ [Next]_vars =>
        [\A a \in Keys :
           links[a] # NoLink /\ links'[a].address # links[a].address =>
             now - links[a].linkedAt >= Cooldown]_vars
  BY MoveIsSpaced
<1> QED BY <1>1, Invariant, PTL DEF Spec, AddressChangesAreSpaced
=============================================================================
