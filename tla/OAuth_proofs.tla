---------------------------- MODULE OAuth_proofs ----------------------------
(***************************************************************************)
(* The authorization server keeps its promises: what is revoked stays      *)
(* revoked, a restart is transparent to live sessions, a rotated refresh   *)
(* token lasts as long as its grace and no longer, and the connector keeps *)
(* its client id.  The last two of what a restart must find again need a   *)
(* file that can be read; everything else holds whatever fails.            *)
(*                                                                         *)
(* First the maps: what expires, what the cap drops, and that the cap      *)
(* makes enough room.  Then the invariants, what a served request may do   *)
(* to the tokens and that every request does no more, and one lemma for    *)
(* each other step.                                                        *)
(***************************************************************************)
EXTENDS OAuth, FiniteSetTheorems, WellFoundedInduction, TLAPS

(* A non-empty set of numbers has a least one.                             *)
LEMMA LeastNat ==
    ASSUME NEW T \in SUBSET Nat, T # {}
    PROVE  \E n \in T : \A m \in T : n <= m
<1>1. \A m, n \in Nat : m < n => <<m, n>> \in OpToRel(<, Nat)
  BY DEF OpToRel
<1>2. PICK R : IsWellFoundedOn(R, Nat) /\ \A m, n \in Nat : m < n => <<m, n>> \in R
  BY <1>1, NatLessThanWellFounded, Zenon
<1>3. T \subseteq Nat /\ IsWellFoundedOn(R, Nat)
  BY <1>2
<1>4. PICK n \in T : \A m \in T : ~ (<<m, n>> \in R)
  BY <1>3, WFMin, Zenon
<1>5. \A m \in Nat : m < n => <<m, n>> \in R
  BY <1>2
<1>6. ASSUME NEW m \in T PROVE n <= m
  <2>1. ~ (m < n)
    BY <1>4, <1>5
  <2> QED
    BY <2>1
<1> QED
  BY <1>6

(***************************************************************************)
(* Maps with expiry times.                                                 *)
(***************************************************************************)
Map(n) == [1..n -> Times]

(* Expiry times are numbers, the one of an absent key among them.          *)
LEMMA TimesAreNat == Times \subseteq Nat /\ 0 \in Times
<1>1. MaxTime + AccessTtl + RefreshTtl + Grace + CodeTtl + ReqTtl \in Nat
  BY OAuthAssumption
<1> QED
  BY <1>1 DEF Times

(* Two maps with the same entries are the same.                            *)
LEMMA SameMaps ==
    ASSUME NEW n \in Nat, NEW f \in Map(n), NEW g \in Map(n), \A x \in 1..n : f[x] = g[x]
    PROVE  f = g
<1>1. f = [x \in 1..n |-> f[x]] /\ g = [x \in 1..n |-> g[x]]
  BY DEF Map
<1>2. [x \in 1..n |-> f[x]] = [x \in 1..n |-> g[x]]
  OBVIOUS
<1> QED
  BY <1>1, <1>2, Zenon

(* The entries of a map can be counted.                                    *)
LEMMA PresentIsFinite ==
    ASSUME NEW n \in Nat, NEW map \in Map(n)
    PROVE  /\ Present(map) \subseteq 1..n /\ IsFiniteSet(Present(map))
           /\ Cardinality(Present(map)) \in Nat
<1>1. Present(map) \subseteq 1..n /\ IsFiniteSet(1..n)
  BY FS_Interval DEF Present, Map
<1>2. IsFiniteSet(Present(map))
  BY <1>1, FS_Subset
<1> QED
  BY <1>1, <1>2, FS_CardinalityType

(* Dropping entries.                                                       *)
LEMMA WithoutFacts ==
    ASSUME NEW n \in Nat, NEW map \in Map(n), NEW gone
    PROVE  /\ Without(map, gone) \in Map(n)
           /\ \A x \in 1..n : Without(map, gone)[x] = IF x \in gone THEN 0 ELSE map[x]
           /\ Present(Without(map, gone)) = Present(map) \ gone
<1>1. /\ Without(map, gone) \in Map(n)
      /\ \A x \in 1..n : Without(map, gone)[x] = IF x \in gone THEN 0 ELSE map[x]
  BY TimesAreNat DEF Map, Without
<1>2. DOMAIN map = 1..n /\ DOMAIN Without(map, gone) = 1..n
  BY DEF Map, Without
<1> QED
  BY <1>1, <1>2 DEF Present

(* Dropping the expired ones.                                              *)
LEMMA LiveFacts ==
    ASSUME NEW n \in Nat, NEW map \in Map(n)
    PROVE  /\ Live(map) \in Map(n)
           /\ \A x \in 1..n : Live(map)[x] = IF map[x] <= now THEN 0 ELSE map[x]
           /\ Present(Live(map)) \subseteq Present(map)
<1> DEFINE gone == {x \in DOMAIN map : map[x] <= now}
<1>1. DOMAIN map = 1..n /\ Live(map) = Without(map, gone)
  BY DEF Map, Live
<1>2. \A x \in 1..n : x \in gone <=> map[x] <= now
  BY <1>1
<1> HIDE DEF gone
<1> QED
  BY <1>1, <1>2, WithoutFacts

(* Of k live entries or more, SoonestToExpire finds k: the first in its    *)
(* order of those it left out would have fewer than k before it.           *)
LEMMA SoonestAreEnough ==
    ASSUME NEW n \in Nat, NEW map \in Map(n), NEW k \in Nat,
           k <= Cardinality(Present(map))
    PROVE  /\ SoonestToExpire(map, k) \subseteq Present(map)
           /\ IsFiniteSet(SoonestToExpire(map, k))
           /\ Cardinality(SoonestToExpire(map, k)) \in Nat
           /\ Cardinality(SoonestToExpire(map, k)) >= k
<1> DEFINE P == Present(map)
           G == SoonestToExpire(map, k)
           Earlier(x) == {y \in P : \/ map[y] < map[x]
                                    \/ map[y] = map[x] /\ y < x}
<1>1. G = {x \in P : Cardinality(Earlier(x)) < k}
  BY DEF SoonestToExpire
<1>2. /\ P \subseteq 1..n /\ IsFiniteSet(P) /\ Cardinality(P) \in Nat
      /\ \A x \in P : map[x] \in Nat /\ x \in Nat
  <2>1. P \subseteq 1..n /\ IsFiniteSet(P) /\ Cardinality(P) \in Nat
    BY PresentIsFinite
  <2>2. ASSUME NEW x \in 1..n PROVE map[x] \in Nat /\ x \in Nat
    <3>1. map[x] \in Times
      BY DEF Map
    <3>2. map[x] \in Nat
      BY <3>1, TimesAreNat, Zenon
    <3>3. x \in Nat
      BY OAuthAssumption
    <3> QED
      BY <3>2, <3>3
  <2> QED
    BY <2>1, <2>2
<1>3. G \subseteq P /\ IsFiniteSet(G) /\ Cardinality(G) \in Nat
  BY <1>1, <1>2, FS_Subset, FS_CardinalityType
<1>4. ASSUME Cardinality(G) < k PROVE FALSE
  <2> HIDE DEF P, G
  <2>1. P \ G # {}
    <3>1. Cardinality(P) >= k
      BY DEF P
    <3>2. G # P
      BY <1>2, <1>3, <1>4, <3>1
    <3> QED
      BY <1>3, <3>2
  <2>2. PICK v \in {map[x] : x \in P \ G} : \A w \in {map[x] : x \in P \ G} : v <= w
    <3>1. {map[x] : x \in P \ G} \in SUBSET Nat /\ {map[x] : x \in P \ G} # {}
      BY <1>2, <2>1
    <3> QED
      BY <3>1, LeastNat
  <2>3. PICK x \in {y \in P \ G : map[y] = v} : \A y \in {z \in P \ G : map[z] = v} : x <= y
    <3>1. {y \in P \ G : map[y] = v} \in SUBSET Nat /\ {y \in P \ G : map[y] = v} # {}
      BY <1>2, <2>2
    <3> QED
      BY <3>1, LeastNat
  <2>4. ASSUME NEW y \in Earlier(x) PROVE y \in G
    <3>1. y \in P /\ (map[y] < v \/ (map[y] = v /\ y < x))
      BY <2>3, <2>4
    <3>2. CASE y \in P \ G
      <4>1. v <= map[y] /\ (map[y] = v => x <= y)
        BY <2>2, <2>3, <3>2
      <4> QED
        BY <1>2, <2>3, <3>1, <4>1
    <3> QED
      BY <3>1, <3>2
  <2>5. Cardinality(Earlier(x)) <= Cardinality(G) /\ Cardinality(Earlier(x)) \in Nat
    <3>1. Earlier(x) \in SUBSET G
      BY <2>4
    <3> HIDE DEF Earlier
    <3> QED
      BY <1>3, <3>1, FS_Subset, FS_CardinalityType
  <2>6. x \in G
    BY <1>1, <1>3, <1>4, <2>3, <2>5
  <2> QED
    BY <2>3, <2>6
<1> QED
  BY <1>3, <1>4

(* A map that is capped keeps or loses each entry, and has room.           *)
LEMMA CappedFacts ==
    ASSUME NEW n \in Nat, NEW map \in Map(n), NEW cap \in Nat
    PROVE  /\ Capped(map, cap) \in Map(n)
           /\ \A x \in 1..n : Capped(map, cap)[x] \in {0, map[x]}
           /\ Present(Capped(map, cap)) \subseteq Present(map)
           /\ Cardinality(Present(Capped(map, cap))) \in Nat
           /\ Cardinality(Present(Capped(map, cap))) <= cap
<1> DEFINE N == Cardinality(Present(map))
           G == SoonestToExpire(map, N - cap)
<1>1. N \in Nat /\ IsFiniteSet(Present(map))
  BY PresentIsFinite
<1>2. CASE N <= cap
  <2>1. Capped(map, cap) = map
    BY <1>1, <1>2 DEF Capped
  <2>2. \A x \in 1..n : Capped(map, cap)[x] \in {0, map[x]}
    BY <2>1
  <2> QED
    BY <1>1, <1>2, <2>1, <2>2
<1>3. CASE N > cap
  <2>1. Capped(map, cap) = Without(map, G)
    BY <1>3 DEF Capped
  <2>2. N - cap \in Nat /\ N - cap <= N
    BY <1>1, <1>3
  <2>3. G \subseteq Present(map) /\ IsFiniteSet(G) /\ Cardinality(G) \in Nat /\ Cardinality(G) >= N - cap
    BY <2>2, SoonestAreEnough
  <2> HIDE DEF G
  <2>4. /\ Cardinality(Present(map) \ G) = N - Cardinality(Present(map) \cap G)
        /\ Present(map) \cap G = G
    BY <1>1, <2>3, FS_Difference
  <2>5. IsFiniteSet(Present(map) \ G)
    BY <1>1, FS_Difference
  <2>6. Cardinality(Present(map) \ G) \in Nat /\ Cardinality(Present(map) \ G) <= cap
    <3>1. Cardinality(Present(map) \ G) = N - Cardinality(G)
      BY <2>4
    <3>2. Cardinality(Present(map) \ G) \in Nat
      BY <2>5, FS_CardinalityType
    <3> QED
      BY <1>1, <2>3, <3>1, <3>2
  <2>7. /\ Without(map, G) \in Map(n)
        /\ \A x \in 1..n : Without(map, G)[x] \in {0, map[x]}
        /\ Present(Without(map, G)) = Present(map) \ G
    BY WithoutFacts
  <2> QED
    BY <2>1, <2>6, <2>7
<1> QED
  BY <1>1, <1>2, <1>3

-----------------------------------------------------------------------------
(***************************************************************************)
(* The inductive invariants.                                               *)
(*                                                                         *)
(* The properties speak of memory at the moments a request is served; what *)
(* makes them inductive is what they say of the file, to which a restart   *)
(* returns, and of the save that is under way, which decides what becomes  *)
(* of the file.                                                            *)
(***************************************************************************)
Epochs  == 0..MaxBearers
Stores  == [Kinds -> Map(MaxIssues)]
Files   == [client : 0..MaxClients, epoch : Epochs, token : Stores, torn : {FALSE}]
Savings == [kind : {"none", "start", "issue", "refused", "revoke", "revokeAll"},
            id : 0..MaxIssues, of : Kinds, used : 0..MaxIssues,
            at : {"none", "write", "rename"}]
Mints   == [issue : 0..MaxIssues, ask : 0..MaxLinks, code : 0..MaxCodes, client : 0..MaxClients]
Fates   == [Kinds -> [Issues -> {"alive", "evicted", "answered", "revoked"}]]
Windows == [Issues -> [used : Nat, saved : Nat]]
Origins == [Issues -> [epoch : Epochs, exp : Nat]]

(* Approval: the maps of links and codes respect their caps, and a code    *)
(* that was presented, wiped or lost has gone for good.                    *)
ApprovalInv ==
    /\ now \in 0..MaxTime /\ bearer \in 1..MaxBearers /\ minted \in Mints
    /\ codes \in Map(MaxCodes) /\ Cardinality(Present(codes)) <= MaxPending
    /\ authReqs \in Map(MaxLinks) /\ Cardinality(Present(authReqs)) <= MaxPending
    /\ delayed \subseteq Asks \X Times
    /\ upsets \in 0..MaxUpsets
    /\ spent \subseteq 1..minted.code
    /\ \A c \in Codes : codes[c] # 0 => c \in 1..minted.code
    /\ \A c \in spent : codes[c] = 0

StoreTypes ==
    /\ up \in BOOLEAN /\ epoch \in Epochs /\ client \in 0..MaxClients
    /\ token \in Stores /\ disk \in Files /\ saving \in Savings
    /\ fate \in Fates /\ window \in Windows /\ origin \in Origins
    /\ known \subseteq 0..minted.issue /\ unsaved \in BOOLEAN

(* The tokens respect their cap, and so do those on file.                  *)
RoomInv ==
    \A k \in Kinds : /\ Cardinality(Present(token[k])) <= MaxStored
                     /\ Cardinality(Present(disk.token[k])) <= MaxStored

(* A save is under way only in a server that runs; one that does not has   *)
(* nothing in memory.                                                      *)
RunInv ==
    /\ saving = Idle \/ (up /\ saving.at # "none")
    /\ up => epoch # 0
    /\ ~up => token = NoTokens

(* What has not been minted yet has no trace anywhere.                     *)
MintInv ==
    /\ saving.id \in 0..minted.issue /\ saving.used \in 0..minted.issue
    /\ \A i \in Issues :
          i \notin 1..minted.issue =>
             /\ window[i].saved = Never
             /\ \A k \in Kinds : token[k][i] = 0 /\ disk.token[k][i] = 0 /\ fate[k][i] = "alive"

(* A token whose revocation is being saved is gone from memory, and one    *)
(* whose revocation was saved is gone from the file too.                   *)
DeadInv ==
    \A k \in Kinds, i \in Issues :
       /\ Revoking(k, i) => token[k][i] = 0
       /\ fate[k][i] = "revoked" => token[k][i] = 0 /\ disk.token[k][i] = 0

(* Memory holds tokens of the bridge token the server started with, the    *)
(* file those of the one it names; bridge tokens only move on.             *)
EpochInv ==
    /\ epoch <= bearer /\ disk.epoch <= bearer /\ (up => disk.epoch <= epoch)
    /\ \A k \in Kinds, i \in Issues :
          /\ token[k][i] # 0 => origin[i].epoch = epoch
          /\ disk.token[k][i] # 0 => origin[i].epoch = disk.epoch

StoreInv == StoreTypes /\ RoomInv /\ RunInv /\ MintInv /\ DeadInv /\ EpochInv

(* A refresh token that was rotated, or is being rotated: where it is      *)
(* present, in memory or in the file, it ends neither before the grace of  *)
(* its first use, or its own expiry, nor after that of the first rotation  *)
(* that was saved.                                                         *)
FirstUse(i) == window[i].used <= now + Grace \/ window[i].used = Never

SavedEnds(i) ==
    window[i].saved # Never =>
       /\ token["refresh"][i] <= window[i].saved
       /\ disk.token["refresh"][i] <= window[i].saved
       /\ disk.epoch # 0 /\ origin[i].epoch <= disk.epoch

NotBefore(t, i) == t = 0 \/ window[i].used <= t \/ origin[i].exp <= t

BeingUsed(i) ==
    i = saving.used => token["refresh"][i] <= now + Grace /\ origin[i].epoch = epoch

GraceInv ==
    \A i \in Issues :
       /\ FirstUse(i) /\ SavedEnds(i) /\ BeingUsed(i)
       /\ NotBefore(token["refresh"][i], i) /\ NotBefore(disk.token["refresh"][i], i)

Lasting(i) ==
    fate["refresh"][i] = "alive" /\ now < window[i].used /\ now < origin[i].exp

(* And it is present where it must be.                                     *)
StayInv ==
    \A i \in Issues :
       Lasting(i) =>
          /\ /\ window[i].saved # Never \/ i = saving.used
             /\ up /\ origin[i].epoch = epoch /\ ~Revoking("refresh", i)
             => token["refresh"][i] # 0
          /\ window[i].saved # Never /\ origin[i].epoch = disk.epoch
             => disk.token["refresh"][i] # 0

(* Between requests memory and file agree, unless the last save failed.    *)
SameLife(s, t) == s = t \/ (s <= now /\ t <= now)

RestartInv ==
    Ready /\ ~unsaved =>
        /\ disk.client = client /\ disk.epoch = epoch
        /\ \A k \in Kinds, i \in Issues : SameLife(token[k][i], disk.token[k][i])

(* The server runs under the client id on file.                            *)
ClientInv == up /\ disk.client # 0 => client = disk.client

-----------------------------------------------------------------------------
(* The answer of a kind of map in a store.                                 *)
LEMMA StoreFacts ==
    ASSUME NEW st \in Stores, NEW k \in Kinds, NEW i \in Issues
    PROVE  st[k] \in Map(MaxIssues) /\ st[k][i] \in Times /\ st[k][i] \in Nat
<1>1. st[k] \in Map(MaxIssues)
  BY DEF Stores
<1>2. st[k][i] \in Times
  BY <1>1 DEF Map, Issues
<1> QED
  BY <1>1, <1>2, TimesAreNat, Zenon

(* saveStore: what is expired goes, what is beyond the cap goes and is     *)
(* recorded, everything else stays as it was handed over.                  *)
LEMMA SaveFacts ==
    ASSUME now \in 0..MaxTime, fate \in Fates, NEW tokens \in Stores, NEW owed,
           saveStore(tokens, owed)
    PROVE  /\ token' \in Stores /\ fate' \in Fates /\ saving' = owed
           /\ \A k \in Kinds : Cardinality(Present(token'[k])) <= MaxStored
           /\ \A k \in Kinds, i \in Issues :
                 /\ token'[k][i] \in {0, tokens[k][i]}
                 /\ token'[k][i] # 0 => tokens[k][i] > now
                 /\ fate'[k][i] = fate[k][i] \/ (fate[k][i] = "alive" /\ fate'[k][i] = "evicted"
                                                 /\ tokens[k][i] > now)
                 /\ k = "refresh" /\ fate'[k][i] = "alive" /\ tokens[k][i] > now
                    => token'[k][i] # 0
<1>1. MaxIssues \in Nat /\ MaxStored \in Nat
  BY OAuthAssumption
<1>2. ASSUME NEW k \in Kinds
      PROVE  /\ token'[k] \in Map(MaxIssues) /\ Cardinality(Present(token'[k])) <= MaxStored
             /\ Live(tokens[k]) \in Map(MaxIssues)
             /\ \A i \in Issues : /\ token'[k][i] \in {0, Live(tokens[k])[i]}
                                  /\ Live(tokens[k])[i] = IF tokens[k][i] <= now THEN 0 ELSE tokens[k][i]
  <2>1. tokens[k] \in Map(MaxIssues)
    BY <1>2, StoreFacts DEF Stores
  <2>2. /\ Live(tokens[k]) \in Map(MaxIssues)
        /\ \A i \in Issues : Live(tokens[k])[i] = IF tokens[k][i] <= now THEN 0 ELSE tokens[k][i]
    BY <1>1, <2>1, LiveFacts DEF Issues
  <2>3. token'[k] = Capped(Live(tokens[k]), MaxStored)
    BY <1>2 DEF saveStore, serialise
  <2>4. /\ token'[k] \in Map(MaxIssues) /\ Cardinality(Present(token'[k])) <= MaxStored
        /\ \A i \in Issues : token'[k][i] \in {0, Live(tokens[k])[i]}
    BY <1>1, <2>2, <2>3, CappedFacts DEF Issues
  <2> QED
    BY <2>2, <2>4
<1>3. token' \in Stores
  BY <1>2 DEF saveStore, Stores
<1>4. \A k \in Kinds, i \in Issues :
         fate'[k][i] = IF /\ k = "refresh" /\ fate[k][i] = "alive"
                          /\ token'[k][i] = 0 /\ Live(tokens[k])[i] # 0
                       THEN "evicted" ELSE fate[k][i]
  BY DEF saveStore
<1>5. fate' \in Fates
  BY DEF saveStore, Fates
<1>6. ASSUME NEW k \in Kinds, NEW i \in Issues
      PROVE  /\ token'[k][i] \in {0, tokens[k][i]}
             /\ token'[k][i] # 0 => tokens[k][i] > now
             /\ fate'[k][i] = fate[k][i] \/ (fate[k][i] = "alive" /\ fate'[k][i] = "evicted"
                                             /\ tokens[k][i] > now)
             /\ k = "refresh" /\ fate'[k][i] = "alive" /\ tokens[k][i] > now
                => token'[k][i] # 0
  <2>1. tokens[k][i] \in Nat /\ now \in Nat
    BY <1>6, StoreFacts
  <2>2. /\ token'[k][i] \in {0, Live(tokens[k])[i]}
        /\ Live(tokens[k])[i] = IF tokens[k][i] <= now THEN 0 ELSE tokens[k][i]
    BY <1>2, <1>6
  <2> QED
    BY <1>4, <1>6, <2>1, <2>2
<1> QED
  BY <1>2, <1>3, <1>5, <1>6 DEF saveStore

-----------------------------------------------------------------------------
(***************************************************************************)
(* What a served request may do to the tokens: new is the issuance it      *)
(* makes, if any.                                                          *)
(***************************************************************************)
TokenChanges(k, i, new) ==
    /\ \/ token'[k][i] \in {0, token[k][i]}
       \/ k = "refresh" /\ i = saving'.used /\ token'[k][i] = now + Grace
       \/ /\ i \in new /\ origin'[i].epoch = epoch
          /\ k = "refresh" => token'[k][i] = origin'[i].exp
    /\ \/ fate'[k][i] = fate[k][i]
       \/ fate[k][i] = "alive" /\ fate'[k][i] = "evicted" /\ i \in 1..minted'.issue
    /\ Revoking(k, i)' => token'[k][i] = 0
    /\ k = "refresh" /\ fate'[k][i] = "alive" /\ token[k][i] > now /\ ~Revoking(k, i)'
          => token'[k][i] # 0

IssueChanges(i, new) ==
    /\ i \notin new => origin'[i] = origin[i]
    /\ window'[i].saved = window[i].saved
    /\ window'[i].used = IF i = saving'.used /\ window[i].used = Never
                         THEN now + Grace ELSE window[i].used
    /\ i = saving'.used => /\ token["refresh"][i] > now
                           /\ token'["refresh"][i] <= token["refresh"][i]
                           /\ token'["refresh"][i] <= now + Grace

TokensChange(new) ==
    /\ Ready /\ UNCHANGED <<now, bearer, up, epoch, client, disk>>
    /\ new \subseteq Issues \ 1..minted.issue
    /\ new \subseteq 1..minted'.issue /\ 1..minted.issue \subseteq 1..minted'.issue
    /\ token' \in Stores /\ \A k \in Kinds : Cardinality(Present(token'[k])) <= MaxStored
    /\ saving' \in Savings /\ (saving' = Idle \/ saving'.at # "none")
    /\ saving'.id \in 0..minted'.issue /\ saving'.used \in 0..minted'.issue
    /\ fate' \in Fates /\ window' \in Windows /\ origin' \in Origins
    /\ known' \subseteq 0..minted'.issue /\ unsaved' \in BOOLEAN
    /\ \A i \in Issues : IssueChanges(i, new) /\ \A k \in Kinds : TokenChanges(k, i, new)

(* No revocation is under way without a save.                              *)
LEMMA IdleRevokesNothing == saving = Idle => \A k \in Kinds, i \in Issues : ~Revoking(k, i)
  BY DEF Idle, Revoking

(* A request keeps types, caps, revocations and epochs.                    *)
LEMMA ChangeKeepsStore ==
    ASSUME ApprovalInv, StoreInv, NEW new, TokensChange(new)
    PROVE  StoreInv'
<1> USE DEF StoreInv
<1>1. StoreTypes' /\ RoomInv'
  BY DEF TokensChange, StoreTypes, RoomInv
<1>2. RunInv'
  BY DEF TokensChange, RunInv, Ready
<1>3. ASSUME NEW k \in Kinds, NEW i \in Issues
      PROVE  token'[k][i] # 0 => token[k][i] # 0 \/ i \in new
  <2>1. CASE k = "refresh" /\ i = saving'.used
    <3>1. TokenChanges(k, i, new) /\ IssueChanges(i, new)
      BY <1>3 DEF TokensChange
    <3>2. token[k][i] > now /\ now \in Nat
      BY <2>1, <3>1 DEF IssueChanges, ApprovalInv
    <3> QED
      BY <3>2
  <2>2. CASE ~ (k = "refresh" /\ i = saving'.used)
    BY <1>3, <2>2 DEF TokensChange, TokenChanges
  <2> QED
    BY <2>1, <2>2
<1>4. MintInv'
  <2>1. ASSUME NEW i \in Issues, i \notin 1..minted'.issue
        PROVE  /\ window'[i].saved = Never
               /\ \A k \in Kinds : token'[k][i] = 0 /\ disk'.token[k][i] = 0 /\ fate'[k][i] = "alive"
    <3>1. /\ i \notin 1..minted.issue /\ i \notin new /\ disk' = disk /\ IssueChanges(i, new)
          /\ \A k \in Kinds : TokenChanges(k, i, new)
      BY <2>1 DEF TokensChange
    <3>2. /\ window[i].saved = Never
          /\ \A k \in Kinds : token[k][i] = 0 /\ disk.token[k][i] = 0 /\ fate[k][i] = "alive"
      BY <2>1, <3>1 DEF MintInv
    <3> QED
      BY <1>3, <2>1, <3>1, <3>2 DEF IssueChanges, TokenChanges
  <2> QED
    BY <2>1 DEF MintInv, TokensChange
<1>5. DeadInv'
  <2>1. ASSUME NEW k \in Kinds, NEW i \in Issues, fate'[k][i] = "revoked"
        PROVE  token'[k][i] = 0 /\ disk'.token[k][i] = 0
    <3>1. TokenChanges(k, i, new) /\ disk' = disk
      BY <2>1 DEF TokensChange
    <3>2. fate[k][i] = "revoked"
      BY <2>1, <3>1 DEF TokenChanges
    <3>3. token[k][i] = 0 /\ disk.token[k][i] = 0
      BY <2>1, <3>2 DEF DeadInv
    <3>4. i \notin new
      BY <2>1, <3>2 DEF TokensChange, MintInv
    <3> QED
      BY <1>3, <2>1, <3>1, <3>3, <3>4
  <2>2. \A k \in Kinds, i \in Issues : Revoking(k, i)' => token'[k][i] = 0
    BY DEF TokensChange, TokenChanges
  <2> QED
    BY <2>1, <2>2 DEF DeadInv
<1>6. EpochInv'
  <2>1. ASSUME NEW k \in Kinds, NEW i \in Issues
        PROVE  /\ token'[k][i] # 0 => origin'[i].epoch = epoch'
               /\ disk'.token[k][i] # 0 => origin'[i].epoch = disk'.epoch
    <3>1. /\ TokenChanges(k, i, new) /\ IssueChanges(i, new) /\ disk' = disk /\ epoch' = epoch
          /\ i \in new => i \notin 1..minted.issue
      BY <2>1 DEF TokensChange
    <3>2. CASE i \in new
      <4>1. token[k][i] = 0 /\ disk.token[k][i] = 0
        BY <2>1, <3>1, <3>2 DEF MintInv
      <4>2. ~ (k = "refresh" /\ i = saving'.used)
        <5>1. now \in Nat
          BY DEF ApprovalInv
        <5> QED
          BY <3>1, <4>1, <5>1 DEF IssueChanges
      <4> QED
        BY <3>1, <4>1, <4>2 DEF TokenChanges
    <3>3. CASE i \notin new
      BY <1>3, <2>1, <3>1, <3>3 DEF EpochInv, IssueChanges
    <3> QED
      BY <3>2, <3>3
  <2> QED
    BY <2>1 DEF EpochInv, TokensChange
<1> QED
  BY <1>1, <1>2, <1>4, <1>5, <1>6

(* A request neither shortens a grace that began nor begins it anew.       *)
LEMMA ChangeKeepsGrace ==
    ASSUME ApprovalInv, StoreInv, GraceInv, NEW new, TokensChange(new)
    PROVE  GraceInv'
<1> USE DEF StoreInv
<1>1. ASSUME NEW i \in Issues
      PROVE  /\ FirstUse(i)' /\ SavedEnds(i)' /\ BeingUsed(i)'
             /\ NotBefore(token["refresh"][i], i)' /\ NotBefore(disk.token["refresh"][i], i)'
  <2>1. /\ now' = now /\ epoch' = epoch /\ disk' = disk
        /\ i \in new => i \notin 1..minted.issue
        /\ IssueChanges(i, new) /\ TokenChanges("refresh", i, new)
    BY <1>1 DEF TokensChange, Kinds
  <2>2. /\ FirstUse(i) /\ SavedEnds(i)
        /\ NotBefore(token["refresh"][i], i) /\ NotBefore(disk.token["refresh"][i], i)
    BY <1>1 DEF GraceInv
  <2>3. i \in new => window[i].saved = Never /\ token["refresh"][i] = 0
                     /\ disk.token["refresh"][i] = 0
    <3>1. "refresh" \in Kinds
      BY DEF Kinds
    <3> QED
      BY <1>1, <2>1, <3>1 DEF MintInv
  <2>4. token["refresh"][i] # 0 => origin[i].epoch = epoch
    BY <1>1 DEF EpochInv, Kinds
  <2>5. /\ now \in Nat /\ now <= MaxTime /\ Grace \in Nat /\ MaxTime \in Nat
        /\ Never = MaxTime + Grace + 1
    BY OAuthAssumption DEF ApprovalInv, Never
  <2>6. /\ window[i].used \in Nat /\ window[i].saved \in Nat /\ origin[i].exp \in Nat
        /\ window'[i].used \in Nat /\ window'[i].saved \in Nat /\ origin'[i].exp \in Nat
    BY <1>1 DEF StoreTypes, TokensChange, Windows, Origins
  <2>7. token["refresh"][i] \in Nat /\ token'["refresh"][i] \in Nat /\ disk.token["refresh"][i] \in Nat
    BY <1>1, StoreFacts DEF StoreTypes, TokensChange, Files, Kinds
  <2>8. i \in new => i # saving'.used
    BY <2>1, <2>3, <2>5 DEF IssueChanges
  <2>9. FirstUse(i)'
    <3>1. window[i].used <= now + Grace \/ window[i].used = Never
      BY <2>2 DEF FirstUse
    <3>2. window'[i].used <= now' + Grace \/ window'[i].used = Never
      BY <2>1, <2>5, <2>6, <3>1 DEF IssueChanges
    <3> QED
      BY <3>2 DEF FirstUse, Never
  <2>10. SavedEnds(i)'
    <3>1. CASE window[i].saved = Never
      BY <2>1, <3>1 DEF IssueChanges, SavedEnds, Never
    <3>2. CASE window[i].saved # Never
      <4>1. i \notin new /\ origin'[i] = origin[i]
        BY <2>1, <2>3, <3>2 DEF IssueChanges
      <4>2. token'["refresh"][i] <= token["refresh"][i]
        BY <2>1, <2>7, <4>1 DEF IssueChanges, TokenChanges
      <4>3. token["refresh"][i] <= window[i].saved
        BY <2>2, <3>2 DEF SavedEnds
      <4>4. token'["refresh"][i] <= window[i].saved
        BY <2>6, <2>7, <4>2, <4>3
      <4> QED
        <5>1. /\ token'["refresh"][i] <= window'[i].saved
              /\ disk'.token["refresh"][i] <= window'[i].saved
              /\ disk'.epoch # 0 /\ origin'[i].epoch <= disk'.epoch
          BY <2>1, <2>2, <3>2, <4>1, <4>4 DEF IssueChanges, SavedEnds
        <5> QED
          BY <5>1 DEF SavedEnds
    <3> QED
      BY <3>1, <3>2
  <2>11. window'[i].used <= window[i].used
    BY <2>1, <2>5, <2>6 DEF IssueChanges
  <2>12. ASSUME NEW t \in Nat, NotBefore(t, i), i \notin new
         PROVE  t = 0 \/ window'[i].used <= t \/ origin'[i].exp <= t
    <3>1. origin'[i] = origin[i]
      BY <2>1, <2>12 DEF IssueChanges
    <3> QED
      BY <2>6, <2>11, <2>12, <3>1 DEF NotBefore
  <2>13. NotBefore(disk.token["refresh"][i], i)'
    <3>1. CASE i \in new
      BY <2>1, <2>3, <3>1 DEF NotBefore
    <3>2. CASE i \notin new
      <4>1. \/ disk.token["refresh"][i] = 0 \/ window'[i].used <= disk.token["refresh"][i]
            \/ origin'[i].exp <= disk.token["refresh"][i]
        BY <2>2, <2>7, <2>12, <3>2
      <4> QED
        BY <2>1, <4>1 DEF NotBefore
    <3> QED
      BY <3>1, <3>2
  <2>14. NotBefore(token["refresh"][i], i)'
    <3>1. CASE token'["refresh"][i] \in {0, token["refresh"][i]}
      BY <2>2, <2>3, <2>7, <2>12, <3>1 DEF NotBefore
    <3>2. CASE i = saving'.used /\ token'["refresh"][i] = now + Grace
      <4>1. window'[i].used <= now + Grace
        BY <2>1, <2>2, <2>5, <2>6, <3>2 DEF IssueChanges, FirstUse
      <4> QED
        BY <3>2, <4>1 DEF NotBefore
    <3>3. CASE i \in new /\ token'["refresh"][i] = origin'[i].exp
      BY <2>6, <3>3 DEF NotBefore
    <3> QED
      BY <2>1, <3>1, <3>2, <3>3 DEF TokenChanges
  <2>15. BeingUsed(i)'
    <3>1. CASE i = saving'.used
      <4>1. i \notin new /\ origin'[i] = origin[i]
        BY <2>1, <2>8, <3>1 DEF IssueChanges
      <4>2. token["refresh"][i] # 0 /\ token'["refresh"][i] <= now + Grace
        BY <2>1, <2>5, <3>1 DEF IssueChanges
      <4> QED
        BY <2>1, <2>4, <3>1, <4>1, <4>2 DEF BeingUsed
    <3>2. CASE i # saving'.used
      BY <3>2 DEF BeingUsed
    <3> QED
      BY <3>1, <3>2
  <2> QED
    BY <2>9, <2>10, <2>13, <2>14, <2>15
<1> QED
  BY <1>1 DEF GraceInv


(* A request drops no refresh token within its grace, but at the cap or    *)
(* when asked to.                                                          *)
LEMMA ChangeKeepsStay ==
    ASSUME ApprovalInv, StoreInv, GraceInv, StayInv, NEW new, TokensChange(new)
    PROVE  StayInv'
<1> USE DEF StoreInv
<1>1. ASSUME NEW i \in Issues, Lasting(i)'
      PROVE  /\ /\ window'[i].saved # Never \/ i = saving'.used
                /\ up' /\ origin'[i].epoch = epoch' /\ ~Revoking("refresh", i)'
                => token'["refresh"][i] # 0
             /\ window'[i].saved # Never /\ origin'[i].epoch = disk'.epoch
                => disk'.token["refresh"][i] # 0
  <2>1. /\ now' = now /\ epoch' = epoch /\ disk' = disk /\ up' = up /\ saving = Idle /\ up
        /\ i \in new => i \notin 1..minted.issue
        /\ IssueChanges(i, new) /\ TokenChanges("refresh", i, new)
    BY <1>1 DEF TokensChange, Kinds, Ready
  <2>2. fate'["refresh"][i] = "alive" /\ now < window'[i].used /\ now < origin'[i].exp
    BY <1>1, <2>1 DEF Lasting
  <2>3. /\ now \in Nat /\ now <= MaxTime /\ Grace \in Nat /\ MaxTime \in Nat
        /\ Never = MaxTime + Grace + 1
    BY OAuthAssumption DEF ApprovalInv, Never
  <2>4. /\ window[i].used \in Nat /\ origin[i].exp \in Nat /\ window'[i].used \in Nat
        /\ token["refresh"][i] \in Nat
    BY <1>1, StoreFacts DEF StoreTypes, TokensChange, Windows, Origins, Kinds
  <2>5. CASE i \in new
    <3>1. window[i].saved = Never /\ token["refresh"][i] = 0
      <4>1. "refresh" \in Kinds
        BY DEF Kinds
      <4> QED
        BY <1>1, <2>1, <2>5, <4>1 DEF MintInv
    <3>2. window'[i].saved = Never /\ i # saving'.used
      BY <2>1, <2>3, <3>1 DEF IssueChanges
    <3> QED
      BY <3>2
  <2>6. CASE i \notin new
    <3>1. origin'[i] = origin[i] /\ window'[i].saved = window[i].saved
      BY <2>1, <2>6 DEF IssueChanges
    <3>2. now < window[i].used
      BY <2>1, <2>2, <2>3, <2>4 DEF IssueChanges
    <3>3. fate["refresh"][i] = "alive"
      BY <2>1, <2>2 DEF TokenChanges
    <3>4. Lasting(i)
      BY <2>2, <3>1, <3>2, <3>3 DEF Lasting
    <3>5. /\ window[i].saved # Never /\ origin[i].epoch = epoch => token["refresh"][i] # 0
          /\ window[i].saved # Never /\ origin[i].epoch = disk.epoch
             => disk.token["refresh"][i] # 0
      <4>1. ~Revoking("refresh", i)
        BY <1>1, <2>1, IdleRevokesNothing DEF Kinds
      <4> QED
        BY <1>1, <2>1, <3>4, <4>1 DEF StayInv
    <3>6. window[i].saved # Never /\ origin[i].epoch = epoch => token["refresh"][i] > now
      <4>1. NotBefore(token["refresh"][i], i)
        BY <1>1 DEF GraceInv
      <4> QED
        BY <2>2, <2>3, <2>4, <3>1, <3>2, <3>5, <4>1 DEF NotBefore
    <3>7. ASSUME window'[i].saved # Never \/ i = saving'.used,
                 origin'[i].epoch = epoch', ~Revoking("refresh", i)'
          PROVE  token'["refresh"][i] # 0
      <4>1. token["refresh"][i] > now
        BY <2>1, <3>1, <3>6, <3>7 DEF IssueChanges
      <4> QED
        BY <2>1, <2>2, <3>7, <4>1 DEF TokenChanges
    <3> QED
      BY <2>1, <3>1, <3>5, <3>7
  <2> QED
    BY <2>5, <2>6
<1> QED
  BY <1>1 DEF StayInv

(* A request concerns neither the client id nor the file.                  *)
LEMMA ChangeKeepsClient ==
    ASSUME ClientInv, NEW new, TokensChange(new)
    PROVE  ClientInv' /\ disk' = disk
BY DEF TokensChange, ClientInv

(***************************************************************************)
(* A request that hands a store over to saveStore: what it asks of each    *)
(* token, and of each issuance.                                            *)
(***************************************************************************)
Asked(k, i, new, tokens, owed) ==
    /\ \/ tokens[k][i] \in {0, token[k][i]}
       \/ k = "refresh" /\ i = owed.used /\ tokens[k][i] = now + Grace
       \/ /\ i \in new /\ origin'[i].epoch = epoch
          /\ k = "refresh" => tokens[k][i] = origin'[i].exp
    /\ tokens[k][i] > now => i \in 1..minted'.issue
    /\ Revoking(k, i)' => tokens[k][i] = 0
    /\ k = "refresh" /\ token[k][i] > now /\ ~Revoking(k, i)' => tokens[k][i] > now

AskedIssue(i, new, tokens, owed) ==
    /\ i \notin new => origin'[i] = origin[i]
    /\ window'[i].saved = window[i].saved
    /\ window'[i].used = IF i = owed.used /\ window[i].used = Never
                         THEN now + Grace ELSE window[i].used
    /\ i = owed.used => /\ token["refresh"][i] > now
                        /\ tokens["refresh"][i] <= token["refresh"][i]
                        /\ tokens["refresh"][i] <= now + Grace

(* And saveStore adds only what it prunes.                                 *)
LEMMA SaveIsChange ==
    ASSUME ApprovalInv, StoreInv, Ready, NEW new, NEW tokens \in Stores, NEW owed \in Savings,
           saveStore(tokens, owed), owed.at # "none",
           UNCHANGED <<now, bearer, up, epoch, client, disk>>,
           new \subseteq Issues \ 1..minted.issue,
           new \subseteq 1..minted'.issue, 1..minted.issue \subseteq 1..minted'.issue,
           owed.id \in 0..minted'.issue, owed.used \in 0..minted'.issue,
           window' \in Windows, origin' \in Origins,
           known' \subseteq 0..minted'.issue, unsaved' \in BOOLEAN,
           \A i \in Issues : AskedIssue(i, new, tokens, owed),
           \A k \in Kinds, i \in Issues : Asked(k, i, new, tokens, owed)
    PROVE  TokensChange(new)
<1>1. now \in 0..MaxTime /\ fate \in Fates /\ now \in Nat /\ Grace \in Nat
  BY OAuthAssumption DEF ApprovalInv, StoreInv, StoreTypes
<1>2. /\ token' \in Stores /\ fate' \in Fates /\ saving' = owed
      /\ \A k \in Kinds : Cardinality(Present(token'[k])) <= MaxStored
  BY <1>1, SaveFacts
<1>3. ASSUME NEW k \in Kinds, NEW i \in Issues
      PROVE  /\ token'[k][i] = 0 \/ token'[k][i] = tokens[k][i]
             /\ fate'[k][i] = fate[k][i] \/ (fate[k][i] = "alive" /\ fate'[k][i] = "evicted"
                                             /\ tokens[k][i] > now)
             /\ k = "refresh" /\ fate'[k][i] = "alive" /\ tokens[k][i] > now
                => token'[k][i] # 0
  BY <1>1, <1>3, SaveFacts
<1>4. ASSUME NEW k \in Kinds, NEW i \in Issues
      PROVE  TokenChanges(k, i, new)
  <2>1. Asked(k, i, new, tokens, owed)
    BY <1>4
  <2>2. \/ token'[k][i] \in {0, token[k][i]}
        \/ k = "refresh" /\ i = saving'.used /\ token'[k][i] = now + Grace
        \/ /\ i \in new /\ origin'[i].epoch = epoch
           /\ k = "refresh" => token'[k][i] = origin'[i].exp
    <3>1. CASE token'[k][i] = 0
      BY <3>1
    <3>2. CASE token'[k][i] = tokens[k][i]
      BY <1>2, <2>1, <3>2 DEF Asked
    <3> QED
      BY <1>3, <1>4, <3>1, <3>2
  <2>3. \/ fate'[k][i] = fate[k][i]
        \/ fate[k][i] = "alive" /\ fate'[k][i] = "evicted" /\ i \in 1..minted'.issue
    BY <1>3, <1>4, <2>1 DEF Asked
  <2>4. Revoking(k, i)' => token'[k][i] = 0
    BY <1>3, <1>4, <2>1 DEF Asked
  <2>5. k = "refresh" /\ fate'[k][i] = "alive" /\ token[k][i] > now /\ ~Revoking(k, i)'
           => token'[k][i] # 0
    BY <1>3, <1>4, <2>1 DEF Asked
  <2> QED
    BY <2>2, <2>3, <2>4, <2>5 DEF TokenChanges
<1>5. ASSUME NEW i \in Issues
      PROVE  IssueChanges(i, new)
  <2>1. AskedIssue(i, new, tokens, owed) /\ token["refresh"][i] \in Nat
    BY <1>5, StoreFacts DEF StoreInv, StoreTypes, Kinds
  <2>2. token'["refresh"][i] = 0 \/ token'["refresh"][i] = tokens["refresh"][i]
    BY <1>3, <1>5 DEF Kinds
  <2>3. i = saving'.used => /\ token["refresh"][i] > now
                            /\ token'["refresh"][i] <= token["refresh"][i]
                            /\ token'["refresh"][i] <= now + Grace
    BY <1>1, <1>2, <2>1, <2>2 DEF AskedIssue
  <2> QED
    BY <1>2, <2>1, <2>3 DEF AskedIssue, IssueChanges
<1> QED
  BY <1>2, <1>4, <1>5 DEF TokensChange


(* A pair of tokens is issued; used is the refresh token it replaces, 0    *)
(* for a code, and tokens the store with that one shortened.               *)
LEMMA IssueIsChange ==
    ASSUME ApprovalInv, StoreInv, Ready, NEW tokens \in Stores, NEW used \in 0..minted.issue,
           issueTokens(tokens, used),
           UNCHANGED <<now, bearer, up, epoch, client, disk, known, unsaved>>,
           window' \in Windows,
           \A i \in Issues :
              /\ window'[i].saved = window[i].saved
              /\ window'[i].used = IF i = used /\ window[i].used = Never
                                   THEN now + Grace ELSE window[i].used
              /\ tokens["access"][i] = token["access"][i]
              /\ tokens["refresh"][i] = IF i = used /\ token["refresh"][i] > now + Grace
                                        THEN now + Grace ELSE token["refresh"][i]
              /\ i = used => token["refresh"][i] > now
    PROVE  \E new : TokensChange(new)
<1> DEFINE new  == minted.issue + 1
           full == [tokens EXCEPT !["access"][new] = now + AccessTtl,
                                  !["refresh"][new] = now + RefreshTtl]
           owed == Owed("issue", new, "access", used)
<1>1. /\ now \in 0..MaxTime /\ now \in Nat /\ Grace \in Nat \ {0} /\ MaxIssues \in Nat
      /\ AccessTtl \in Nat /\ RefreshTtl \in Nat \ {0} /\ minted \in Mints
      /\ now + AccessTtl \in Times /\ now + RefreshTtl \in Times
  BY OAuthAssumption DEF ApprovalInv, Times
<1>2. /\ minted.issue \in 0..MaxIssues /\ minted.issue \in Nat
      /\ new \in Issues /\ minted'.issue = new /\ new \notin 1..minted.issue
      /\ {new} \subseteq Issues \ 1..minted.issue /\ {new} \subseteq 1..minted'.issue
      /\ 1..minted.issue \subseteq 1..minted'.issue
      /\ new \in 0..minted'.issue /\ used \in 0..minted'.issue
  <2>1. minted.issue \in 0..MaxIssues /\ new \in Issues /\ minted' = [minted EXCEPT !.issue = new]
    BY <1>1 DEF issueTokens, Mints
  <2>2. minted'.issue = new
    BY <1>1, <2>1 DEF Mints
  <2> QED
    BY <1>1, <2>1, <2>2
<1>3. /\ origin \in Origins /\ epoch \in Epochs /\ known \subseteq 0..minted.issue
      /\ unsaved \in BOOLEAN
  BY DEF StoreInv, StoreTypes
<1>4. origin' = [origin EXCEPT ![new] = [epoch |-> epoch, exp |-> now + RefreshTtl]]
  BY DEF issueTokens
<1>5. /\ origin' \in Origins
      /\ origin'[new].epoch = epoch /\ origin'[new].exp = now + RefreshTtl
      /\ \A i \in Issues : i # new => origin'[i] = origin[i]
  BY <1>1, <1>2, <1>3, <1>4 DEF Origins
<1>6. /\ full \in Stores
      /\ \A i \in Issues :
            /\ full["access"][i] = IF i = new THEN now + AccessTtl ELSE tokens["access"][i]
            /\ full["refresh"][i] = IF i = new THEN now + RefreshTtl ELSE tokens["refresh"][i]
  <2>1. DOMAIN tokens = Kinds /\ tokens["access"] \in Map(MaxIssues) /\ tokens["refresh"] \in Map(MaxIssues)
    BY DEF Stores, Kinds
  <2> DEFINE acc == [tokens["access"] EXCEPT ![new] = now + AccessTtl]
             ref == [tokens["refresh"] EXCEPT ![new] = now + RefreshTtl]
  <2>2. /\ acc \in Map(MaxIssues) /\ ref \in Map(MaxIssues)
        /\ \A i \in Issues : /\ acc[i] = IF i = new THEN now + AccessTtl ELSE tokens["access"][i]
                             /\ ref[i] = IF i = new THEN now + RefreshTtl ELSE tokens["refresh"][i]
    BY <1>1, <1>2, <2>1 DEF Map, Issues
  <2>3. full = [k \in Kinds |-> IF k = "access" THEN acc ELSE ref]
    BY <2>1 DEF Kinds
  <2> HIDE DEF acc, ref, full
  <2>4. full["access"] = acc /\ full["refresh"] = ref
    BY <2>3 DEF Kinds
  <2>5. full \in Stores
    BY <2>2, <2>3 DEF Stores
  <2> QED
    BY <2>2, <2>4, <2>5
<1>7. saveStore(full, owed)
  BY DEF issueTokens
<1>8. owed \in Savings /\ owed.at # "none" /\ owed.id = new /\ owed.used = used /\ saving' = owed
  <2>1. saving' = owed
    BY <1>7 DEF saveStore
  <2>2. /\ new \in 0..MaxIssues /\ used \in 0..MaxIssues
    BY <1>1, <1>2 DEF Issues
  <2> HIDE DEF new
  <2>3. owed \in Savings
    BY <2>2 DEF Owed, Savings, Kinds
  <2>4. owed.at # "none" /\ owed.id = new /\ owed.used = used
    BY DEF Owed
  <2> QED
    BY <2>1, <2>3, <2>4
<1>9. \A k \in Kinds, i \in Issues : ~Revoking(k, i)'
  <2>1. saving' = owed
    BY <1>7 DEF saveStore
  <2> QED
    BY <2>1 DEF Revoking, Owed
<1> HIDE DEF full, owed, new
<1>10. ASSUME NEW i \in Issues PROVE AskedIssue(i, {new}, full, owed)
  <2>1. token["refresh"][i] \in Nat
    BY <1>10, StoreFacts DEF StoreInv, StoreTypes, Kinds
  <2>2. i = used => i # new
    BY <1>1, <1>2, <1>10 DEF Issues
  <2>3. i = used => /\ token["refresh"][i] > now
                    /\ full["refresh"][i] <= token["refresh"][i]
                    /\ full["refresh"][i] <= now + Grace
    BY <1>1, <1>6, <1>10, <2>1, <2>2
  <2> QED
    BY <1>5, <1>8, <1>10, <2>3 DEF AskedIssue
<1>11. ASSUME NEW k \in Kinds, NEW i \in Issues PROVE Asked(k, i, {new}, full, owed)
  <2>1. token[k][i] \in Nat
    BY <1>11, StoreFacts DEF StoreInv, StoreTypes
  <2>2. k = "access" \/ k = "refresh"
    BY <1>11 DEF Kinds
  <2>3. i \in 1..minted.issue => i \in 1..minted'.issue
    BY <1>2
  <2>4. token[k][i] # 0 => i \in 1..minted'.issue
    BY <1>11, <2>3 DEF StoreInv, MintInv
  <2>5. CASE i = new
    <3>1. /\ i \in {new} /\ origin'[i].epoch = epoch /\ ~Revoking(k, i)' /\ i \in 1..minted'.issue
          /\ origin'[i].exp = now + RefreshTtl
      BY <1>2, <1>5, <1>9, <1>11, <2>5
    <3>2. k = "refresh" => full[k][i] = now + RefreshTtl
      BY <1>6, <1>11, <2>5
    <3>3. k = "refresh" => full[k][i] = origin'[i].exp /\ full[k][i] > now
      BY <1>1, <3>1, <3>2
    <3> QED
      BY <3>1, <3>3 DEF Asked
  <2>6. CASE i # new
    <3>1. k = "access" => full[k][i] = token[k][i]
      BY <1>6, <1>11, <2>6
    <3>2. k = "refresh" => full[k][i] = IF i = used /\ token[k][i] > now + Grace
                                        THEN now + Grace ELSE token[k][i]
      BY <1>6, <1>11, <2>6
    <3>3. \/ full[k][i] = token[k][i]
          \/ /\ k = "refresh" /\ i = used /\ full[k][i] = now + Grace
             /\ token[k][i] > now + Grace
      BY <2>2, <3>1, <3>2
    <3>4. /\ full[k][i] > now => token[k][i] # 0
          /\ token[k][i] > now => full[k][i] > now
      BY <1>1, <2>1, <3>3
    <3>5. ~Revoking(k, i)'
      BY <1>9, <1>11
    <3>6. full[k][i] \in {0, token[k][i]} \/ (k = "refresh" /\ i = owed.used /\ full[k][i] = now + Grace)
      BY <1>8, <3>3
    <3> QED
      BY <2>4, <3>4, <3>5, <3>6 DEF Asked
  <2> QED
    BY <2>5, <2>6
<1>12. known' \subseteq 0..minted'.issue /\ unsaved' \in BOOLEAN
  BY <1>2, <1>3
<1>13. TokensChange({new})
  <2>1. UNCHANGED <<now, bearer, up, epoch, client, disk>>
    OBVIOUS
  <2> QED
    BY <1>2, <1>5, <1>6, <1>7, <1>8, <1>10, <1>11, <1>12, <2>1, SaveIsChange
<1> QED
  BY <1>13

(* A request that only takes tokens away.                                  *)
LEMMA RemovalIsChange ==
    ASSUME ApprovalInv, StoreInv, Ready, NEW tokens \in Stores, NEW owed \in Savings,
           saveStore(tokens, owed), owed.at # "none", owed.id \in 0..minted.issue, owed.used = 0,
           UNCHANGED <<now, bearer, up, epoch, client, disk, minted.issue,
                       window, origin, known, unsaved>>,
           \A k \in Kinds, i \in Issues :
              /\ tokens[k][i] \in {0, token[k][i]}
              /\ Revoking(k, i)' => tokens[k][i] = 0
              /\ token[k][i] > now /\ ~Revoking(k, i)' => tokens[k][i] = token[k][i]
    PROVE  \E new : TokensChange(new)
<1>1. /\ now \in 0..MaxTime /\ now \in Nat /\ minted \in Mints
      /\ origin \in Origins /\ window \in Windows
      /\ known \subseteq 0..minted.issue /\ unsaved \in BOOLEAN
  BY OAuthAssumption DEF ApprovalInv, StoreInv, StoreTypes
<1>2. /\ minted'.issue = minted.issue /\ minted.issue \in 0..MaxIssues /\ minted.issue \in Nat
      /\ 0 \in 0..minted'.issue
  BY <1>1, OAuthAssumption DEF Mints
<1>3. ASSUME NEW i \in Issues PROVE AskedIssue(i, {}, tokens, owed)
  <2>1. i # owed.used
    BY <1>3 DEF Issues
  <2> QED
    BY <2>1 DEF AskedIssue
<1>4. ASSUME NEW k \in Kinds, NEW i \in Issues PROVE Asked(k, i, {}, tokens, owed)
  <2>1. token[k][i] \in Nat /\ (token[k][i] # 0 => i \in 1..minted'.issue)
    BY <1>2, <1>4, StoreFacts DEF StoreInv, StoreTypes, MintInv
  <2>2. tokens[k][i] > now => tokens[k][i] = token[k][i] /\ token[k][i] # 0
    BY <1>1, <1>4, <2>1
  <2> QED
    BY <1>4, <2>1, <2>2 DEF Asked
<1>5. TokensChange({})
  <2>1. /\ UNCHANGED <<now, bearer, up, epoch, client, disk>>
        /\ {} \subseteq Issues \ 1..minted.issue /\ {} \subseteq 1..minted'.issue
        /\ 1..minted.issue \subseteq 1..minted'.issue
        /\ owed.id \in 0..minted'.issue /\ owed.used \in 0..minted'.issue
        /\ window' \in Windows /\ origin' \in Origins
        /\ known' \subseteq 0..minted'.issue /\ unsaved' \in BOOLEAN
    BY <1>1, <1>2
  <2> QED
    BY <1>3, <1>4, <2>1, SaveIsChange
<1> QED
  BY <1>5


(* A request that saves nothing, and at most drops an access token.        *)
LEMMA QuietIsChange ==
    ASSUME ApprovalInv, StoreInv, Ready, token' \in Stores,
           UNCHANGED <<now, bearer, up, epoch, client, disk, saving, minted.issue,
                       fate, window, origin, known, unsaved>>,
           \A k \in Kinds, i \in Issues :
              token'[k][i] = token[k][i] \/ (k = "access" /\ token'[k][i] = 0)
    PROVE  \E new : TokensChange(new)
<1>1. /\ now \in 0..MaxTime /\ now \in Nat /\ minted \in Mints
      /\ origin \in Origins /\ window \in Windows /\ fate \in Fates /\ saving \in Savings
      /\ known \subseteq 0..minted.issue /\ unsaved \in BOOLEAN
      /\ MaxStored \in Nat /\ MaxIssues \in Nat /\ token \in Stores
  BY OAuthAssumption DEF ApprovalInv, StoreInv, StoreTypes
<1>2. /\ minted'.issue = minted.issue /\ saving' = Idle /\ saving'.used = 0
      /\ saving'.id \in 0..minted'.issue /\ saving'.used \in 0..minted'.issue
  BY <1>1, OAuthAssumption DEF Mints, Ready, Idle
<1>3. ASSUME NEW k \in Kinds PROVE Cardinality(Present(token'[k])) <= MaxStored
  <2>1. token[k] \in Map(MaxIssues) /\ token'[k] \in Map(MaxIssues)
    BY <1>1, <1>3 DEF Stores
  <2>2. Present(token'[k]) \subseteq Present(token[k])
    <3>1. \A i \in Issues : token'[k][i] = token[k][i] \/ token'[k][i] = 0
      BY <1>3
    <3>2. DOMAIN token[k] = Issues /\ DOMAIN token'[k] = Issues
      BY <2>1 DEF Map, Issues
    <3> QED
      BY <3>1, <3>2 DEF Present
  <2>3. IsFiniteSet(Present(token[k])) /\ Cardinality(Present(token[k])) \in Nat
    BY <1>1, <2>1, PresentIsFinite
  <2>4. /\ Cardinality(Present(token'[k])) <= Cardinality(Present(token[k]))
        /\ Cardinality(Present(token'[k])) \in Nat
    BY <1>1, <2>1, <2>2, <2>3, FS_Subset, PresentIsFinite
  <2>5. Cardinality(Present(token[k])) <= MaxStored
    BY <1>3 DEF StoreInv, RoomInv
  <2> QED
    BY <1>1, <2>3, <2>4, <2>5
<1>4. \A k \in Kinds, i \in Issues : ~Revoking(k, i)'
  BY <1>2 DEF Revoking, Idle
<1>5. ASSUME NEW i \in Issues PROVE IssueChanges(i, {})
  <2>1. i # saving'.used
    BY <1>2, <1>5 DEF Issues
  <2> QED
    BY <2>1 DEF IssueChanges
<1>6. ASSUME NEW k \in Kinds, NEW i \in Issues PROVE TokenChanges(k, i, {})
  <2>1. token[k][i] \in Nat
    BY <1>1, <1>6, StoreFacts
  <2>2. k = "refresh" => token'[k][i] = token[k][i]
    BY <1>6
  <2>3. token'[k][i] \in {0, token[k][i]} /\ fate'[k][i] = fate[k][i] /\ ~Revoking(k, i)'
    BY <1>4, <1>6
  <2>4. k = "refresh" /\ token[k][i] > now => token'[k][i] # 0
    BY <1>1, <2>1, <2>2
  <2> QED
    BY <2>3, <2>4 DEF TokenChanges
<1>7. TokensChange({})
  <2>1. /\ UNCHANGED <<now, bearer, up, epoch, client, disk>>
        /\ {} \subseteq Issues \ 1..minted.issue /\ {} \subseteq 1..minted'.issue
        /\ 1..minted.issue \subseteq 1..minted'.issue
        /\ window' \in Windows /\ origin' \in Origins /\ fate' \in Fates /\ saving' \in Savings
        /\ known' \subseteq 0..minted'.issue /\ unsaved' \in BOOLEAN
    BY <1>1, <1>2
  <2> QED
    BY <1>2, <1>3, <1>5, <1>6, <2>1 DEF TokensChange
<1> QED
  BY <1>7

(* A store from which one token is dropped.                                *)
LEMMA WithoutOne ==
    ASSUME NEW st \in Stores, NEW k \in Kinds, NEW i \in Issues
    PROVE  /\ [st EXCEPT ![k][i] = 0] \in Stores
           /\ \A l \in Kinds, j \in Issues :
                 [st EXCEPT ![k][i] = 0][l][j] = IF l = k /\ j = i THEN 0 ELSE st[l][j]
<1> DEFINE f == [st[k] EXCEPT ![i] = 0]
<1>1. DOMAIN st = Kinds /\ \A l \in Kinds : st[l] \in Map(MaxIssues)
  BY DEF Stores
<1>2. f \in Map(MaxIssues) /\ \A j \in Issues : f[j] = IF j = i THEN 0 ELSE st[k][j]
  BY <1>1, TimesAreNat DEF Map, Issues
<1>3. [st EXCEPT ![k][i] = 0] = [l \in Kinds |-> IF l = k THEN f ELSE st[l]]
  BY <1>1
<1> HIDE DEF f
<1> QED
  BY <1>1, <1>2, <1>3 DEF Stores

(* Every request for tokens is a change of that kind (tokenPost,           *)
(* revokePost, /revoke-all, oauthAccessValid).                             *)
LEMMA TokensAreChanges ==
    ASSUME ApprovalInv, StoreInv, Tokens
    PROVE  \E new : TokensChange(new)
<1>1. /\ now \in 0..MaxTime /\ now \in Nat /\ minted \in Mints /\ token \in Stores
      /\ origin \in Origins /\ window \in Windows /\ fate \in Fates
      /\ known \subseteq 0..minted.issue /\ unsaved \in BOOLEAN
      /\ Grace \in Nat \ {0} /\ MaxTime \in Nat
  BY OAuthAssumption DEF ApprovalInv, StoreInv, StoreTypes
<1>2. minted.issue \in Nat /\ 0 \in 0..minted.issue /\ 1..minted.issue \subseteq Issues
      /\ minted.issue <= MaxIssues
  BY <1>1, OAuthAssumption DEF Mints, Issues
<1>3. \A k \in Kinds, i \in Issues : token[k][i] \in Nat
  BY <1>1, StoreFacts
<1>4. ASSUME NEW c \in Codes, NEW matches \in BOOLEAN, Redeem(c, matches)
      PROVE  \E new : TokensChange(new)
  <2>1. Ready /\ UNCHANGED <<now, bearer, up, epoch, client, disk, window, known, unsaved>>
    BY <1>4 DEF Redeem, server
  <2>2. CASE matches /\ codes[c] > now
    <3>1. issueTokens(token, 0)
      BY <1>4, <2>2 DEF Redeem
    <3>2. window' \in Windows
      BY <1>1, <2>1
    <3>3. \A i \in Issues :
              /\ window'[i].saved = window[i].saved
              /\ window'[i].used = IF i = 0 /\ window[i].used = Never
                                   THEN now + Grace ELSE window[i].used
              /\ token["access"][i] = token["access"][i]
              /\ token["refresh"][i] = IF i = 0 /\ token["refresh"][i] > now + Grace
                                        THEN now + Grace ELSE token["refresh"][i]
              /\ i = 0 => token["refresh"][i] > now
      BY <2>1 DEF Issues
    <3> QED
      BY <1>1, <1>2, <2>1, <3>1, <3>2, <3>3, IssueIsChange
  <2>3. CASE ~ (matches /\ codes[c] > now)
    <3>1. UNCHANGED <<token, saving, minted, fate, origin>>
      BY <1>4, <2>3 DEF Redeem
    <3> QED
      BY <1>1, <2>1, <3>1, QuietIsChange
  <2> QED
    BY <2>2, <2>3
<1>5. ASSUME NEW i \in Issues, RefreshExpired(i)
      PROVE  \E new : TokensChange(new)
  <2> DEFINE tokens == [token EXCEPT !["refresh"][i] = 0]
             owed   == Owed("refused", 0, "access", 0)
  <2>1. /\ Ready /\ saveStore(tokens, owed) /\ token["refresh"][i] \in 1..now
        /\ UNCHANGED <<now, bearer, up, epoch, client, disk, minted, window, origin, known, unsaved>>
    BY <1>5 DEF RefreshExpired, server, budget
  <2>2. /\ tokens \in Stores
        /\ \A l \in Kinds, j \in Issues :
              tokens[l][j] = IF l = "refresh" /\ j = i THEN 0 ELSE token[l][j]
    BY <1>1, <1>5, WithoutOne DEF Kinds
  <2>3. /\ owed \in Savings /\ owed.at # "none" /\ owed.id \in 0..minted.issue /\ owed.used = 0
        /\ \A k \in Kinds, j \in Issues : ~Revoking(k, j)'
    <3>1. owed \in Savings /\ owed.at # "none" /\ owed.id \in 0..minted.issue /\ owed.used = 0
      BY <1>2, OAuthAssumption DEF Owed, Savings, Kinds
    <3>2. saving' = owed
      BY <2>1 DEF saveStore
    <3>3. \A k \in Kinds, j \in Issues : ~Revoking(k, j)'
      BY <3>2 DEF Revoking, Owed
    <3> QED
      BY <3>1, <3>3
  <2> HIDE DEF tokens, owed
  <2>4. \A k \in Kinds, j \in Issues :
              /\ tokens[k][j] \in {0, token[k][j]}
              /\ Revoking(k, j)' => tokens[k][j] = 0
              /\ token[k][j] > now /\ ~Revoking(k, j)' => tokens[k][j] = token[k][j]
    BY <1>1, <1>3, <2>1, <2>2, <2>3
  <2> QED
    BY <2>1, <2>2, <2>3, <2>4, RemovalIsChange
<1>6. ASSUME NEW i \in Issues, Refresh(i)
      PROVE  \E new : TokensChange(new)
  <2> DEFINE tokens == [token EXCEPT !["refresh"][i] = IF @ > now + Grace THEN now + Grace ELSE @]
  <2>1. /\ Ready /\ issueTokens(tokens, i) /\ i \in known /\ token["refresh"][i] > now
        /\ Used(i)
        /\ UNCHANGED <<now, bearer, up, epoch, client, disk, known, unsaved>>
    BY <1>6 DEF Refresh, server
  <2>2. i \in 0..minted.issue
    BY <1>1, <1>2, <2>1
  <2>3. /\ tokens \in Stores
        /\ \A j \in Issues :
              /\ tokens["access"][j] = token["access"][j]
              /\ tokens["refresh"][j] = IF j = i /\ token["refresh"][j] > now + Grace
                                        THEN now + Grace ELSE token["refresh"][j]
    <3> DEFINE t == IF token["refresh"][i] > now + Grace THEN now + Grace ELSE token["refresh"][i]
               f == [token["refresh"] EXCEPT ![i] = t]
    <3>1. t \in Times
      BY <1>1, <1>6, StoreFacts, OAuthAssumption DEF Times, Kinds
    <3>2. DOMAIN token = Kinds /\ token["access"] \in Map(MaxIssues) /\ token["refresh"] \in Map(MaxIssues)
      BY <1>1 DEF Stores, Kinds
    <3> HIDE DEF t
    <3>3. f \in Map(MaxIssues) /\ \A j \in Issues : f[j] = IF j = i THEN t ELSE token["refresh"][j]
      BY <3>1, <3>2 DEF Map, Issues
    <3>4. tokens = [k \in Kinds |-> IF k = "access" THEN token["access"] ELSE f]
      BY <3>2 DEF Kinds, t
    <3> HIDE DEF f, tokens
    <3>5. tokens["access"] = token["access"] /\ tokens["refresh"] = f
      BY <3>4 DEF Kinds
    <3>6. tokens \in Stores
      BY <3>2, <3>3, <3>4 DEF Stores
    <3> QED
      BY <3>3, <3>5, <3>6 DEF t
  <2>4. /\ window' \in Windows
        /\ \A j \in Issues :
              /\ window'[j].saved = window[j].saved
              /\ window'[j].used = IF j = i /\ window[j].used = Never
                                   THEN now + Grace ELSE window[j].used
    <3>1. window' = [window EXCEPT ![i] = [window[i] EXCEPT !.used = IF @ = Never THEN now + Grace ELSE @]]
      BY <2>1 DEF Used
    <3>2. window[i] \in [used : Nat, saved : Nat] /\ now + Grace \in Nat
      BY <1>1, <1>6 DEF Windows
    <3> QED
      BY <1>1, <1>6, <3>1, <3>2 DEF Windows
  <2> HIDE DEF tokens
  <2>5. \A j \in Issues : j = i => token["refresh"][j] > now
    BY <2>1
  <2> QED
    BY <2>1, <2>2, <2>3, <2>4, <2>5, IssueIsChange
<1>7. ASSUME NEW i \in Issues, oauthAccessValid(i)
      PROVE  \E new : TokensChange(new)
  <2>1. /\ Ready /\ token' = [token EXCEPT !["access"][i] = 0]
        /\ UNCHANGED <<now, bearer, up, epoch, client, disk, saving, minted,
                       fate, window, origin, known, unsaved>>
    BY <1>7 DEF oauthAccessValid, server, budget, history
  <2>2. /\ token' \in Stores
        /\ \A l \in Kinds, j \in Issues :
              token'[l][j] = IF l = "access" /\ j = i THEN 0 ELSE token[l][j]
    <3>1. "access" \in Kinds /\ token \in Stores
      BY <1>1 DEF Kinds
    <3>2. /\ [token EXCEPT !["access"][i] = 0] \in Stores
          /\ \A l \in Kinds, j \in Issues :
                [token EXCEPT !["access"][i] = 0][l][j]
                  = IF l = "access" /\ j = i THEN 0 ELSE token[l][j]
      BY <1>7, <3>1, WithoutOne, Zenon
    <3> QED
      BY <2>1, <3>2, Zenon
  <2> QED
    BY <2>1, <2>2, QuietIsChange
<1>8. ASSUME NEW k \in Kinds, NEW i \in Issues, revokePost(k, i)
      PROVE  \E new : TokensChange(new)
  <2> DEFINE tokens == [token EXCEPT ![k][i] = 0]
             owed   == Owed("revoke", i, k, 0)
  <2>1. /\ Ready /\ saveStore(tokens, owed) /\ i \in known
        /\ UNCHANGED <<now, bearer, up, epoch, client, disk, minted, window, origin, known, unsaved>>
    BY <1>8 DEF revokePost, server, budget
  <2>2. /\ tokens \in Stores
        /\ \A l \in Kinds, j \in Issues :
              tokens[l][j] = IF l = k /\ j = i THEN 0 ELSE token[l][j]
    BY <1>1, <1>8, WithoutOne
  <2>3. /\ owed \in Savings /\ owed.at # "none" /\ owed.id \in 0..minted.issue /\ owed.used = 0
        /\ \A l \in Kinds, j \in Issues : Revoking(l, j)' <=> l = k /\ j = i
    <3>1. owed \in Savings /\ owed.at # "none" /\ owed.id \in 0..minted.issue /\ owed.used = 0
      <4>1. i \in 1..minted.issue /\ i \in 0..minted.issue /\ i \in 0..MaxIssues /\ 0 \in 0..MaxIssues
        BY <1>1, <1>2, <1>8, <2>1, OAuthAssumption DEF Issues
      <4> QED
        BY <1>8, <4>1 DEF Owed, Savings
    <3>2. saving' = owed
      BY <2>1 DEF saveStore
    <3>3. \A l \in Kinds, j \in Issues : Revoking(l, j)' <=> l = k /\ j = i
      BY <3>2 DEF Revoking, Owed
    <3> QED
      BY <3>1, <3>3
  <2> HIDE DEF tokens, owed
  <2>4. \A l \in Kinds, j \in Issues :
              /\ tokens[l][j] \in {0, token[l][j]}
              /\ Revoking(l, j)' => tokens[l][j] = 0
              /\ token[l][j] > now /\ ~Revoking(l, j)' => tokens[l][j] = token[l][j]
    BY <1>8, <2>2, <2>3
  <2> QED
    BY <2>1, <2>2, <2>3, <2>4, RemovalIsChange
<1>9. CASE RevokeAll
  <2> DEFINE owed == Owed("revokeAll", 0, "access", 0)
  <2>1. /\ Ready /\ saveStore(NoTokens, owed)
        /\ UNCHANGED <<now, bearer, up, epoch, client, disk, minted, window, origin, known, unsaved>>
    BY <1>9 DEF RevokeAll, server, budget
  <2>2. NoTokens \in Stores /\ \A l \in Kinds, j \in Issues : NoTokens[l][j] = 0
    BY TimesAreNat DEF NoTokens, Stores, Map, Issues
  <2>3. /\ owed \in Savings /\ owed.at # "none" /\ owed.id \in 0..minted.issue /\ owed.used = 0
        /\ \A l \in Kinds, j \in Issues : Revoking(l, j)' <=> j \in 1..minted.issue
    <3>1. owed \in Savings /\ owed.at # "none" /\ owed.id \in 0..minted.issue /\ owed.used = 0
      BY <1>2, OAuthAssumption DEF Owed, Savings, Kinds
    <3>2. saving' = owed
      BY <2>1 DEF saveStore
    <3>3. \A l \in Kinds, j \in Issues : Revoking(l, j)' <=> j \in 1..minted.issue
      BY <2>1, <3>2 DEF Revoking, Owed
    <3> QED
      BY <3>1, <3>3
  <2> HIDE DEF owed
  <2>4. \A l \in Kinds, j \in Issues :
              /\ NoTokens[l][j] \in {0, token[l][j]}
              /\ Revoking(l, j)' => NoTokens[l][j] = 0
              /\ token[l][j] > now /\ ~Revoking(l, j)' => NoTokens[l][j] = token[l][j]
    <3>1. \A l \in Kinds, j \in Issues : token[l][j] # 0 => j \in 1..minted.issue
      BY DEF StoreInv, MintInv
    <3>2. \A l \in Kinds, j \in Issues : token[l][j] > now => token[l][j] # 0
      BY <1>1, <1>3
    <3> QED
      BY <2>2, <2>3, <3>1, <3>2
  <2> QED
    BY <2>1, <2>2, <2>3, <2>4, RemovalIsChange
<1> QED
  BY <1>4, <1>5, <1>6, <1>7, <1>8, <1>9 DEF Tokens


-----------------------------------------------------------------------------
(* Approval.  An entry is put into a map that was swept for it ...         *)
LEMMA InsertFacts ==
    ASSUME NEW n \in Nat, NEW map \in Map(n), NEW cap \in Nat \ {0},
           NEW x \in 1..n, NEW t \in Times
    PROVE  /\ [sweep(map, cap) EXCEPT ![x] = t] \in Map(n)
           /\ Cardinality(Present([sweep(map, cap) EXCEPT ![x] = t])) <= cap
           /\ \A y \in 1..n : y # x => [sweep(map, cap) EXCEPT ![x] = t][y] \in {0, map[y]}
<1> DEFINE s == sweep(map, cap)
           m == [s EXCEPT ![x] = t]
<1>1. Live(map) \in Map(n) /\ \A y \in 1..n : Live(map)[y] \in {0, map[y]}
  BY LiveFacts
<1>2. /\ s \in Map(n) /\ \A y \in 1..n : s[y] \in {0, Live(map)[y]}
      /\ Cardinality(Present(s)) <= cap - 1
  <2>1. cap - 1 \in Nat /\ s = Capped(Live(map), cap - 1)
    BY DEF sweep
  <2> HIDE DEF s
  <2> QED
    BY <1>1, <2>1, CappedFacts
<1> HIDE DEF s
<1>3. m \in Map(n) /\ \A y \in 1..n : y # x => m[y] = s[y]
  BY <1>2 DEF Map
<1> HIDE DEF m
<1>4. Present(m) \subseteq Present(s) \union {x}
  <2>1. DOMAIN m = 1..n /\ DOMAIN s = 1..n
    BY <1>2, <1>3 DEF Map
  <2> QED
    BY <1>3, <2>1 DEF Present
<1>5. /\ IsFiniteSet(Present(s)) /\ Cardinality(Present(s)) \in Nat
      /\ IsFiniteSet(Present(m)) /\ Cardinality(Present(m)) \in Nat
  BY <1>2, <1>3, PresentIsFinite
<1>6. /\ IsFiniteSet(Present(s) \union {x})
      /\ Cardinality(Present(s) \union {x}) <= Cardinality(Present(s)) + 1
      /\ Cardinality(Present(s) \union {x}) \in Nat
  <2>1. /\ IsFiniteSet(Present(s) \union {x})
        /\ Cardinality(Present(s) \union {x}) = IF x \in Present(s) THEN Cardinality(Present(s))
                                                ELSE Cardinality(Present(s)) + 1
    BY <1>5, FS_AddElement
  <2> QED
    BY <1>5, <2>1
<1>7. Cardinality(Present(m)) <= Cardinality(Present(s) \union {x})
  BY <1>4, <1>6, FS_Subset
<1>8. Cardinality(Present(m)) <= cap
  BY <1>2, <1>5, <1>6, <1>7
<1>9. \A y \in 1..n : y # x => m[y] \in {0, map[y]}
  BY <1>1, <1>2, <1>3
<1> QED
  BY <1>3, <1>8, <1>9 DEF m, s

(* ... and taken out again.                                                *)
LEMMA RemoveFacts ==
    ASSUME NEW n \in Nat, NEW map \in Map(n), NEW cap \in Nat, NEW x \in 1..n,
           Cardinality(Present(map)) <= cap
    PROVE  /\ [map EXCEPT ![x] = 0] \in Map(n)
           /\ Cardinality(Present([map EXCEPT ![x] = 0])) <= cap
           /\ \A y \in 1..n : [map EXCEPT ![x] = 0][y] = IF y = x THEN 0 ELSE map[y]
<1> DEFINE m == [map EXCEPT ![x] = 0]
<1>1. m \in Map(n) /\ \A y \in 1..n : m[y] = IF y = x THEN 0 ELSE map[y]
  BY TimesAreNat DEF Map
<1> HIDE DEF m
<1>2. Present(m) \subseteq Present(map)
  BY <1>1 DEF Present, Map
<1>3. /\ IsFiniteSet(Present(map)) /\ Cardinality(Present(map)) \in Nat
      /\ Cardinality(Present(m)) \in Nat
  BY <1>1, PresentIsFinite
<1>4. Cardinality(Present(m)) <= Cardinality(Present(map))
  BY <1>2, <1>3, FS_Subset
<1>5. Cardinality(Present(m)) <= cap
  BY <1>3, <1>4
<1> QED
  BY <1>1, <1>5 DEF m

(* Empty maps.                                                             *)
LEMMA EmptyFacts ==
    /\ NoCodes \in Map(MaxCodes) /\ Cardinality(Present(NoCodes)) = 0
    /\ NoRequests \in Map(MaxLinks) /\ Cardinality(Present(NoRequests)) = 0
    /\ NoTokens \in Stores /\ \A k \in Kinds : Cardinality(Present(NoTokens[k])) = 0
<1>1. /\ NoCodes \in Map(MaxCodes) /\ NoRequests \in Map(MaxLinks) /\ NoTokens \in Stores
  BY TimesAreNat DEF NoCodes, NoRequests, NoTokens, Map, Stores, Codes, Asks, Issues
<1>2. /\ Present(NoCodes) = {} /\ Present(NoRequests) = {}
      /\ \A k \in Kinds : Present(NoTokens[k]) = {}
  BY DEF Present, NoCodes, NoRequests, NoTokens
<1> QED
  BY <1>1, <1>2, FS_EmptySet

(* One more link, code or client id is minted.                             *)
LEMMA MintFacts ==
    ASSUME minted \in Mints, NEW m
    PROVE  /\ {minted.issue, minted.ask, minted.code, minted.client} \subseteq Nat
           /\ minted.ask < MaxLinks /\ m = [minted EXCEPT !.ask = @ + 1]
              => m \in Mints /\ m.code = minted.code /\ m.ask \in 1..MaxLinks
           /\ minted.code < MaxCodes /\ m = [minted EXCEPT !.code = @ + 1]
              => m \in Mints /\ m.code = minted.code + 1 /\ m.code \in 1..MaxCodes
           /\ minted.client < MaxClients /\ m = [minted EXCEPT !.client = @ + 1]
              => m \in Mints /\ m.issue = minted.issue /\ m.code = minted.code
                 /\ m.client = minted.client + 1 /\ m.client \in 1..MaxClients
<1>1. /\ MaxIssues \in Nat /\ MaxLinks \in Nat /\ MaxCodes \in Nat /\ MaxClients \in Nat
  BY OAuthAssumption DEF MaxLinks
<1>2. /\ minted.issue \in 0..MaxIssues /\ minted.ask \in 0..MaxLinks
      /\ minted.code \in 0..MaxCodes /\ minted.client \in 0..MaxClients
      /\ minted = [issue |-> minted.issue, ask |-> minted.ask, code |-> minted.code,
                   client |-> minted.client]
  BY DEF Mints
<1>3. ASSUME minted.ask < MaxLinks, m = [minted EXCEPT !.ask = @ + 1]
      PROVE  m \in Mints /\ m.code = minted.code /\ m.ask \in 1..MaxLinks
  <2>1. m = [issue |-> minted.issue, ask |-> minted.ask + 1, code |-> minted.code,
             client |-> minted.client]
    BY <1>2, <1>3
  <2> QED
    BY <1>1, <1>2, <1>3, <2>1 DEF Mints
<1>4. ASSUME minted.code < MaxCodes, m = [minted EXCEPT !.code = @ + 1]
      PROVE  m \in Mints /\ m.code = minted.code + 1 /\ m.code \in 1..MaxCodes
  <2>1. m = [issue |-> minted.issue, ask |-> minted.ask, code |-> minted.code + 1,
             client |-> minted.client]
    BY <1>2, <1>4
  <2> QED
    BY <1>1, <1>2, <1>4, <2>1 DEF Mints
<1>5. ASSUME minted.client < MaxClients, m = [minted EXCEPT !.client = @ + 1]
      PROVE  m \in Mints /\ m.issue = minted.issue /\ m.code = minted.code
             /\ m.client = minted.client + 1 /\ m.client \in 1..MaxClients
  <2>1. m = [issue |-> minted.issue, ask |-> minted.ask, code |-> minted.code,
             client |-> minted.client + 1]
    BY <1>2, <1>5
  <2> QED
    BY <1>1, <1>2, <1>5, <2>1 DEF Mints
<1> QED
  BY <1>1, <1>2, <1>3, <1>4, <1>5

(* Every step keeps the invariant of approval.                             *)
LEMMA NextKeepsApproval ==
    ASSUME ApprovalInv, StoreInv, [Next]_vars
    PROVE  ApprovalInv'
<1>1. /\ now \in 0..MaxTime /\ now \in Nat /\ bearer \in 1..MaxBearers /\ minted \in Mints
      /\ codes \in Map(MaxCodes) /\ Cardinality(Present(codes)) <= MaxPending
      /\ authReqs \in Map(MaxLinks) /\ Cardinality(Present(authReqs)) <= MaxPending
      /\ delayed \subseteq Asks \X Times
      /\ upsets \in 0..MaxUpsets
      /\ spent \subseteq 1..minted.code
      /\ \A c \in Codes : codes[c] # 0 => c \in 1..minted.code
      /\ \A c \in spent : codes[c] = 0
      /\ minted.code \in Nat /\ minted.code <= MaxCodes
      /\ minted.ask \in Nat /\ minted.client \in Nat /\ minted.issue \in Nat
  BY OAuthAssumption DEF ApprovalInv, Mints
<1>2. /\ MaxTime \in Nat /\ MaxUpsets \in Nat /\ MaxBearers \in Nat /\ MaxPending \in Nat \ {0}
      /\ MaxLinks \in Nat /\ MaxCodes \in Nat /\ MaxIssues \in Nat /\ MaxClients \in Nat
      /\ Asks = 1..MaxLinks /\ Codes = 1..MaxCodes /\ Issues = 1..MaxIssues
  BY OAuthAssumption DEF Asks, MaxLinks, Codes, Issues
<1>3. /\ now + ReqTtl \in Times /\ now + CodeTtl \in Times /\ now + CodeTtl # 0
  BY <1>1, OAuthAssumption DEF Times
<1>4. ASSUME UNCHANGED <<codes, authReqs, delayed, spent>>, minted'.code = minted.code,
             now' \in 0..MaxTime, bearer' \in 1..MaxBearers, minted' \in Mints,
             upsets' \in 0..MaxUpsets
      PROVE  ApprovalInv'
  BY <1>1, <1>4 DEF ApprovalInv
<1>5. CASE UNCHANGED vars
  BY <1>1, <1>4, <1>5 DEF vars, memory, pending, budget, history
<1>6. CASE Tick
  <2>1. now' \in 0..MaxTime /\ UNCHANGED <<codes, authReqs, delayed, spent, bearer, minted, upsets>>
    BY <1>1, <1>2, <1>6 DEF Tick, memory, pending, budget, history
  <2> QED
    BY <1>1, <1>4, <2>1
<1>7. CASE RotateBearer
  <2>1. bearer' \in 1..MaxBearers /\ UNCHANGED <<codes, authReqs, delayed, spent, now, minted, upsets>>
    BY <1>1, <1>2, <1>7 DEF RotateBearer, memory, pending, budget, history
  <2> QED
    BY <1>1, <1>4, <2>1
<1>8. CASE Start
  <2>1. /\ UNCHANGED <<codes, authReqs, delayed, spent, now, bearer, upsets>>
        /\ \E fresh \in BOOLEAN :
              /\ fresh => minted.client < MaxClients
              /\ minted' = [minted EXCEPT !.client = IF fresh THEN @ + 1 ELSE @]
    <3>1. PICK readable \in IF "read" \in Faults THEN BOOLEAN ELSE {TRUE} :
             /\ loadStore(readable).client = 0 => minted.client < MaxClients
             /\ minted' = [minted EXCEPT !.client = IF loadStore(readable).client = 0 THEN @ + 1 ELSE @]
      BY <1>8 DEF Start
    <3>2. UNCHANGED <<codes, authReqs, delayed, spent, now, bearer, upsets>>
      BY <1>8 DEF Start, pending
    <3> QED
      BY <3>1, <3>2
  <2>2. \/ minted.client < MaxClients /\ minted' = [minted EXCEPT !.client = @ + 1]
        \/ minted' = minted
    BY <1>1, <2>1 DEF Mints
  <2>3. minted' \in Mints /\ minted'.code = minted.code
    BY <1>1, <2>2, MintFacts, Zenon
  <2> QED
    BY <1>1, <1>4, <2>1, <2>3
<1>9. CASE Crash
  <2>1. /\ codes' = NoCodes /\ authReqs' = NoRequests /\ delayed' = {}
        /\ spent' = 1..minted.code /\ UNCHANGED <<now, bearer, minted>>
        /\ upsets' \in 0..MaxUpsets
    BY <1>1, <1>2, <1>9 DEF Crash
  <2>2. \A c \in Codes : NoCodes[c] = 0
    BY DEF NoCodes
  <2>3. 1..minted.code \subseteq Codes
    BY <1>1, <1>2
  <2> QED
    BY <1>1, <1>2, <2>1, <2>2, <2>3, EmptyFacts DEF ApprovalInv
<1>10. CASE WriteTmp \/ Rename
  <2>1. UNCHANGED <<now, bearer, codes, authReqs, delayed, spent, minted, upsets>>
    BY <1>10 DEF WriteTmp, Rename, memory, pending, budget, history
  <2> QED
    BY <1>1, <1>4, <2>1
<1>11. CASE SaveFails
  <2>1. UNCHANGED <<now, bearer, codes, authReqs, delayed, spent, minted>> /\ upsets' \in 0..MaxUpsets
    BY <1>1, <1>2, <1>11 DEF SaveFails, memory, pending
  <2> QED
    BY <1>1, <1>4, <2>1
<1>12. CASE authorizeGet
  <2>1. /\ minted' = [minted EXCEPT !.ask = @ + 1] /\ minted.ask < MaxLinks
        /\ authReqs' = [sweep(authReqs, MaxPending) EXCEPT ![minted'.ask] = now + ReqTtl]
        /\ UNCHANGED <<now, bearer, codes, delayed, spent, upsets>>
    BY <1>1, <1>12, OAuthAssumption DEF authorizeGet, MaxLinks, server, history
  <2>2. minted' \in Mints /\ minted'.code = minted.code /\ minted'.ask \in 1..MaxLinks
    BY <1>1, <2>1, MintFacts
  <2>3. authReqs' \in Map(MaxLinks) /\ Cardinality(Present(authReqs')) <= MaxPending
    BY <1>1, <1>2, <1>3, <2>1, <2>2, InsertFacts
  <2> QED
    BY <1>1, <2>1, <2>2, <2>3 DEF ApprovalInv
<1>13. ASSUME NEW d \in delayed, OfferAgain(d) PROVE ApprovalInv'
  <2>1. /\ minted' = [minted EXCEPT !.ask = @ + 1] /\ minted.ask < MaxLinks
        /\ authReqs' = [sweep(authReqs, MaxPending) EXCEPT ![minted'.ask] = d[2]]
        /\ delayed' = delayed \ {d}
        /\ UNCHANGED <<now, bearer, codes, spent, upsets>>
    BY <1>13 DEF OfferAgain, server, history
  <2>2. minted' \in Mints /\ minted'.code = minted.code /\ minted'.ask \in 1..MaxLinks
    BY <1>1, <2>1, MintFacts
  <2>3. d[2] \in Times /\ delayed' \subseteq Asks \X Times
    BY <1>1, <1>13, <2>1
  <2>4. authReqs' \in Map(MaxLinks) /\ Cardinality(Present(authReqs')) <= MaxPending
    BY <1>1, <1>2, <2>1, <2>2, <2>3, InsertFacts
  <2> QED
    BY <1>1, <2>1, <2>2, <2>3, <2>4 DEF ApprovalInv
<1>14. ASSUME NEW r \in Asks, ApproveExpired(r) \/ ApproveWrong(r) PROVE ApprovalInv'
  <2>1. /\ authReqs' = [authReqs EXCEPT ![r] = 0]
        /\ delayed' \in {delayed, delayed \union {<<r, authReqs[r]>>}}
        /\ UNCHANGED <<now, bearer, codes, minted, spent, upsets>>
    BY <1>14 DEF ApproveExpired, ApproveWrong, server, budget, history
  <2>2. authReqs[r] \in Times /\ r \in 1..MaxLinks
    BY <1>1, <1>2, <1>14 DEF Map
  <2>3. delayed' \subseteq Asks \X Times
    BY <1>1, <1>14, <2>1, <2>2
  <2>4. authReqs' \in Map(MaxLinks) /\ Cardinality(Present(authReqs')) <= MaxPending
    BY <1>1, <1>2, <2>1, <2>2, RemoveFacts
  <2> QED
    BY <1>1, <2>1, <2>3, <2>4 DEF ApprovalInv
<1>15. ASSUME NEW r \in Asks, ApproveRight(r) PROVE ApprovalInv'
  <2>1. /\ authReqs' = [authReqs EXCEPT ![r] = 0] /\ minted' = [minted EXCEPT !.code = @ + 1]
        /\ codes' = [sweep(codes, MaxPending) EXCEPT ![minted'.code] = now + CodeTtl]
        /\ minted.code < MaxCodes
        /\ UNCHANGED <<now, bearer, delayed, spent, upsets>>
    BY <1>15 DEF ApproveRight, CodesLeft, server, history
  <2>2. authReqs' \in Map(MaxLinks) /\ Cardinality(Present(authReqs')) <= MaxPending
    BY <1>1, <1>2, <1>15, <2>1, RemoveFacts
  <2>3. minted' \in Mints /\ minted'.code = minted.code + 1 /\ minted'.code \in 1..MaxCodes
    BY <1>1, <2>1, MintFacts
  <2>4. /\ codes' \in Map(MaxCodes) /\ Cardinality(Present(codes')) <= MaxPending
        /\ \A c \in 1..MaxCodes : c # minted'.code => codes'[c] \in {0, codes[c]}
    BY <1>1, <1>2, <1>3, <2>1, <2>3, InsertFacts
  <2>5. 1..minted.code \subseteq 1..minted'.code /\ minted'.code \notin 1..minted.code
        /\ minted'.code \in 1..minted'.code
    BY <1>1, <2>3
  <2>6. \A c \in Codes : codes'[c] # 0 => c \in 1..minted'.code
    BY <1>1, <1>2, <2>4, <2>5
  <2>7. spent' \subseteq 1..minted'.code /\ \A c \in spent' : codes'[c] = 0
    <3>1. \A c \in spent : c \in 1..MaxCodes /\ c # minted'.code
      BY <1>1, <1>2, <2>5
    <3> QED
      BY <1>1, <2>1, <2>4, <2>5, <3>1
  <2> QED
    BY <1>1, <2>1, <2>2, <2>3, <2>4, <2>6, <2>7 DEF ApprovalInv
<1>16. ASSUME NEW c \in Codes, NEW matches \in BOOLEAN, Redeem(c, matches) PROVE ApprovalInv'
  <2>1. /\ codes[c] # 0 /\ codes' = [codes EXCEPT ![c] = 0] /\ spent' = spent \union {c}
        /\ UNCHANGED <<now, bearer, authReqs, delayed, upsets>>
        /\ minted' = minted \/ (minted' = [minted EXCEPT !.issue = minted.issue + 1]
                                /\ minted.issue + 1 \in Issues)
    BY <1>16 DEF Redeem, issueTokens, server
  <2>2. minted' \in Mints /\ minted'.code = minted.code
    BY <1>1, <1>2, <2>1 DEF Mints
  <2>3. /\ codes' \in Map(MaxCodes) /\ Cardinality(Present(codes')) <= MaxPending
        /\ \A d \in 1..MaxCodes : codes'[d] = IF d = c THEN 0 ELSE codes[d]
    <3>1. c \in 1..MaxCodes /\ MaxPending \in Nat
      BY <1>2, <1>16
    <3>2. /\ [codes EXCEPT ![c] = 0] \in Map(MaxCodes)
          /\ Cardinality(Present([codes EXCEPT ![c] = 0])) <= MaxPending
          /\ \A d \in 1..MaxCodes : [codes EXCEPT ![c] = 0][d] = IF d = c THEN 0 ELSE codes[d]
      <4>1. MaxCodes \in Nat /\ codes \in Map(MaxCodes) /\ Cardinality(Present(codes)) <= MaxPending
        BY <1>1, <1>2
      <4> QED
        BY <3>1, <4>1, RemoveFacts
    <3> QED
      BY <2>1, <3>2, Zenon
  <2>4. c \in 1..minted.code
    BY <1>1, <1>16, <2>1
  <2>5. \A d \in Codes : codes'[d] # 0 => d \in 1..minted'.code
    BY <1>1, <1>2, <2>2, <2>3
  <2>6. spent' \subseteq 1..minted'.code /\ \A d \in spent' : codes'[d] = 0
    <3>1. \A d \in spent' : d \in 1..MaxCodes /\ (d = c \/ codes[d] = 0)
      BY <1>1, <1>2, <2>1, <2>4
    <3> QED
      BY <1>1, <2>1, <2>2, <2>3, <2>4, <3>1
  <2> QED
    BY <1>1, <2>1, <2>2, <2>3, <2>5, <2>6 DEF ApprovalInv
<1>17. ASSUME NEW i \in Issues,
              RefreshExpired(i) \/ Refresh(i) \/ oauthAccessValid(i)
              \/ (\E k \in Kinds : revokePost(k, i))
       PROVE  ApprovalInv'
  <2>1. /\ UNCHANGED <<now, bearer, codes, authReqs, delayed, spent, upsets>>
        /\ minted' = minted \/ (minted' = [minted EXCEPT !.issue = minted.issue + 1]
                                /\ minted.issue + 1 \in Issues)
    BY <1>17 DEF RefreshExpired, Refresh, oauthAccessValid, revokePost, issueTokens,
                 server, pending, budget, history
  <2>2. minted' \in Mints /\ minted'.code = minted.code
    BY <1>1, <1>2, <2>1 DEF Mints
  <2> QED
    BY <1>1, <1>4, <2>1, <2>2
<1>18. CASE RevokeAll
  <2>1. /\ codes' = NoCodes /\ authReqs' = NoRequests /\ spent' = 1..minted.code
        /\ UNCHANGED <<now, bearer, minted, delayed, upsets>>
    BY <1>18 DEF RevokeAll, server, budget
  <2>2. \A c \in Codes : NoCodes[c] = 0
    BY DEF NoCodes
  <2>3. 1..minted.code \subseteq Codes
    BY <1>1, <1>2
  <2> QED
    BY <1>1, <1>2, <2>1, <2>2, <2>3, EmptyFacts DEF ApprovalInv
<1> QED
  BY <1>5, <1>6, <1>7, <1>8, <1>9, <1>10, <1>11, <1>12, <1>13, <1>14, <1>15,
     <1>16, <1>17, <1>18 DEF Next, Approval, Tokens


-----------------------------------------------------------------------------
(***************************************************************************)
(* The steps that are not requests for tokens.                             *)
(***************************************************************************)
Quiet ==
    /\ UNCHANGED <<up, epoch, client, token, saving, disk, fate, window, origin, known, unsaved>>
    /\ minted'.issue = minted.issue
    /\ bearer' \in 1..MaxBearers /\ bearer <= bearer'
    /\ now' \in 0..MaxTime /\ now <= now'

(* Time, the operator and approval touch neither tokens nor file.          *)
LEMMA QuietSteps ==
    ASSUME ApprovalInv, UNCHANGED vars \/ Tick \/ RotateBearer \/ Approval
    PROVE  Quiet
<1>1. /\ now \in 0..MaxTime /\ now \in Nat /\ bearer \in 1..MaxBearers /\ bearer \in Nat
      /\ MaxTime \in Nat /\ MaxBearers \in Nat /\ minted \in Mints
  BY OAuthAssumption DEF ApprovalInv
<1>2. CASE UNCHANGED vars
  BY <1>1, <1>2 DEF Quiet, vars, memory, budget, history
<1>3. CASE Tick
  BY <1>1, <1>3 DEF Quiet, Tick, memory, budget, history
<1>4. CASE RotateBearer
  BY <1>1, <1>4 DEF Quiet, RotateBearer, memory, budget, history
<1>5. CASE Approval
  <2>1. \/ minted' = minted
        \/ minted' = [minted EXCEPT !.ask = @ + 1]
        \/ minted' = [minted EXCEPT !.code = @ + 1]
    BY <1>5 DEF Approval, authorizeGet, ApproveExpired, ApproveWrong, ApproveRight, OfferAgain, budget
  <2>2. minted'.issue = minted.issue
    BY <1>1, <2>1 DEF Mints
  <2>3. UNCHANGED <<now, bearer, up, epoch, client, token, saving, disk,
                    fate, window, origin, known, unsaved>>
    BY <1>5 DEF Approval, authorizeGet, ApproveExpired, ApproveWrong, ApproveRight, OfferAgain,
                server, budget, history
  <2> QED
    BY <1>1, <2>2, <2>3 DEF Quiet
<1> QED
  BY <1>2, <1>3, <1>4, <1>5

(* So the invariants hold of them still: bridge tokens only move on ...    *)
LEMMA QuietKeepsStore ==
    ASSUME ApprovalInv, StoreInv, Quiet
    PROVE  StoreInv'
<1> USE DEF Quiet, StoreInv
<1>1. StoreTypes' /\ RoomInv'
  BY DEF StoreTypes, RoomInv
<1>2. RunInv' /\ MintInv'
  BY DEF RunInv, MintInv, Never
<1>3. DeadInv'
  BY DEF DeadInv, Revoking
<1>4. EpochInv'
  <2>1. epoch <= bearer' /\ disk.epoch <= bearer'
    <3>1. /\ epoch \in Nat /\ disk.epoch \in Nat /\ bearer \in Nat /\ bearer' \in Nat
          /\ epoch <= bearer /\ disk.epoch <= bearer
      BY OAuthAssumption DEF ApprovalInv, StoreTypes, EpochInv, Files, Epochs
    <3> QED
      BY <3>1
  <2> QED
    BY <2>1 DEF EpochInv
<1> QED
  BY <1>1, <1>2, <1>3, <1>4

(* ... and time brings only ends nearer.                                   *)
LEMMA QuietKeepsRest ==
    ASSUME ApprovalInv, StoreInv, Quiet
    PROVE  /\ GraceInv => GraceInv'
           /\ StayInv => StayInv'
           /\ ClientInv => ClientInv' /\ disk' = disk
           /\ RestartInv => RestartInv'
<1>1. /\ now \in Nat /\ now' \in Nat /\ now <= now' /\ Grace \in Nat
      /\ disk' = disk /\ token' = token /\ window' = window /\ origin' = origin
      /\ saving' = saving /\ epoch' = epoch /\ fate' = fate /\ up' = up /\ client' = client
      /\ unsaved' = unsaved /\ minted'.issue = minted.issue
  BY OAuthAssumption DEF ApprovalInv, Quiet
<1>2. ASSUME NEW i \in Issues
      PROVE  /\ window[i].used \in Nat /\ origin[i].exp \in Nat
             /\ \A k \in Kinds : token[k][i] \in Nat /\ disk.token[k][i] \in Nat
  BY <1>2, StoreFacts DEF StoreInv, StoreTypes, Windows, Origins, Files
<1>3. ASSUME GraceInv PROVE GraceInv'
  <2>1. ASSUME NEW i \in Issues
        PROVE  /\ FirstUse(i)' /\ SavedEnds(i)' /\ BeingUsed(i)'
               /\ NotBefore(token["refresh"][i], i)' /\ NotBefore(disk.token["refresh"][i], i)'
    <3>1. /\ FirstUse(i) /\ SavedEnds(i) /\ BeingUsed(i)
          /\ NotBefore(token["refresh"][i], i) /\ NotBefore(disk.token["refresh"][i], i)
      BY <1>3, <2>1 DEF GraceInv
    <3>2. window[i].used \in Nat /\ token["refresh"][i] \in Nat
      BY <1>2, <2>1 DEF Kinds
    <3>3. FirstUse(i)'
      BY <1>1, <3>1, <3>2 DEF FirstUse, Never
    <3>4. SavedEnds(i)'
      BY <1>1, <3>1 DEF SavedEnds, Never
    <3>5. BeingUsed(i)'
      BY <1>1, <3>1, <3>2 DEF BeingUsed
    <3>6. NotBefore(token["refresh"][i], i)' /\ NotBefore(disk.token["refresh"][i], i)'
      BY <1>1, <3>1 DEF NotBefore
    <3> QED
      BY <3>3, <3>4, <3>5, <3>6
  <2> QED
    BY <2>1 DEF GraceInv
<1>4. ASSUME StayInv PROVE StayInv'
  <2>1. \A k \in Kinds, i \in Issues : Revoking(k, i)' <=> Revoking(k, i)
    BY <1>1 DEF Revoking
  <2>2. \A i \in Issues : Lasting(i)' => Lasting(i)
    BY <1>1, <1>2 DEF Lasting
  <2>3. "refresh" \in Kinds
    BY DEF Kinds
  <2> QED
    BY <1>1, <1>4, <2>1, <2>2, <2>3 DEF StayInv, Never
<1>5. ASSUME RestartInv PROVE RestartInv'
  <2>1. \A k \in Kinds, i \in Issues :
           SameLife(token[k][i], disk.token[k][i]) => SameLife(token[k][i], disk.token[k][i])'
    BY <1>1, <1>2 DEF SameLife
  <2> QED
    BY <1>1, <1>5, <2>1 DEF RestartInv, Ready, Idle
<1> QED
  BY <1>1, <1>3, <1>4, <1>5 DEF ClientInv

(* The text beside the file is not the file yet.                           *)
LEMMA WriteTmpKeeps ==
    ASSUME ApprovalInv, StoreInv, WriteTmp
    PROVE  /\ StoreInv'
           /\ GraceInv => GraceInv'
           /\ StayInv => StayInv'
           /\ ClientInv => ClientInv' /\ disk' = disk
           /\ RestartInv'
<1>1. /\ saving.at = "write" /\ saving' = [saving EXCEPT !.at = "rename"]
      /\ UNCHANGED <<now, bearer, up, epoch, client, token, disk, minted,
                     fate, window, origin, known, unsaved>>
  BY DEF WriteTmp, memory, budget, history
<1>2. /\ saving \in Savings /\ saving' \in Savings
      /\ saving'.kind = saving.kind /\ saving'.id = saving.id /\ saving'.of = saving.of
      /\ saving'.used = saving.used /\ saving'.at = "rename"
  BY <1>1 DEF StoreInv, StoreTypes, Savings
<1>3. saving # Idle /\ saving' # Idle
  BY <1>1, <1>2 DEF Idle
<1>4. \A k \in Kinds, i \in Issues : Revoking(k, i)' <=> Revoking(k, i)
  BY <1>1, <1>2 DEF Revoking
<1>5. StoreInv'
  <2> USE DEF StoreInv
  <2>1. StoreTypes' /\ RoomInv'
    BY <1>1, <1>2 DEF StoreTypes, RoomInv
  <2>2. RunInv'
    BY <1>1, <1>2, <1>3 DEF RunInv
  <2>3. MintInv' /\ EpochInv'
    BY <1>1, <1>2 DEF MintInv, EpochInv, Never
  <2>4. DeadInv'
    BY <1>1, <1>4 DEF DeadInv
  <2> QED
    BY <2>1, <2>2, <2>3, <2>4
<1>6. GraceInv => GraceInv'
  BY <1>1, <1>2 DEF GraceInv, FirstUse, SavedEnds, BeingUsed, NotBefore, Never
<1>7. StayInv => StayInv'
  <2>1. "refresh" \in Kinds
    BY DEF Kinds
  <2> QED
    BY <1>1, <1>2, <1>4, <2>1 DEF StayInv, Lasting, Never
<1> QED
  BY <1>1, <1>3, <1>5, <1>6, <1>7 DEF ClientInv, RestartInv, Ready, Idle


(* What both ends of a save do; what becomes of the marks differs.         *)
LEMMA AnswerFacts ==
    ASSUME ApprovalInv, StoreInv, Answer, saving.at # "none",
           UNCHANGED <<now, bearer, up, epoch, client, token, minted, origin>>
    PROVE  /\ up /\ up' /\ epoch # 0 /\ saving' = Idle /\ Idle \in Savings
           /\ known' \subseteq 0..minted'.issue /\ saving'.id \in 0..minted'.issue
           /\ saving'.used \in 0..minted'.issue
           /\ \A i \in Issues : i # saving'.used
           /\ \A k \in Kinds, i \in Issues : ~Revoking(k, i)'
           /\ \A k \in Kinds, i \in Issues : Revoking(k, i) => i \in 1..minted.issue \/ i = saving.id
           /\ \A i \in Issues : i \notin 1..minted.issue => i # saving.id /\ i # saving.used
<1>1. saving' = Idle
  BY DEF Answer
<1>2. saving # Idle
  BY DEF Idle
<1>3. up /\ up' /\ epoch # 0
  BY <1>2 DEF StoreInv, RunInv
<1>4. /\ Idle \in Savings /\ minted.issue \in Nat /\ MaxIssues \in Nat
      /\ saving.id \in 0..minted.issue /\ saving.used \in 0..minted.issue
      /\ known \subseteq 0..minted.issue
  BY OAuthAssumption DEF Idle, Savings, Kinds, ApprovalInv, Mints, StoreInv, MintInv, StoreTypes
<1>5. /\ saving'.id \in 0..minted'.issue /\ saving'.used \in 0..minted'.issue /\ saving'.used = 0
  BY <1>1, <1>4 DEF Idle
<1>6. known' \subseteq 0..minted'.issue
  BY <1>4 DEF Answer
<1>7. \A k \in Kinds, i \in Issues : ~Revoking(k, i)'
  BY <1>1 DEF Revoking, Idle
<1>8. \A k \in Kinds, i \in Issues : Revoking(k, i) => i \in 1..minted.issue \/ i = saving.id
  BY DEF Revoking
<1>9. \A i \in Issues : i # 0
  BY DEF Issues
<1>10. \A i \in Issues : i \notin 1..minted.issue => i # saving.id /\ i # saving.used
  BY <1>4, <1>9
<1> QED
  BY <1>1, <1>3, <1>4, <1>5, <1>6, <1>7, <1>8, <1>9, <1>10

(* The file becomes what memory is.                                        *)
LEMMA RenameKeeps ==
    ASSUME ApprovalInv, StoreInv, Rename
    PROVE  /\ StoreInv'
           /\ GraceInv => GraceInv'
           /\ StayInv => StayInv'
           /\ ClientInv => ClientInv' /\ (disk.client # 0 => disk'.client = disk.client)
           /\ RestartInv'
<1>1. /\ saving.at = "rename" /\ Answer
      /\ disk' = [client |-> client, epoch |-> epoch, token |-> token, torn |-> FALSE]
      /\ fate' = [k \in Kinds |-> [i \in Issues |->
                  IF Revoking(k, i) \/ (fate[k][i] = "answered" /\ token[k][i] = 0)
                  THEN "revoked" ELSE fate[k][i]]]
      /\ window' = [i \in Issues |->
                    IF i = saving.used /\ window[i].saved = Never
                    THEN [window[i] EXCEPT !.saved = now + Grace] ELSE window[i]]
      /\ unsaved' = FALSE
      /\ UNCHANGED <<now, bearer, up, epoch, client, token, minted, origin>>
  BY DEF Rename, memory, budget
<1>2. /\ up /\ up' /\ epoch # 0 /\ saving' = Idle /\ Idle \in Savings
      /\ known' \subseteq 0..minted'.issue /\ saving'.id \in 0..minted'.issue
      /\ saving'.used \in 0..minted'.issue
      /\ \A i \in Issues : i # saving'.used
      /\ \A k \in Kinds, i \in Issues : ~Revoking(k, i)'
      /\ \A k \in Kinds, i \in Issues : Revoking(k, i) => i \in 1..minted.issue \/ i = saving.id
      /\ \A i \in Issues : i \notin 1..minted.issue => i # saving.id /\ i # saving.used
  BY <1>1, AnswerFacts
<1>3. /\ now \in Nat /\ Grace \in Nat /\ client \in 0..MaxClients /\ epoch \in Epochs
      /\ token \in Stores /\ fate \in Fates /\ window \in Windows /\ origin \in Origins
  BY OAuthAssumption DEF ApprovalInv, StoreInv, StoreTypes
<1>4. /\ disk' \in Files /\ disk'.client = client /\ disk'.epoch = epoch /\ disk'.token = token
  BY <1>1, <1>3 DEF Files
<1>5. \A k \in Kinds, i \in Issues :
         fate'[k][i] = IF Revoking(k, i) \/ (fate[k][i] = "answered" /\ token[k][i] = 0)
                       THEN "revoked" ELSE fate[k][i]
  BY <1>1
<1>6. ASSUME NEW i \in Issues
      PROVE  /\ window'[i].used = window[i].used
             /\ window'[i].saved = IF i = saving.used /\ window[i].saved = Never
                                   THEN now + Grace ELSE window[i].saved
             /\ window'[i].used \in Nat /\ window'[i].saved \in Nat
             /\ window'[i] \in [used : Nat, saved : Nat]
             /\ window[i].used \in Nat /\ window[i].saved \in Nat
  <2>1. window[i] \in [used : Nat, saved : Nat] /\ now + Grace \in Nat
    BY <1>3, <1>6 DEF Windows
  <2>2. window'[i] = IF i = saving.used /\ window[i].saved = Never
                     THEN [window[i] EXCEPT !.saved = now + Grace] ELSE window[i]
    BY <1>1, <1>6
  <2> QED
    BY <2>1, <2>2
<1>7. StoreInv'
  <2>1. StoreTypes'
    <3>1. fate' \in Fates
      BY <1>1, <1>3 DEF Fates
    <3>2. window' \in Windows
      <4>1. window' = [i \in Issues |-> window'[i]]
        BY <1>1
      <4> QED
        BY <1>6, <4>1 DEF Windows
    <3> QED
      BY <1>1, <1>2, <1>3, <1>4, <3>1, <3>2 DEF StoreTypes
  <2>2. RoomInv' /\ RunInv'
    BY <1>1, <1>2, <1>4 DEF StoreInv, RoomInv, RunInv
  <2>3. MintInv'
    <3>1. ASSUME NEW i \in Issues, i \notin 1..minted.issue
          PROVE  /\ window'[i].saved = Never
                 /\ \A k \in Kinds : token[k][i] = 0 /\ fate'[k][i] = "alive"
      <4>1. /\ window[i].saved = Never
            /\ \A k \in Kinds : token[k][i] = 0 /\ fate[k][i] = "alive"
        BY <3>1 DEF StoreInv, MintInv
      <4>2. \A k \in Kinds : ~Revoking(k, i)
        BY <1>2, <3>1
      <4>3. window'[i].saved = Never
        BY <1>2, <1>6, <3>1, <4>1
      <4> QED
        BY <1>5, <3>1, <4>1, <4>2, <4>3
    <3> QED
      BY <1>1, <1>2, <1>4, <3>1 DEF MintInv, Never
  <2>4. DeadInv'
    <3>1. ASSUME NEW k \in Kinds, NEW i \in Issues, fate'[k][i] = "revoked"
          PROVE  token[k][i] = 0
      BY <1>5, <3>1 DEF StoreInv, DeadInv
    <3> QED
      BY <1>1, <1>2, <1>4, <3>1 DEF DeadInv
  <2>5. EpochInv'
    <3>1. epoch <= epoch
      BY <1>3, OAuthAssumption DEF Epochs
    <3> QED
      BY <1>1, <1>4, <3>1 DEF StoreInv, EpochInv
  <2> QED
    BY <2>1, <2>2, <2>3, <2>4, <2>5 DEF StoreInv
<1>8. ASSUME GraceInv PROVE GraceInv'
  <2>1. ASSUME NEW i \in Issues
        PROVE  /\ FirstUse(i)' /\ SavedEnds(i)' /\ BeingUsed(i)'
               /\ NotBefore(token["refresh"][i], i)' /\ NotBefore(disk.token["refresh"][i], i)'
    <3>1. /\ FirstUse(i) /\ SavedEnds(i) /\ BeingUsed(i)
          /\ NotBefore(token["refresh"][i], i)
      BY <1>8, <2>1 DEF GraceInv
    <3>2. /\ token["refresh"][i] \in Nat /\ epoch \in Nat /\ disk.epoch \in Nat
          /\ origin[i].epoch \in Nat /\ disk.epoch <= epoch
      BY <1>2, <1>3, <2>1, StoreFacts, OAuthAssumption
         DEF Kinds, Origins, Epochs, StoreInv, StoreTypes, Files, EpochInv
    <3>3. FirstUse(i)'
      BY <1>1, <1>6, <2>1, <3>1 DEF FirstUse, Never
    <3>4. SavedEnds(i)'
      <4>1. ASSUME window'[i].saved # Never
            PROVE  token["refresh"][i] <= window'[i].saved /\ origin[i].epoch <= epoch
        <5>1. CASE i = saving.used /\ window[i].saved = Never
          BY <1>6, <2>1, <3>1, <3>2, <5>1 DEF BeingUsed
        <5>2. CASE ~ (i = saving.used /\ window[i].saved = Never)
          BY <1>6, <2>1, <3>1, <3>2, <4>1, <5>2 DEF SavedEnds
        <5> QED
          BY <5>1, <5>2
      <4> QED
        BY <1>1, <1>2, <1>4, <4>1 DEF SavedEnds, Never
    <3>5. BeingUsed(i)'
      BY <1>2, <2>1 DEF BeingUsed
    <3>6. NotBefore(token["refresh"][i], i)' /\ NotBefore(disk.token["refresh"][i], i)'
      BY <1>1, <1>4, <1>6, <2>1, <3>1 DEF NotBefore
    <3> QED
      BY <3>3, <3>4, <3>5, <3>6
  <2> QED
    BY <2>1 DEF GraceInv
<1>9. ASSUME StayInv PROVE StayInv'
  <2>1. ASSUME NEW i \in Issues, Lasting(i)', window'[i].saved # Never, origin[i].epoch = epoch
        PROVE  token["refresh"][i] # 0
    <3>1. "refresh" \in Kinds
      BY DEF Kinds
    <3>2. Lasting(i) /\ ~Revoking("refresh", i)
      BY <1>1, <1>5, <1>6, <2>1, <3>1 DEF Lasting
    <3>3. window[i].saved # Never \/ i = saving.used
      BY <1>6, <2>1
    <3> QED
      BY <1>2, <1>9, <2>1, <3>2, <3>3 DEF StayInv
  <2> QED
    BY <1>1, <1>2, <1>4, <2>1 DEF StayInv, Never
<1>10. RestartInv'
  BY <1>1, <1>4 DEF RestartInv, SameLife
<1>11. ASSUME ClientInv PROVE ClientInv' /\ (disk.client # 0 => disk'.client = disk.client)
  BY <1>1, <1>2, <1>4, <1>11 DEF ClientInv
<1> QED
  BY <1>7, <1>8, <1>9, <1>10, <1>11

(* The file stays what it was, and the answer is sent all the same.        *)
LEMMA SaveFailsKeeps ==
    ASSUME ApprovalInv, StoreInv, SaveFails
    PROVE  /\ StoreInv'
           /\ GraceInv => GraceInv'
           /\ StayInv => StayInv'
           /\ ClientInv => ClientInv' /\ disk' = disk
           /\ RestartInv'
<1>1. /\ saving.at # "none" /\ Answer
      /\ fate' = [k \in Kinds |-> [i \in Issues |->
                  IF Revoking(k, i) /\ fate[k][i] # "revoked"
                  THEN "answered" ELSE fate[k][i]]]
      /\ unsaved' = TRUE
      /\ UNCHANGED <<now, bearer, up, epoch, client, token, disk, minted, window, origin>>
  BY DEF SaveFails, memory
<1>2. /\ up /\ up' /\ epoch # 0 /\ saving' = Idle /\ Idle \in Savings
      /\ known' \subseteq 0..minted'.issue /\ saving'.id \in 0..minted'.issue
      /\ saving'.used \in 0..minted'.issue
      /\ \A i \in Issues : i # saving'.used
      /\ \A k \in Kinds, i \in Issues : ~Revoking(k, i)'
      /\ \A k \in Kinds, i \in Issues : Revoking(k, i) => i \in 1..minted.issue \/ i = saving.id
      /\ \A i \in Issues : i \notin 1..minted.issue => i # saving.id /\ i # saving.used
  BY <1>1, AnswerFacts
<1>3. \A k \in Kinds, i \in Issues :
         fate'[k][i] = IF Revoking(k, i) /\ fate[k][i] # "revoked" THEN "answered" ELSE fate[k][i]
  BY <1>1
<1>4. StoreInv'
  <2> USE DEF StoreInv
  <2>1. StoreTypes'
    <3>1. fate' \in Fates
      BY <1>1 DEF StoreTypes, Fates
    <3> QED
      BY <1>1, <1>2, <3>1 DEF StoreTypes
  <2>2. RoomInv' /\ RunInv' /\ EpochInv'
    BY <1>1, <1>2 DEF RoomInv, RunInv, EpochInv
  <2>3. MintInv'
    <3>1. ASSUME NEW i \in Issues, i \notin 1..minted.issue, NEW k \in Kinds
          PROVE  fate'[k][i] = "alive"
      BY <1>2, <1>3, <3>1 DEF MintInv
    <3> QED
      BY <1>1, <1>2, <3>1 DEF MintInv, Never
  <2>4. DeadInv'
    BY <1>1, <1>2, <1>3 DEF DeadInv
  <2> QED
    BY <2>1, <2>2, <2>3, <2>4
<1>5. ASSUME GraceInv PROVE GraceInv'
  BY <1>1, <1>2, <1>5 DEF GraceInv, FirstUse, SavedEnds, BeingUsed, NotBefore, Never
<1>6. ASSUME StayInv PROVE StayInv'
  <2>1. ASSUME NEW i \in Issues, Lasting(i)' PROVE Lasting(i) /\ ~Revoking("refresh", i)
    <3>1. "refresh" \in Kinds
      BY DEF Kinds
    <3> QED
      BY <1>1, <1>3, <2>1, <3>1 DEF Lasting
  <2> QED
    BY <1>1, <1>2, <1>6, <2>1 DEF StayInv, Never
<1> QED
  BY <1>1, <1>4, <1>5, <1>6 DEF ClientInv, RestartInv

(* Nothing in memory survives; the file does.                              *)
LEMMA CrashKeeps ==
    ASSUME ApprovalInv, StoreInv, Crash
    PROVE  /\ StoreInv'
           /\ GraceInv => GraceInv'
           /\ StayInv => StayInv'
           /\ ClientInv' /\ disk' = disk
           /\ RestartInv'
<1>1. /\ up' = FALSE /\ epoch' = 0 /\ client' = 0 /\ token' = NoTokens /\ saving' = Idle
      /\ UNCHANGED <<now, bearer, disk, minted, fate, window, origin, known, unsaved>>
  BY DEF Crash
<1>2. /\ NoTokens \in Stores /\ Idle \in Savings /\ MaxStored \in Nat /\ bearer \in Nat
      /\ 0 \in Epochs /\ 0 \in 0..MaxClients /\ minted.issue \in Nat
      /\ saving'.id = 0 /\ saving'.used = 0
  BY <1>1, EmptyFacts, OAuthAssumption DEF Idle, Savings, Kinds, Epochs, ApprovalInv, Mints
<1>3. \A k \in Kinds, i \in Issues : NoTokens[k][i] = 0 /\ ~Revoking(k, i)'
  BY <1>1 DEF NoTokens, Revoking, Idle
<1>4. \A i \in Issues : i # 0
  BY DEF Issues
<1>5. StoreInv'
  <2> USE DEF StoreInv
  <2>1. StoreTypes'
    BY <1>1, <1>2 DEF StoreTypes
  <2>2. RoomInv'
    BY <1>1, <1>2, EmptyFacts DEF RoomInv
  <2>3. RunInv'
    BY <1>1 DEF RunInv
  <2>4. MintInv'
    BY <1>1, <1>2, <1>3 DEF MintInv, Never
  <2>5. DeadInv'
    BY <1>1, <1>3 DEF DeadInv
  <2>6. EpochInv'
    BY <1>1, <1>2, <1>3 DEF EpochInv
  <2> QED
    BY <2>1, <2>2, <2>3, <2>4, <2>5, <2>6
<1>6. ASSUME GraceInv PROVE GraceInv'
  <2>1. ASSUME NEW i \in Issues
        PROVE  /\ FirstUse(i)' /\ SavedEnds(i)' /\ BeingUsed(i)'
               /\ NotBefore(token["refresh"][i], i)' /\ NotBefore(disk.token["refresh"][i], i)'
    <3>1. /\ FirstUse(i) /\ SavedEnds(i) /\ NotBefore(disk.token["refresh"][i], i)
      BY <1>6, <2>1 DEF GraceInv
    <3>2. token'["refresh"][i] = 0 /\ window[i].saved \in Nat
      BY <1>1, <1>3, <2>1 DEF Kinds, StoreInv, StoreTypes, Windows
    <3>3. FirstUse(i)' /\ BeingUsed(i)' /\ NotBefore(disk.token["refresh"][i], i)'
      BY <1>1, <1>2, <1>4, <2>1, <3>1 DEF FirstUse, BeingUsed, NotBefore, Never
    <3>4. SavedEnds(i)' /\ NotBefore(token["refresh"][i], i)'
      BY <1>1, <3>1, <3>2 DEF SavedEnds, NotBefore, Never
    <3> QED
      BY <3>3, <3>4
  <2> QED
    BY <2>1 DEF GraceInv
<1>7. ASSUME StayInv PROVE StayInv'
  BY <1>1, <1>7 DEF StayInv, Lasting, Never
<1> QED
  BY <1>1, <1>5, <1>6, <1>7 DEF ClientInv, RestartInv, Ready


(* A start: the tokens it takes over are those on file, of the same bridge *)
(* token; where the file can be read it takes over all that are live and   *)
(* fit, and the client id.                                                 *)
LEMMA StartFacts ==
    ASSUME ApprovalInv, StoreInv, Start
    PROVE  /\ ~up /\ up' = TRUE /\ epoch' = bearer /\ unsaved' = FALSE
           /\ UNCHANGED <<now, bearer, disk, window, origin, known>>
           /\ minted'.issue = minted.issue
           /\ client' \in 0..MaxClients
           /\ token' \in Stores /\ fate' \in Fates
           /\ \A k \in Kinds : Cardinality(Present(token'[k])) <= MaxStored
           /\ saving' = Idle \/ saving' = Owed("start", 0, "access", 0)
           /\ \A k \in Kinds, i \in Issues :
                 /\ \/ fate'[k][i] = fate[k][i]
                    \/ fate[k][i] = "alive" /\ fate'[k][i] = "evicted" /\ disk.token[k][i] # 0
                 /\ token'[k][i] # 0 => token'[k][i] = disk.token[k][i] /\ disk.epoch = bearer
           /\ saving' = Idle =>
                 /\ client' = disk.client /\ disk.epoch = bearer
                 /\ \A k \in Kinds, i \in Issues :
                       token'[k][i] = IF disk.token[k][i] <= now THEN 0 ELSE disk.token[k][i]
           /\ "read" \notin Faults =>
                 /\ disk.client # 0 => client' = disk.client
                 /\ \A i \in Issues :
                       /\ disk.epoch = bearer /\ fate'["refresh"][i] = "alive"
                       /\ disk.token["refresh"][i] > now
                       => token'["refresh"][i] # 0
<1> DEFINE owed == Owed("start", 0, "access", 0)
<1>1. PICK readable \in (IF "read" \in Faults THEN BOOLEAN ELSE {TRUE}) :
         LET loaded == loadStore(readable)
             fresh  == loaded.client = 0
         IN /\ fresh => minted.client < MaxClients
            /\ minted' = [minted EXCEPT !.client = IF fresh THEN @ + 1 ELSE @]
            /\ client' = IF fresh THEN minted.client + 1 ELSE loaded.client
            /\ unsaved' = FALSE
            /\ IF fresh \/ loaded.rewrite
               THEN saveStore(loaded.token, owed)
               ELSE token' = loaded.token /\ UNCHANGED <<saving, fate>>
  BY DEF Start
<1> DEFINE loaded == loadStore(readable)
           fresh  == loaded.client = 0
<1>2. /\ ~up /\ up' = TRUE /\ epoch' = bearer /\ unsaved' = FALSE
      /\ UNCHANGED <<now, bearer, disk, window, origin, known>>
  BY <1>1 DEF Start
<1>3. /\ now \in 0..MaxTime /\ now \in Nat /\ minted \in Mints /\ minted.client \in Nat
      /\ disk \in Files /\ disk.client \in 0..MaxClients /\ disk.torn = FALSE
      /\ disk.token \in Stores /\ token \in Stores /\ fate \in Fates
      /\ MaxClients \in Nat /\ MaxStored \in Nat /\ MaxIssues \in Nat
  <2>1. /\ disk \in Files /\ disk.client \in 0..MaxClients /\ disk.torn = FALSE
        /\ disk.token \in Stores /\ token \in Stores /\ fate \in Fates
    BY DEF StoreInv, StoreTypes, Files
  <2>2. now \in 0..MaxTime /\ now \in Nat /\ minted \in Mints
    BY OAuthAssumption DEF ApprovalInv
  <2>3. minted.client \in Nat
    BY <2>2, OAuthAssumption DEF Mints
  <2> QED
    BY <2>1, <2>2, <2>3, OAuthAssumption
<1>4. saving = Idle
  BY <1>2 DEF StoreInv, RunInv
<1>5. /\ fresh => minted.client < MaxClients
      /\ minted' = [minted EXCEPT !.client = IF fresh THEN @ + 1 ELSE @]
      /\ client' = IF fresh THEN minted.client + 1 ELSE loaded.client
      /\ IF fresh \/ loaded.rewrite
         THEN saveStore(loaded.token, owed)
         ELSE token' = loaded.token /\ UNCHANGED <<saving, fate>>
  BY <1>1
<1> DEFINE fromFile == [k \in Kinds |-> rehydrate(disk.token[k])]
<1>6. /\ fromFile \in Stores
      /\ \A k \in Kinds : Cardinality(Present(fromFile[k])) <= MaxStored
      /\ \A k \in Kinds, i \in Issues :
            fromFile[k][i] = IF disk.token[k][i] <= now THEN 0 ELSE disk.token[k][i]
  <2>1. ASSUME NEW k \in Kinds
        PROVE  /\ fromFile[k] \in Map(MaxIssues) /\ Cardinality(Present(fromFile[k])) <= MaxStored
               /\ \A i \in Issues :
                     fromFile[k][i] = IF disk.token[k][i] <= now THEN 0 ELSE disk.token[k][i]
    <3>1. disk.token[k] \in Map(MaxIssues) /\ Issues = 1..MaxIssues
      BY <1>3, <2>1 DEF Stores, Issues
    <3>2. fromFile[k] = Live(disk.token[k])
      BY <2>1 DEF rehydrate
    <3> HIDE DEF fromFile
    <3>3. /\ fromFile[k] \in Map(MaxIssues)
          /\ \A i \in Issues :
                fromFile[k][i] = IF disk.token[k][i] <= now THEN 0 ELSE disk.token[k][i]
          /\ Present(fromFile[k]) \subseteq Present(disk.token[k])
      BY <1>3, <3>1, <3>2, LiveFacts
    <3>4. /\ IsFiniteSet(Present(disk.token[k])) /\ Cardinality(Present(disk.token[k])) \in Nat
          /\ Cardinality(Present(fromFile[k])) \in Nat
      BY <1>3, <3>1, <3>3, PresentIsFinite
    <3>5. Cardinality(Present(fromFile[k])) <= Cardinality(Present(disk.token[k]))
      BY <3>3, <3>4, FS_Subset
    <3>6. Cardinality(Present(disk.token[k])) <= MaxStored
      BY <2>1 DEF StoreInv, RoomInv
    <3> QED
      BY <1>3, <3>3, <3>4, <3>5, <3>6
  <2>2. fromFile \in Stores
    BY <2>1 DEF Stores
  <2> QED
    BY <2>1, <2>2
<1> HIDE DEF fromFile
<1>7. /\ \/ loaded.token = NoTokens /\ loaded.client = 0 /\ (disk = NoFile \/ ~readable)
         \/ loaded.token = NoTokens /\ loaded.client = disk.client /\ loaded.rewrite
            /\ disk.epoch # bearer
         \/ loaded.token = fromFile /\ loaded.client = disk.client /\ disk.epoch = bearer
  BY <1>3 DEF loadStore, emptyStore, fromFile
<1> HIDE DEF loaded
<1>8. /\ NoTokens \in Stores /\ \A k \in Kinds, i \in Issues : NoTokens[k][i] = 0
      /\ \A k \in Kinds : Cardinality(Present(NoTokens[k])) <= MaxStored
  <2>1. \A k \in Kinds, i \in Issues : NoTokens[k][i] = 0
    BY DEF NoTokens
  <2> QED
    BY <1>3, <2>1, EmptyFacts
<1>9. /\ loaded.token \in Stores /\ loaded.client \in 0..MaxClients
      /\ \A k \in Kinds : Cardinality(Present(loaded.token[k])) <= MaxStored
      /\ \A k \in Kinds, i \in Issues :
            loaded.token[k][i] # 0 => /\ loaded.token[k][i] = disk.token[k][i]
                                      /\ disk.epoch = bearer
  BY <1>3, <1>6, <1>7, <1>8
<1>10. /\ token' \in Stores /\ fate' \in Fates
       /\ \A k \in Kinds : Cardinality(Present(token'[k])) <= MaxStored
       /\ saving' = Idle \/ saving' = owed
       /\ saving' = Idle => ~fresh /\ ~loaded.rewrite /\ token' = loaded.token /\ fate' = fate
       /\ \A k \in Kinds, i \in Issues :
             /\ token'[k][i] = 0 \/ token'[k][i] = loaded.token[k][i]
             /\ \/ fate'[k][i] = fate[k][i]
                \/ fate[k][i] = "alive" /\ fate'[k][i] = "evicted" /\ loaded.token[k][i] > now
             /\ k = "refresh" /\ fate'[k][i] = "alive" /\ loaded.token[k][i] > now
                => token'[k][i] # 0
  <2>1. CASE fresh \/ loaded.rewrite
    <3>1. saveStore(loaded.token, owed)
      BY <1>5, <2>1
    <3>2. /\ token' \in Stores /\ fate' \in Fates /\ saving' = owed
          /\ \A k \in Kinds : Cardinality(Present(token'[k])) <= MaxStored
          /\ \A k \in Kinds, i \in Issues :
                /\ token'[k][i] \in {0, loaded.token[k][i]}
                /\ fate'[k][i] = fate[k][i] \/ (fate[k][i] = "alive" /\ fate'[k][i] = "evicted"
                                                /\ loaded.token[k][i] > now)
                /\ k = "refresh" /\ fate'[k][i] = "alive" /\ loaded.token[k][i] > now
                   => token'[k][i] # 0
      BY <1>3, <1>9, <3>1, SaveFacts
    <3>3. owed # Idle
      BY DEF Owed, Idle
    <3> QED
      BY <3>2, <3>3
  <2>2. CASE ~ (fresh \/ loaded.rewrite)
    <3>1. token' = loaded.token /\ saving' = Idle /\ fate' = fate
      BY <1>4, <1>5, <2>2
    <3>2. ASSUME NEW k \in Kinds, NEW i \in Issues, loaded.token[k][i] > now
          PROVE  loaded.token[k][i] # 0
      <4>1. loaded.token[k][i] \in Nat
        BY <1>9, <3>2, StoreFacts
      <4> QED
        BY <1>3, <3>2, <4>1
    <3> QED
      BY <1>3, <1>9, <2>2, <3>1, <3>2
  <2> QED
    BY <2>1, <2>2
<1>11. client' \in 0..MaxClients /\ minted'.issue = minted.issue
  BY <1>3, <1>5, <1>9 DEF Mints
<1>12. ASSUME NEW k \in Kinds, NEW i \in Issues
       PROVE  /\ \/ fate'[k][i] = fate[k][i]
                 \/ fate[k][i] = "alive" /\ fate'[k][i] = "evicted" /\ disk.token[k][i] # 0
              /\ token'[k][i] # 0 => token'[k][i] = disk.token[k][i] /\ disk.epoch = bearer
  <2>1. loaded.token[k][i] \in Nat
    BY <1>9, <1>12, StoreFacts
  <2>2. loaded.token[k][i] > now => loaded.token[k][i] # 0
    BY <1>3, <2>1
  <2> QED
    BY <1>9, <1>10, <1>12, <2>2
<1>13. ASSUME saving' = Idle
       PROVE  /\ client' = disk.client /\ disk.epoch = bearer
              /\ \A k \in Kinds, i \in Issues :
                    token'[k][i] = IF disk.token[k][i] <= now THEN 0 ELSE disk.token[k][i]
  <2>1. loaded.client # 0 /\ ~loaded.rewrite /\ token' = loaded.token
    BY <1>10, <1>13
  <2>2. loaded.token = fromFile /\ loaded.client = disk.client /\ disk.epoch = bearer
    BY <1>7, <2>1
  <2> QED
    BY <1>5, <1>6, <2>1, <2>2
<1>14. ASSUME "read" \notin Faults
       PROVE  /\ disk.client # 0 => client' = disk.client
              /\ \A i \in Issues :
                    /\ disk.epoch = bearer /\ fate'["refresh"][i] = "alive"
                    /\ disk.token["refresh"][i] > now
                    => token'["refresh"][i] # 0
  <2>1. readable = TRUE
    BY <1>1, <1>14
  <2>2. \/ disk = NoFile
        \/ loaded.client = disk.client /\ disk.epoch # bearer
        \/ loaded.token = fromFile /\ loaded.client = disk.client /\ disk.epoch = bearer
    BY <1>7, <2>1
  <2>3. disk.client # 0 => client' = disk.client
    <3>1. disk = NoFile => disk.client = 0
      BY DEF NoFile
    <3> QED
      BY <1>5, <2>2, <3>1
  <2>4. ASSUME NEW i \in Issues, disk.epoch = bearer, fate'["refresh"][i] = "alive",
               disk.token["refresh"][i] > now
        PROVE  token'["refresh"][i] # 0
    <3>1. "refresh" \in Kinds /\ disk.token["refresh"][i] \in Nat
      BY <1>3, <2>4, StoreFacts DEF Kinds
    <3>2. disk # NoFile
      <4>1. disk = NoFile => disk.token["refresh"][i] = 0
        BY <2>4, <3>1 DEF NoFile, NoTokens
      <4> QED
        BY <1>3, <2>4, <3>1, <4>1
    <3>3. loaded.token = fromFile
      BY <2>2, <2>4, <3>2
    <3>4. loaded.token["refresh"][i] = disk.token["refresh"][i]
      BY <1>3, <1>6, <2>4, <3>1, <3>3
    <3> QED
      BY <1>10, <2>4, <3>1, <3>4
  <2> QED
    BY <2>3, <2>4
<1> QED
  BY <1>2, <1>10, <1>11, <1>12, <1>13, <1>14


(* A start brings back what was on file, and nothing else.                 *)
LEMMA StartKeeps ==
    ASSUME ApprovalInv, StoreInv, Start
    PROVE  /\ StoreInv'
           /\ GraceInv => GraceInv'
           /\ GraceInv /\ StayInv /\ "read" \notin Faults => StayInv'
           /\ disk' = disk /\ ("read" \notin Faults => ClientInv')
           /\ RestartInv'
<1>1. /\ ~up /\ up' = TRUE /\ epoch' = bearer /\ unsaved' = FALSE
      /\ UNCHANGED <<now, bearer, disk, window, origin, known>>
      /\ minted'.issue = minted.issue
      /\ client' \in 0..MaxClients
      /\ token' \in Stores /\ fate' \in Fates
      /\ \A k \in Kinds : Cardinality(Present(token'[k])) <= MaxStored
      /\ saving' = Idle \/ saving' = Owed("start", 0, "access", 0)
  BY StartFacts
<1>2. /\ saving' = Idle =>
            /\ client' = disk.client /\ disk.epoch = bearer
            /\ \A k \in Kinds, i \in Issues :
                  token'[k][i] = IF disk.token[k][i] <= now THEN 0 ELSE disk.token[k][i]
      /\ "read" \notin Faults =>
            /\ disk.client # 0 => client' = disk.client
            /\ \A i \in Issues :
                  /\ disk.epoch = bearer /\ fate'["refresh"][i] = "alive"
                  /\ disk.token["refresh"][i] > now
                  => token'["refresh"][i] # 0
  BY StartFacts
<1>3. \A k \in Kinds, i \in Issues :
         /\ \/ fate'[k][i] = fate[k][i]
            \/ fate[k][i] = "alive" /\ fate'[k][i] = "evicted" /\ disk.token[k][i] # 0
         /\ token'[k][i] # 0 => token'[k][i] = disk.token[k][i] /\ disk.epoch = bearer
  BY StartFacts
<1>4. /\ now \in Nat /\ bearer \in 1..MaxBearers /\ bearer \in Nat /\ bearer # 0
      /\ bearer \in Epochs /\ disk \in Files /\ disk.epoch \in Nat
      /\ disk.epoch <= bearer
  <2>1. now \in Nat /\ bearer \in 1..MaxBearers /\ bearer \in Nat /\ bearer # 0 /\ bearer \in Epochs
    BY OAuthAssumption DEF ApprovalInv, Epochs
  <2>2. disk \in Files /\ disk.epoch <= bearer
    BY DEF StoreInv, StoreTypes, EpochInv
  <2>3. disk.epoch \in Nat
    BY <2>2, OAuthAssumption DEF Files, Epochs
  <2> QED
    BY <2>1, <2>2, <2>3
<1>5. /\ saving' \in Savings /\ saving'.id = 0 /\ saving'.used = 0
      /\ saving' = Idle \/ saving'.at # "none"
      /\ \A k \in Kinds, i \in Issues : ~Revoking(k, i)'
  <2>1. /\ Idle \in Savings /\ Owed("start", 0, "access", 0) \in Savings
        /\ Owed("start", 0, "access", 0).at # "none"
    BY OAuthAssumption DEF Idle, Owed, Savings, Kinds
  <2>2. saving'.id = 0 /\ saving'.used = 0 /\ saving'.kind \in {"none", "start"}
    BY <1>1 DEF Idle, Owed
  <2>3. \A k \in Kinds, i \in Issues : ~Revoking(k, i)'
    BY <2>2 DEF Revoking
  <2> QED
    BY <1>1, <2>1, <2>2, <2>3
<1>6. \A i \in Issues : i # 0
  BY DEF Issues
<1>7. minted.issue \in Nat
  BY OAuthAssumption DEF ApprovalInv, Mints
<1>8. StoreInv'
  <2> USE DEF StoreInv
  <2>1. StoreTypes'
    BY <1>1, <1>4, <1>5 DEF StoreTypes
  <2>2. RoomInv'
    BY <1>1 DEF RoomInv
  <2>3. RunInv'
    BY <1>1, <1>4, <1>5 DEF RunInv
  <2>4. MintInv'
    <3>1. ASSUME NEW i \in Issues, i \notin 1..minted.issue, NEW k \in Kinds
          PROVE  token'[k][i] = 0 /\ disk.token[k][i] = 0 /\ fate'[k][i] = "alive"
      <4>1. disk.token[k][i] = 0 /\ fate[k][i] = "alive"
        BY <3>1 DEF MintInv
      <4> QED
        BY <1>3, <3>1, <4>1
    <3> QED
      BY <1>1, <1>5, <1>7, <3>1 DEF MintInv, Never
  <2>5. DeadInv'
    <3>1. ASSUME NEW k \in Kinds, NEW i \in Issues, fate'[k][i] = "revoked"
          PROVE  token'[k][i] = 0 /\ disk.token[k][i] = 0
      <4>1. disk.token[k][i] = 0
        BY <1>3, <3>1 DEF DeadInv
      <4> QED
        BY <1>3, <3>1, <4>1
    <3> QED
      BY <1>1, <1>5, <3>1 DEF DeadInv
  <2>6. EpochInv'
    <3>1. ASSUME NEW k \in Kinds, NEW i \in Issues
          PROVE  /\ token'[k][i] # 0 => origin[i].epoch = bearer
                 /\ disk.token[k][i] # 0 => origin[i].epoch = disk.epoch
      BY <1>3, <3>1 DEF EpochInv
    <3> QED
      BY <1>1, <1>4, <3>1 DEF EpochInv
  <2> QED
    BY <2>1, <2>2, <2>3, <2>4, <2>5, <2>6
<1>9. ASSUME GraceInv PROVE GraceInv'
  <2>1. ASSUME NEW i \in Issues
        PROVE  /\ FirstUse(i)' /\ SavedEnds(i)' /\ BeingUsed(i)'
               /\ NotBefore(token["refresh"][i], i)' /\ NotBefore(disk.token["refresh"][i], i)'
    <3>1. /\ FirstUse(i) /\ SavedEnds(i) /\ NotBefore(disk.token["refresh"][i], i)
      BY <1>9, <2>1 DEF GraceInv
    <3>2. /\ token'["refresh"][i] = 0 \/ token'["refresh"][i] = disk.token["refresh"][i]
          /\ window[i].saved \in Nat
      BY <1>3, <2>1 DEF Kinds, StoreInv, StoreTypes, Windows
    <3>3. FirstUse(i)' /\ BeingUsed(i)' /\ NotBefore(disk.token["refresh"][i], i)'
      BY <1>1, <1>5, <1>6, <2>1, <3>1 DEF FirstUse, BeingUsed, NotBefore, Never
    <3>4. SavedEnds(i)'
      <4>1. window[i].saved # Never => token'["refresh"][i] <= window[i].saved
        BY <3>1, <3>2 DEF SavedEnds
      <4> QED
        BY <1>1, <3>1, <4>1 DEF SavedEnds, Never
    <3>5. NotBefore(token["refresh"][i], i)'
      BY <1>1, <3>1, <3>2 DEF NotBefore
    <3> QED
      BY <3>3, <3>4, <3>5
  <2> QED
    BY <2>1 DEF GraceInv
<1>10. ASSUME GraceInv, StayInv, "read" \notin Faults PROVE StayInv'
  <2>1. ASSUME NEW i \in Issues, Lasting(i)' PROVE Lasting(i) /\ fate'["refresh"][i] = "alive"
    <3>1. "refresh" \in Kinds
      BY DEF Kinds
    <3> QED
      BY <1>1, <1>3, <2>1, <3>1 DEF Lasting
  <2>2. ASSUME NEW i \in Issues, Lasting(i)', window[i].saved # Never, origin[i].epoch = bearer
        PROVE  token'["refresh"][i] # 0
    <3>1. Lasting(i) /\ fate'["refresh"][i] = "alive"
      BY <2>1, <2>2
    <3>2. disk.epoch = bearer
      BY <1>4, <1>10, <2>2 DEF GraceInv, SavedEnds
    <3>3. disk.token["refresh"][i] # 0
      BY <1>10, <2>2, <3>1, <3>2 DEF StayInv
    <3>4. disk.token["refresh"][i] > now
      <4>1. /\ disk.token["refresh"][i] \in Nat /\ window[i].used \in Nat /\ origin[i].exp \in Nat
        BY <2>2, StoreFacts DEF StoreInv, StoreTypes, Files, Windows, Origins, Kinds
      <4>2. NotBefore(disk.token["refresh"][i], i) /\ now < window[i].used /\ now < origin[i].exp
        BY <1>10, <2>2, <3>1 DEF GraceInv, Lasting
      <4> QED
        BY <1>4, <3>3, <4>1, <4>2 DEF NotBefore
    <3> QED
      BY <1>2, <1>10, <2>2, <3>1, <3>2, <3>4
  <2>3. ASSUME NEW i \in Issues, Lasting(i)', window[i].saved # Never, origin[i].epoch = disk.epoch
        PROVE  disk.token["refresh"][i] # 0
    BY <1>10, <2>1, <2>3 DEF StayInv
  <2> QED
    BY <1>1, <1>5, <1>6, <2>2, <2>3 DEF StayInv, Never
<1>11. RestartInv'
  <2>1. ASSUME saving' = Idle, NEW k \in Kinds, NEW i \in Issues
        PROVE  SameLife(token[k][i], disk.token[k][i])'
    <3>1. token'[k][i] = IF disk.token[k][i] <= now THEN 0 ELSE disk.token[k][i]
      BY <1>2, <2>1
    <3>2. disk.token[k][i] \in Nat
      BY <1>4, <2>1, StoreFacts DEF Files
    <3> QED
      BY <1>1, <1>4, <3>1, <3>2 DEF SameLife
  <2>2. ASSUME Ready'
        PROVE  /\ disk'.client = client' /\ disk'.epoch = epoch'
               /\ \A k \in Kinds, i \in Issues : SameLife(token[k][i], disk.token[k][i])'
    <3>1. saving' = Idle
      BY <2>2 DEF Ready, Idle
    <3> QED
      BY <1>1, <1>2, <2>1, <3>1
  <2> QED
    BY <2>2 DEF RestartInv
<1>12. "read" \notin Faults => ClientInv'
  BY <1>1, <1>2 DEF ClientInv
<1> QED
  BY <1>1, <1>8, <1>9, <1>10, <1>11, <1>12

(***************************************************************************)
(* A request for tokens leaves memory and file in agreement, or a save     *)
(* under way.                                                              *)
(***************************************************************************)
LEMMA TokensKeepRestart ==
    ASSUME ApprovalInv, StoreInv, RestartInv, Tokens
    PROVE  RestartInv'
<1>1. CASE saving' # Idle
  BY <1>1 DEF RestartInv, Ready, Idle
<1>2. CASE saving' = Idle
  <2>1. \A kind, id, of, used : Owed(kind, id, of, used) # Idle
    BY DEF Owed, Idle
  <2>2. /\ UNCHANGED <<now, up, epoch, client, disk, unsaved>> /\ Ready
        /\ token' = token \/ \E i \in Issues : /\ token["access"][i] \in 1..now
                                               /\ token' = [token EXCEPT !["access"][i] = 0]
    <3>1. ASSUME NEW c \in Codes, NEW matches \in BOOLEAN, Redeem(c, matches)
          PROVE  UNCHANGED <<now, up, epoch, client, disk, unsaved, token>> /\ Ready
      BY <1>2, <2>1, <3>1 DEF Redeem, issueTokens, saveStore, server
    <3>2. ASSUME NEW i \in Issues, RefreshExpired(i) \/ Refresh(i) \/ (\E k \in Kinds : revokePost(k, i))
          PROVE  FALSE
      BY <1>2, <2>1, <3>2 DEF RefreshExpired, Refresh, revokePost, issueTokens, saveStore
    <3>3. ASSUME NEW i \in Issues, oauthAccessValid(i)
          PROVE  /\ UNCHANGED <<now, up, epoch, client, disk, unsaved>> /\ Ready
                 /\ token["access"][i] \in 1..now /\ token' = [token EXCEPT !["access"][i] = 0]
      BY <3>3 DEF oauthAccessValid, server, history
    <3>4. ~RevokeAll
      BY <1>2, <2>1 DEF RevokeAll, saveStore
    <3> QED
      BY <3>1, <3>2, <3>3, <3>4 DEF Tokens
  <2>3. now \in Nat /\ token \in Stores
    BY OAuthAssumption DEF ApprovalInv, StoreInv, StoreTypes
  <2>4. ASSUME ~unsaved, NEW k \in Kinds, NEW j \in Issues
        PROVE  SameLife(token[k][j], disk.token[k][j])'
    <3>1. SameLife(token[k][j], disk.token[k][j])
      BY <2>2, <2>4 DEF RestartInv
    <3>2. CASE token' = token
      BY <2>2, <3>1, <3>2 DEF SameLife
    <3>3. ASSUME NEW i \in Issues, token["access"][i] \in 1..now,
                 token' = [token EXCEPT !["access"][i] = 0]
          PROVE  SameLife(token[k][j], disk.token[k][j])'
      <4>1. token'[k][j] = IF k = "access" /\ j = i THEN 0 ELSE token[k][j]
        BY <2>3, <2>4, <3>3, WithoutOne DEF Kinds
      <4>2. CASE k = "access" /\ j = i
        BY <2>2, <2>3, <3>1, <3>3, <4>1, <4>2 DEF SameLife
      <4>3. CASE ~ (k = "access" /\ j = i)
        BY <2>2, <3>1, <4>1, <4>3 DEF SameLife
      <4> QED
        BY <4>2, <4>3
    <3> QED
      BY <2>2, <3>2, <3>3
  <2> QED
    BY <2>2, <2>4 DEF RestartInv, Ready
<1> QED
  BY <1>1, <1>2


-----------------------------------------------------------------------------
(***************************************************************************)
(* The theorems.                                                           *)
(***************************************************************************)
(* The invariants hold at the beginning.                                   *)
LEMMA InitEstablishes ==
    ASSUME Init
    PROVE  ApprovalInv /\ StoreInv /\ GraceInv /\ StayInv /\ ClientInv /\ RestartInv
<1>1. /\ now = 0 /\ bearer = 1 /\ up = FALSE
      /\ epoch = 0 /\ client = 0 /\ token = NoTokens
      /\ codes = NoCodes /\ authReqs = NoRequests /\ delayed = {}
      /\ saving = Idle /\ disk = NoFile
      /\ minted = [issue |-> 0, ask |-> 0, code |-> 0, client |-> 0]
      /\ upsets = 0
      /\ fate = [k \in Kinds |-> [i \in Issues |-> "alive"]]
      /\ window = [i \in Issues |-> [used |-> Never, saved |-> Never]]
      /\ origin = [i \in Issues |-> [epoch |-> 0, exp |-> 0]]
      /\ known = {} /\ spent = {} /\ unsaved = FALSE
  BY DEF Init
<1>2. /\ MaxTime \in Nat /\ MaxIssues \in Nat /\ MaxLinks \in Nat /\ MaxCodes \in Nat
      /\ MaxClients \in Nat /\ MaxBearers \in Nat \ {0} /\ MaxUpsets \in Nat /\ MaxPending \in Nat
      /\ MaxStored \in Nat /\ Grace \in Nat /\ Never \in Nat
  BY OAuthAssumption DEF Never, MaxLinks
<1>3. /\ \A k \in Kinds, i \in Issues : NoTokens[k][i] = 0
      /\ \A c \in Codes : NoCodes[c] = 0
  BY DEF NoTokens, NoCodes
<1>4. /\ disk.client = 0 /\ disk.epoch = 0 /\ disk.token = NoTokens /\ disk.torn = FALSE
      /\ saving.id = 0 /\ saving.used = 0 /\ minted.issue = 0 /\ minted.code = 0
  BY <1>1 DEF NoFile, Idle
<1>5. disk \in Files /\ saving \in Savings /\ minted \in Mints
  BY <1>1, <1>2, EmptyFacts DEF Files, NoFile, Idle, Savings, Kinds, Mints, Epochs
<1>6. ApprovalInv
  BY <1>1, <1>2, <1>3, <1>4, <1>5, EmptyFacts DEF ApprovalInv
<1>7. \A k \in Kinds, i \in Issues : ~Revoking(k, i) /\ fate[k][i] = "alive"
  BY <1>1 DEF Revoking, Idle
<1>8. \A i \in Issues : i # 0 /\ window[i].used = Never /\ window[i].saved = Never
  BY <1>1 DEF Issues
<1>9. StoreInv
  <2> USE DEF StoreInv
  <2>1. StoreTypes
    <3>1. fate \in Fates
      BY <1>1 DEF Fates
    <3>2. window \in Windows
      BY <1>1, <1>2 DEF Windows
    <3>3. origin \in Origins
      BY <1>1, <1>2 DEF Origins, Epochs
    <3> QED
      <4>1. /\ up \in BOOLEAN /\ epoch \in Epochs /\ client \in 0..MaxClients /\ unsaved \in BOOLEAN
        <5>1. 0 \in Epochs /\ 0 \in 0..MaxClients
          BY <1>2 DEF Epochs
        <5> QED
          BY <1>1, <5>1, Zenon
      <4>2. token \in Stores /\ known \subseteq 0..minted.issue
        BY <1>1, EmptyFacts
      <4> QED
        BY <1>5, <3>1, <3>2, <3>3, <4>1, <4>2 DEF StoreTypes
  <2>2. RoomInv
    BY <1>1, <1>2, <1>4, EmptyFacts DEF RoomInv
  <2>3. RunInv
    BY <1>1 DEF RunInv
  <2>4. MintInv
    BY <1>1, <1>3, <1>4, <1>7, <1>8 DEF MintInv
  <2>5. DeadInv
    BY <1>1, <1>3, <1>4, <1>7 DEF DeadInv
  <2>6. EpochInv
    BY <1>1, <1>3, <1>4 DEF EpochInv
  <2> QED
    BY <2>1, <2>2, <2>3, <2>4, <2>5, <2>6
<1>10. GraceInv
  <2>1. \A i \in Issues : token["refresh"][i] = 0 /\ disk.token["refresh"][i] = 0
    BY <1>1, <1>3, <1>4 DEF Kinds
  <2> QED
    BY <1>4, <1>8, <2>1 DEF GraceInv, FirstUse, SavedEnds, BeingUsed, NotBefore
<1>11. StayInv
  BY <1>1, <1>4, <1>8 DEF StayInv
<1>12. ClientInv /\ RestartInv
  BY <1>1, <1>4 DEF ClientInv, RestartInv, Ready
<1> QED
  BY <1>6, <1>9, <1>10, <1>11, <1>12

(* Every step keeps the invariants; those about what a restart finds again *)
(* need the file to be readable.                                           *)
LEMMA NextKeeps ==
    ASSUME ApprovalInv, StoreInv, [Next]_vars
    PROVE  /\ ApprovalInv' /\ StoreInv'
           /\ GraceInv => GraceInv'
           /\ RestartInv => RestartInv'
           /\ GraceInv /\ StayInv /\ "read" \notin Faults => StayInv'
           /\ ClientInv /\ "read" \notin Faults
              => ClientInv' /\ (disk.client # 0 => disk'.client = disk.client)
<1>1. ApprovalInv'
  BY NextKeepsApproval
<1>2. CASE UNCHANGED vars \/ Tick \/ RotateBearer \/ Approval
  <2>1. Quiet
    BY <1>2, QuietSteps
  <2> QED
    BY <1>1, <2>1, QuietKeepsStore, QuietKeepsRest
<1>3. CASE Tokens
  <2>1. PICK new : TokensChange(new)
    BY <1>3, TokensAreChanges
  <2>2. StoreInv' /\ (GraceInv => GraceInv')
    BY <2>1, ChangeKeepsStore, ChangeKeepsGrace
  <2>3. GraceInv /\ StayInv => StayInv'
    BY <2>1, ChangeKeepsStay
  <2>4. ClientInv => ClientInv' /\ disk' = disk
    BY <2>1, ChangeKeepsClient
  <2>5. RestartInv => RestartInv'
    BY <1>3, TokensKeepRestart
  <2> QED
    BY <1>1, <2>2, <2>3, <2>4, <2>5
<1>4. CASE WriteTmp
  BY <1>1, <1>4, WriteTmpKeeps
<1>5. CASE Rename
  BY <1>1, <1>5, RenameKeeps
<1>6. CASE SaveFails
  BY <1>1, <1>6, SaveFailsKeeps
<1>7. CASE Crash
  BY <1>1, <1>7, CrashKeeps
<1>8. CASE Start
  BY <1>1, <1>8, StartKeeps
<1> QED
  BY <1>2, <1>3, <1>4, <1>5, <1>6, <1>7, <1>8 DEF Next

(* The maps respect their caps whenever they are looked at, a token whose  *)
(* revocation was answered and saved is honoured no more, neither is one   *)
(* of an earlier bridge token, and a code that was presented, wiped or     *)
(* lost is not redeemed (saveStore, loadStore, tokenPost, revokePost).     *)
THEOREM RevocationSticks == Spec => []RevokedStaysRevoked
<1>1. ApprovalInv /\ StoreInv => RevokedStaysRevoked
  <2>1. SUFFICES ASSUME ApprovalInv, StoreInv PROVE RevokedStaysRevoked
    OBVIOUS
  <2>2. TypeOK
    <3>1. token \in [Kinds -> [Issues -> Times]] /\ disk.token \in [Kinds -> [Issues -> Times]]
      BY <2>1 DEF StoreInv, StoreTypes, Files, Stores, Map, Issues
    <3>2. codes \in [Codes -> Times] /\ authReqs \in [Asks -> Times]
      BY <2>1 DEF ApprovalInv, Map, Codes, Asks
    <3>3. /\ saving.at \in {"none", "write", "rename"}
          /\ disk.client \in 0..MaxClients /\ disk.epoch \in 0..MaxBearers /\ disk.torn \in BOOLEAN
      BY <2>1 DEF StoreInv, StoreTypes, Files, Savings, Epochs
    <3>4. /\ minted.issue \in 0..MaxIssues /\ minted.ask \in 0..MaxLinks
          /\ minted.code \in 0..MaxCodes /\ minted.client \in 0..MaxClients
      BY <2>1 DEF ApprovalInv, Mints
    <3>5. /\ now \in 0..MaxTime /\ bearer \in 1..MaxBearers /\ delayed \subseteq Asks \X Times
          /\ upsets \in 0..MaxUpsets
          /\ Cardinality(Present(codes)) <= MaxPending
          /\ Cardinality(Present(authReqs)) <= MaxPending
      BY <2>1 DEF ApprovalInv
    <3>6. /\ up \in BOOLEAN /\ epoch \in 0..MaxBearers /\ client \in 0..MaxClients
          /\ fate \in [Kinds -> [Issues -> {"alive", "evicted", "answered", "revoked"}]]
          /\ \A k \in Kinds : Cardinality(Present(token[k])) <= MaxStored
      BY <2>1 DEF StoreInv, StoreTypes, RoomInv, Fates, Epochs
    <3> QED
      BY <3>1, <3>2, <3>3, <3>4, <3>5, <3>6 DEF TypeOK
  <2>3. ASSUME NEW k \in Kinds, NEW i \in Issues
        PROVE  /\ fate[k][i] = "revoked" => token[k][i] = 0 /\ disk.token[k][i] = 0
               /\ up /\ token[k][i] > now => origin[i].epoch = epoch
    <3>1. token[k][i] \in Nat /\ now \in Nat
      BY <2>1, <2>3, StoreFacts, OAuthAssumption DEF ApprovalInv, StoreInv, StoreTypes
    <3>2. token[k][i] > now => token[k][i] # 0
      BY <3>1
    <3> QED
      BY <2>1, <2>3, <3>2 DEF StoreInv, DeadInv, EpochInv
  <2>4. \A c \in spent : codes[c] = 0
    BY <2>1 DEF ApprovalInv
  <2> QED
    BY <2>2, <2>3, <2>4 DEF RevokedStaysRevoked
<1>2. Init => ApprovalInv /\ StoreInv
  BY InitEstablishes
<1>3. ApprovalInv /\ StoreInv /\ [Next]_vars => ApprovalInv' /\ StoreInv'
  BY NextKeeps
<1> QED
  BY <1>1, <1>2, <1>3, PTL DEF Spec

(* Between requests memory and file hold the same client and the same live *)
(* tokens, unless the last save failed: also where a start found the file  *)
(* unreadable (saveStore, loadStore, oauthAccessValid).                    *)
THEOREM RestartIsTransparent == Spec => []RestartKeepsSessions
<1>1. ApprovalInv /\ StoreInv /\ RestartInv => RestartKeepsSessions
  <2>1. SUFFICES ASSUME ApprovalInv, StoreInv, RestartInv, Ready, ~unsaved
                 PROVE  /\ disk.client = client /\ disk.epoch = epoch
                        /\ \A k \in Kinds : Live(token[k]) = Live(disk.token[k])
    BY DEF RestartKeepsSessions
  <2>2. disk.client = client /\ disk.epoch = epoch
    BY <2>1 DEF RestartInv
  <2>3. ASSUME NEW k \in Kinds PROVE Live(token[k]) = Live(disk.token[k])
    <3>1. /\ token[k] \in Map(MaxIssues) /\ disk.token[k] \in Map(MaxIssues)
          /\ now \in Nat /\ MaxIssues \in Nat
      BY <2>1, <2>3, OAuthAssumption DEF ApprovalInv, StoreInv, StoreTypes, Files, Stores
    <3>2. /\ Live(token[k]) \in Map(MaxIssues) /\ Live(disk.token[k]) \in Map(MaxIssues)
          /\ \A i \in 1..MaxIssues :
                /\ Live(token[k])[i] = IF token[k][i] <= now THEN 0 ELSE token[k][i]
                /\ Live(disk.token[k])[i] = IF disk.token[k][i] <= now THEN 0 ELSE disk.token[k][i]
      BY <3>1, LiveFacts
    <3>3. \A i \in 1..MaxIssues : SameLife(token[k][i], disk.token[k][i])
      BY <2>1, <2>3 DEF RestartInv, Issues
    <3>4. \A i \in 1..MaxIssues : Live(token[k])[i] = Live(disk.token[k])[i]
      BY <3>2, <3>3 DEF SameLife
    <3> QED
      BY <3>1, <3>2, <3>4, SameMaps, Zenon
  <2> QED
    BY <2>2, <2>3
<1>2. Init => ApprovalInv /\ StoreInv /\ RestartInv
  BY InitEstablishes
<1>3. ApprovalInv /\ StoreInv /\ RestartInv /\ [Next]_vars => ApprovalInv' /\ StoreInv' /\ RestartInv'
  BY NextKeeps
<1> QED
  BY <1>1, <1>2, <1>3, PTL DEF Spec

(* The end of a refresh token whose rotation was saved.                    *)
RotatedTokensEnd ==
    \A i \in Issues : window[i].saved # Never =>
       token["refresh"][i] <= window[i].saved /\ disk.token["refresh"][i] <= window[i].saved

(* A refresh token whose rotation was saved ends with the grace that began *)
(* then at the latest, in memory and on file, whatever fails (tokenPost,   *)
(* saveStore, loadStore).                                                  *)
THEOREM RotationEnds == Spec => []RotatedTokensEnd
<1>1. GraceInv => RotatedTokensEnd
  BY DEF GraceInv, SavedEnds, RotatedTokensEnd
<1>2. Init => ApprovalInv /\ StoreInv /\ GraceInv
  BY InitEstablishes
<1>3. ApprovalInv /\ StoreInv /\ GraceInv /\ [Next]_vars => ApprovalInv' /\ StoreInv' /\ GraceInv'
  BY NextKeeps
<1> QED
  BY <1>1, <1>2, <1>3, PTL DEF Spec

(* And where the file can be read at every start it stays usable for the   *)
(* grace of its first use (tokenPost, saveStore, loadStore).               *)
THEOREM RotationLasts == "read" \notin Faults => (Spec => []RotationWindow)
<1> SUFFICES ASSUME "read" \notin Faults PROVE Spec => []RotationWindow
  OBVIOUS
<1>1. ApprovalInv /\ StoreInv /\ GraceInv /\ StayInv => RotationWindow
  <2>1. SUFFICES ASSUME ApprovalInv, StoreInv, GraceInv, StayInv,
                        NEW i \in Issues, window[i].saved # Never
                 PROVE  /\ token["refresh"][i] <= window[i].saved
                        /\ Ready /\ origin[i].epoch = epoch /\ fate["refresh"][i] = "alive"
                              /\ now < window[i].used /\ now < origin[i].exp
                           => token["refresh"][i] > now
    BY DEF RotationWindow
  <2>2. token["refresh"][i] <= window[i].saved /\ NotBefore(token["refresh"][i], i)
    BY <2>1 DEF GraceInv, SavedEnds
  <2>3. ASSUME Ready, origin[i].epoch = epoch, fate["refresh"][i] = "alive",
               now < window[i].used, now < origin[i].exp
        PROVE  token["refresh"][i] > now
    <3>1. /\ now \in Nat /\ token["refresh"][i] \in Nat /\ window[i].used \in Nat
          /\ origin[i].exp \in Nat /\ "refresh" \in Kinds
      BY <2>1, StoreFacts, OAuthAssumption
         DEF ApprovalInv, StoreInv, StoreTypes, Windows, Origins, Kinds
    <3>2. up /\ ~Revoking("refresh", i)
      BY <2>1, <2>3, <3>1, IdleRevokesNothing DEF Ready
    <3>3. token["refresh"][i] # 0
      BY <2>1, <2>3, <3>2 DEF StayInv, Lasting
    <3> QED
      BY <2>2, <2>3, <3>1, <3>3 DEF NotBefore
  <2> QED
    BY <2>2, <2>3
<1>2. Init => ApprovalInv /\ StoreInv /\ GraceInv /\ StayInv
  BY InitEstablishes
<1>3. ApprovalInv /\ StoreInv /\ GraceInv /\ StayInv /\ [Next]_vars
         => ApprovalInv' /\ StoreInv' /\ GraceInv' /\ StayInv'
  BY NextKeeps
<1> QED
  BY <1>1, <1>2, <1>3, PTL DEF Spec

(* And the client id on file is never replaced (loadStore, saveStore).     *)
THEOREM ConnectorKeepsItsClient == "read" \notin Faults => (Spec => ClientKept)
<1> SUFFICES ASSUME "read" \notin Faults PROVE Spec => ClientKept
  OBVIOUS
<1>1. Init => ApprovalInv /\ StoreInv /\ ClientInv
  BY InitEstablishes
<1>2. ApprovalInv /\ StoreInv /\ ClientInv /\ [Next]_vars => ApprovalInv' /\ StoreInv' /\ ClientInv'
  BY NextKeeps
<1>3. ApprovalInv /\ StoreInv /\ ClientInv /\ [Next]_vars
         => [disk.client # 0 => disk'.client = disk.client]_vars
  BY NextKeeps
<1> QED
  BY <1>1, <1>2, <1>3, PTL DEF Spec, ClientKept

=============================================================================
