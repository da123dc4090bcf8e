------------------------------- MODULE OAuth -------------------------------
(***************************************************************************)
(* The OAuth authorization server of src/mcp-http.mjs.                     *)
(*                                                                         *)
(* Pending approvals and authorization codes live in memory only; access   *)
(* and refresh tokens live in memory and in a file, which is written to a  *)
(* temporary name and renamed.  A handler runs in one turn of the event    *)
(* loop, but the process may be killed at any point of it, and a write may *)
(* fail without the caller being told.  The next start reads the file and  *)
(* compares the digest of the bridge token in it with its own.             *)
(*                                                                         *)
(* A map of the code is a function to expiry times here; 0 stands for an   *)
(* absent key.  Issuance i mints access token i and refresh token i.       *)
(* Time is counted in ticks.                                               *)
(***************************************************************************)
EXTENDS Naturals, FiniteSets

CONSTANTS MaxStored,   \* MAX_STORED_TOKENS
          MaxPending,  \* MAX_PENDING_AUTHREQS and MAX_PENDING_CODES
          AccessTtl, RefreshTtl, Grace, CodeTtl, ReqTtl,
          Faults,      \* what may go wrong with the file: "save", "read"
          MaxTime,     \* bound: the clock
          MaxIssues,   \* bound: tokens minted of each kind
          MaxAsks,     \* bound: approval links asked for
          MaxAgain,    \* bound: links offered again after a wrong token
          MaxCodes,    \* bound: authorization codes
          MaxBearers,  \* bound: bridge tokens the operator generates
          MaxClients,  \* bound: client ids generated
          MaxUpsets    \* bound: deaths of the process and failed saves

ASSUME OAuthAssumption ==
    /\ {MaxStored, MaxPending, AccessTtl, RefreshTtl, Grace, CodeTtl, ReqTtl}
          \subseteq Nat \ {0}
    /\ {MaxTime, MaxIssues, MaxAsks, MaxAgain, MaxCodes, MaxUpsets} \subseteq Nat
    /\ {MaxBearers, MaxClients} \subseteq Nat \ {0}
    /\ Faults \subseteq {"save", "read"}

MaxLinks == MaxAsks + MaxAgain

Issues == 1..MaxIssues
Asks   == 1..MaxLinks
Codes  == 1..MaxCodes
Kinds  == {"access", "refresh"}
Times  == 0..(MaxTime + AccessTtl + RefreshTtl + Grace + CodeTtl + ReqTtl)

VARIABLES
    now,       \* Date.now()
    bearer,    \* the bridge token in the operator's file
    up,        \* whether the server runs
    epoch,     \* BEARER_EPOCH: the bridge token it started with
    client,    \* store.client.id
    token,     \* per kind, store.access and store.refresh
    codes,     \* the map of authorization codes
    authReqs,  \* the map of approval links
    delayed,   \* expiry of the requests that wait out APPROVE_FAIL_DELAY_MS
    saving,    \* a handler inside saveStore, and the answer it owes
    disk,      \* OAUTH_STATE_FILE
    minted,    \* issuances, links, codes and client ids made so far
    upsets,    \* deaths of the process and failed saves so far
    fate,      \* history, per token: alive, or dropped at the cap (refresh tokens
               \* only), or how its revocation ended
    window,    \* history, per issuance: end of the grace that began with the first
               \* rotation of its refresh token, and with the first that was saved
    origin,    \* history, per issuance: the epoch that approved it, its expiry
    known,     \* history: issuances whose answer was sent
    spent,     \* history: codes presented, wiped or lost
    unsaved    \* history: the last save failed

pending == <<codes, authReqs, delayed>>
memory  == <<epoch, client, token, pending>>
server  == <<now, bearer, up, epoch, client>>
history == <<fate, window, origin, known, spent, unsaved>>
budget  == <<minted, upsets>>
vars    == <<now, bearer, up, memory, saving, disk, budget, history>>

Idle       == [kind |-> "none", id |-> 0, of |-> "access", used |-> 0, at |-> "none"]
Owed(kind, id, of, used) ==
    [kind |-> kind, id |-> id, of |-> of, used |-> used, at |-> "write"]
Never      == MaxTime + Grace + 1
NoTokens   == [k \in Kinds |-> [i \in Issues |-> 0]]
NoCodes    == [c \in Codes |-> 0]
NoRequests == [r \in Asks |-> 0]
NoFile     == [client |-> 0, epoch |-> 0, token |-> NoTokens, torn |-> FALSE]

Init ==
    /\ now = 0 /\ bearer = 1 /\ up = FALSE
    /\ epoch = 0 /\ client = 0 /\ token = NoTokens
    /\ codes = NoCodes /\ authReqs = NoRequests /\ delayed = {}
    /\ saving = Idle /\ disk = NoFile
    /\ minted = [issue |-> 0, ask |-> 0, code |-> 0, client |-> 0]
    /\ upsets = 0
    /\ fate = [k \in Kinds |-> [i \in Issues |-> "alive"]]
    /\ window = [i \in Issues |-> [used |-> Never, saved |-> Never]]
    /\ origin = [i \in Issues |-> [epoch |-> 0, exp |-> 0]]
    /\ known = {} /\ spent = {} /\ unsaved = FALSE

-----------------------------------------------------------------------------
(***************************************************************************)
(* Maps with expiry times.                                                 *)
(***************************************************************************)
Present(map) == {x \in DOMAIN map : map[x] # 0}
Without(map, gone) == [x \in DOMAIN map |-> IF x \in gone THEN 0 ELSE map[x]]
Live(map) == Without(map, {x \in DOMAIN map : map[x] <= now})

(* Sorted by expiry, the order of insertion breaking ties.                 *)
SoonestToExpire(map, n) ==
    LET Earlier(x) == {y \in Present(map) : \/ map[y] < map[x]
                                            \/ map[y] = map[x] /\ y < x}
    IN {x \in Present(map) : Cardinality(Earlier(x)) < n}

Capped(map, cap) ==
    IF Cardinality(Present(map)) > cap
    THEN Without(map, SoonestToExpire(map, Cardinality(Present(map)) - cap))
    ELSE map

serialise(map) == Capped(Live(map), MaxStored)

(* Makes room for the insertion that follows.                              *)
sweep(map, cap) == Capped(Live(map), cap - 1)

rehydrate(map) == Live(map)

-----------------------------------------------------------------------------
(***************************************************************************)
(* saveStore: memory is pruned, the text is written beside the file, the   *)
(* file is replaced.  A failure of either is logged and forgotten: the     *)
(* handler answers as it would have.  Handlers do not await here, so       *)
(* nothing but the death of the process comes between the parts.           *)
(***************************************************************************)
saveStore(tokens, owed) ==
    /\ token' = [k \in Kinds |-> serialise(tokens[k])]
    /\ saving' = owed
    /\ fate' = [k \in Kinds |-> [i \in Issues |->
                  IF /\ k = "refresh" /\ fate[k][i] = "alive"
                     /\ token'[k][i] = 0 /\ Live(tokens[k])[i] # 0
                  THEN "evicted" ELSE fate[k][i]]]

WriteInPlace ==                                                    \* mutant
    /\ saving.at = "write"
    /\ saving' = [saving EXCEPT !.at = "rename"]
    /\ disk' = [NoFile EXCEPT !.torn = TRUE]
    /\ UNCHANGED <<now, bearer, up, memory, budget, history>>

WriteTmp ==
    /\ saving.at = "write"
    /\ saving' = [saving EXCEPT !.at = "rename"]
    /\ UNCHANGED <<now, bearer, up, memory, disk, budget, history>>

(* The tokens the answer that is owed tells the client are revoked.        *)
Revoking(k, i) == \/ saving.kind = "revoke" /\ saving.of = k /\ saving.id = i
                  \/ saving.kind = "revokeAll" /\ i \in 1..minted.issue

Answer ==
    /\ known' = IF saving.kind = "issue" THEN known \union {saving.id} ELSE known
    /\ saving' = Idle

Rename ==
    /\ saving.at = "rename"
    /\ disk' = [client |-> client, epoch |-> epoch, token |-> token, torn |-> FALSE]
    /\ fate' = [k \in Kinds |-> [i \in Issues |->
                  IF Revoking(k, i) \/ (fate[k][i] = "answered" /\ token[k][i] = 0)
                  THEN "revoked" ELSE fate[k][i]]]
    /\ window' = [i \in Issues |->
                    IF i = saving.used /\ window[i].saved = Never
                    THEN [window[i] EXCEPT !.saved = now + Grace] ELSE window[i]]
    /\ unsaved' = FALSE
    /\ Answer
    /\ UNCHANGED <<now, bearer, up, memory, budget, origin, spent>>

SaveFails ==
    /\ "save" \in Faults
    /\ saving.at # "none"
    /\ upsets < MaxUpsets /\ upsets' = upsets + 1
    /\ fate' = [k \in Kinds |-> [i \in Issues |->
                  IF Revoking(k, i) /\ fate[k][i] # "revoked"
                  THEN "answered" ELSE fate[k][i]]]
    /\ unsaved' = TRUE
    /\ Answer
    /\ UNCHANGED <<now, bearer, up, memory, disk, minted, window, origin, spent>>

-----------------------------------------------------------------------------
(***************************************************************************)
(* The process starts and stops.                                           *)
(***************************************************************************)
emptyStore == [client |-> 0, token |-> NoTokens, rewrite |-> FALSE]

LoadAnyEpoch(readable) ==                                          \* mutant
    IF disk = NoFile \/ ~readable \/ disk.torn THEN emptyStore
    ELSE [client |-> disk.client, rewrite |-> disk.epoch # bearer,
          token |-> [k \in Kinds |-> rehydrate(disk.token[k])]]

(* A bridge token other than the one in the file revokes every token but   *)
(* keeps the client id.                                                    *)
loadStore(readable) ==
    IF disk = NoFile \/ ~readable \/ disk.torn THEN emptyStore
    ELSE IF disk.epoch # bearer
    THEN [emptyStore EXCEPT !.client = disk.client, !.rewrite = TRUE]
    ELSE [client |-> disk.client, rewrite |-> FALSE,
          token |-> [k \in Kinds |-> rehydrate(disk.token[k])]]

(* The server listens after the rewrite, so no handler runs before it.     *)
Start ==
    /\ ~up
    /\ \E readable \in IF "read" \in Faults THEN BOOLEAN ELSE {TRUE} :
         LET loaded == loadStore(readable)
             fresh  == loaded.client = 0
         IN /\ fresh => minted.client < MaxClients
            /\ minted' = [minted EXCEPT !.client = IF fresh THEN @ + 1 ELSE @]
            /\ client' = IF fresh THEN minted.client + 1 ELSE loaded.client
            /\ unsaved' = FALSE
            /\ IF fresh \/ loaded.rewrite
               THEN saveStore(loaded.token, Owed("start", 0, "access", 0))
               ELSE token' = loaded.token /\ UNCHANGED <<saving, fate>>
    /\ up' = TRUE
    /\ epoch' = bearer
    /\ UNCHANGED <<now, bearer, pending, disk, upsets,
                   window, origin, known, spent>>

(* At any point, a save included.                                          *)
Crash ==
    /\ up
    /\ upsets < MaxUpsets /\ upsets' = upsets + 1
    /\ up' = FALSE
    /\ epoch' = 0 /\ client' = 0 /\ token' = NoTokens
    /\ codes' = NoCodes /\ authReqs' = NoRequests /\ delayed' = {}
    /\ saving' = Idle
    /\ spent' = 1..minted.code
    /\ UNCHANGED <<now, bearer, disk, minted, fate, window, origin, known, unsaved>>

(* The menu bar's Rotate Token; the running server keeps the old digest.   *)
RotateBearer ==
    /\ bearer < MaxBearers
    /\ bearer' = bearer + 1
    /\ UNCHANGED <<now, up, memory, saving, disk, budget, history>>

(* A handler takes no time on the scale of the expiry times.               *)
Tick ==
    /\ now < MaxTime
    /\ saving = Idle
    /\ now' = now + 1
    /\ UNCHANGED <<bearer, up, memory, saving, disk, budget, history>>

-----------------------------------------------------------------------------
(***************************************************************************)
(* Approval.                                                               *)
(***************************************************************************)
Ready == up /\ saving = Idle

(* Bound: links that cannot lead to another code are left alone.           *)
CodesLeft == Ready /\ minted.code < MaxCodes

authorizeGet ==
    /\ CodesLeft
    /\ minted.ask < MaxAsks
    /\ minted' = [minted EXCEPT !.ask = @ + 1]
    /\ authReqs' = [sweep(authReqs, MaxPending) EXCEPT ![minted'.ask] = now + ReqTtl]
    /\ UNCHANGED <<server, token, codes, delayed,
                   saving, disk, upsets, history>>

(* An approval link is used up whatever happens next.                      *)
ApproveExpired(r) ==
    /\ CodesLeft
    /\ authReqs[r] \in 1..now
    /\ authReqs' = [authReqs EXCEPT ![r] = 0]
    /\ UNCHANGED <<server, token, codes, delayed,
                   saving, disk, budget, history>>

(* A wrong bridge token: the answer waits, and then offers a fresh link to *)
(* the same request.                                                       *)
ApproveWrong(r) ==
    /\ CodesLeft
    /\ authReqs[r] > now
    /\ delayed' = delayed \union {<<r, authReqs[r]>>}
    /\ authReqs' = [authReqs EXCEPT ![r] = 0]
    /\ UNCHANGED <<server, token, codes,
                   saving, disk, budget, history>>

OfferAgain(d) ==
    /\ CodesLeft
    /\ minted.ask < MaxLinks
    /\ delayed' = delayed \ {d}
    /\ minted' = [minted EXCEPT !.ask = @ + 1]
    /\ authReqs' = [sweep(authReqs, MaxPending) EXCEPT ![minted'.ask] = d[2]]
    /\ UNCHANGED <<server, token, codes,
                   saving, disk, upsets, history>>

ApproveRight(r) ==
    /\ CodesLeft
    /\ authReqs[r] > now
    /\ authReqs' = [authReqs EXCEPT ![r] = 0]
    /\ minted' = [minted EXCEPT !.code = @ + 1]
    /\ codes' = [sweep(codes, MaxPending) EXCEPT ![minted'.code] = now + CodeTtl]
    /\ UNCHANGED <<server, token, delayed,
                   saving, disk, upsets, history>>

-----------------------------------------------------------------------------
(***************************************************************************)
(* Tokens.                                                                 *)
(***************************************************************************)
issueTokens(tokens, used) ==
    LET i == minted.issue + 1
    IN /\ i \in Issues
       /\ minted' = [minted EXCEPT !.issue = i]
       /\ origin' = [origin EXCEPT ![i] = [epoch |-> epoch, exp |-> now + RefreshTtl]]
       /\ saveStore([tokens EXCEPT !["access"][i] = now + AccessTtl,
                                   !["refresh"][i] = now + RefreshTtl],
                    Owed("issue", i, "access", used))

(* The code is removed before anything about it is verified; `matches` is  *)
(* the verdict on client, redirect, verifier and resource.                 *)
Redeem(c, matches) ==
    /\ Ready
    /\ codes[c] # 0
    /\ codes' = [codes EXCEPT ![c] = 0]
    /\ spent' = spent \union {c}
    /\ IF matches /\ codes[c] > now
       THEN issueTokens(token, 0)
       ELSE UNCHANGED <<token, saving, minted, fate, origin>>
    /\ UNCHANGED <<server, authReqs, delayed, disk,
                   upsets, window, known, unsaved>>

RefreshExpired(i) ==
    /\ Ready
    /\ i \in known
    /\ token["refresh"][i] \in 1..now
    /\ saveStore([token EXCEPT !["refresh"][i] = 0], Owed("refused", 0, "access", 0))
    /\ UNCHANGED <<server, pending, disk,
                   budget, window, origin, known, spent, unsaved>>

Used(i) == window' = [window EXCEPT ![i].used = IF @ = Never THEN now + Grace ELSE @]

RenewGrace(i) ==                                                   \* mutant
    /\ Ready
    /\ i \in known
    /\ token["refresh"][i] > now
    /\ issueTokens([token EXCEPT !["refresh"][i] = now + Grace], i)
    /\ Used(i)
    /\ UNCHANGED <<server, pending, disk,
                   upsets, known, spent, unsaved>>

(* The old refresh token is shortened to the grace, so that a client whose *)
(* answer was lost may ask again.                                          *)
Refresh(i) ==
    /\ Ready
    /\ i \in known
    /\ token["refresh"][i] > now
    /\ LET grace == now + Grace
       IN issueTokens([token EXCEPT !["refresh"][i] =
                         IF @ > grace THEN grace ELSE @], i)
    /\ Used(i)
    /\ UNCHANGED <<server, pending, disk,
                   upsets, known, spent, unsaved>>

RevokeInMemory(k, i) ==                                            \* mutant
    /\ Ready
    /\ i \in known
    /\ token' = [token EXCEPT ![k][i] = 0]
    /\ UNCHANGED <<server, pending, saving, disk, budget, history>>

revokePost(k, i) ==
    /\ Ready
    /\ i \in known
    /\ saveStore([token EXCEPT ![k][i] = 0], Owed("revoke", i, k, 0))
    /\ UNCHANGED <<server, pending, disk,
                   budget, window, origin, known, spent, unsaved>>

RevokeAll ==
    /\ Ready
    /\ codes' = NoCodes /\ authReqs' = NoRequests
    /\ spent' = 1..minted.code
    /\ saveStore(NoTokens, Owed("revokeAll", 0, "access", 0))
    /\ UNCHANGED <<server, delayed, disk,
                   budget, window, origin, known, unsaved>>

(* A call with an expired access token drops it, from memory only.         *)
oauthAccessValid(i) ==
    /\ Ready
    /\ i \in known
    /\ token["access"][i] \in 1..now
    /\ token' = [token EXCEPT !["access"][i] = 0]
    /\ UNCHANGED <<server, pending,
                   saving, disk, budget, history>>

Approval ==
    \/ authorizeGet
    \/ \E r \in Asks : ApproveExpired(r) \/ ApproveWrong(r) \/ ApproveRight(r)
    \/ \E d \in delayed : OfferAgain(d)

Tokens ==
    \/ \E c \in Codes, matches \in BOOLEAN : Redeem(c, matches)
    \/ \E i \in Issues : RefreshExpired(i) \/ Refresh(i) \/ oauthAccessValid(i)
    \/ \E k \in Kinds, i \in Issues : revokePost(k, i)
    \/ RevokeAll

Next == \/ Tick \/ RotateBearer \/ Start \/ Crash
        \/ WriteTmp \/ Rename \/ SaveFails
        \/ Approval \/ Tokens

Spec == Init /\ [][Next]_vars

-----------------------------------------------------------------------------
(***************************************************************************)
(* Properties.                                                             *)
(***************************************************************************)
(* Every variable has its type, and no map outgrows its cap while a        *)
(* request can be served.                                                  *)
TypeOK ==
    /\ now \in 0..MaxTime /\ bearer \in 1..MaxBearers /\ up \in BOOLEAN
    /\ epoch \in 0..MaxBearers /\ client \in 0..MaxClients
    /\ token \in [Kinds -> [Issues -> Times]]
    /\ codes \in [Codes -> Times] /\ authReqs \in [Asks -> Times]
    /\ delayed \subseteq Asks \X Times
    /\ saving.at \in {"none", "write", "rename"}
    /\ disk.client \in 0..MaxClients /\ disk.epoch \in 0..MaxBearers
    /\ disk.token \in [Kinds -> [Issues -> Times]] /\ disk.torn \in BOOLEAN
    /\ minted.issue \in 0..MaxIssues /\ minted.ask \in 0..MaxLinks
    /\ minted.code \in 0..MaxCodes /\ minted.client \in 0..MaxClients
    /\ upsets \in 0..MaxUpsets
    /\ fate \in [Kinds -> [Issues -> {"alive", "evicted", "answered", "revoked"}]]
    /\ \A k \in Kinds : Cardinality(Present(token[k])) <= MaxStored
    /\ Cardinality(Present(codes)) <= MaxPending
    /\ Cardinality(Present(authReqs)) <= MaxPending

(* A token whose revocation was answered and saved is never honoured       *)
(* again, whatever is saved, lost or restarted later; and a server that    *)
(* started with another bridge token honours none the old one approved,    *)
(* also when it died or could not write in that start; and a code that was *)
(* presented once, with whatever outcome, or was issued before /revoke-all *)
(* or a restart, cannot be redeemed (revokePost, /revoke-all, saveStore,   *)
(* loadStore, tokenPost).                                                  *)
RevokedStaysRevoked ==
    /\ TypeOK
    /\ \A c \in spent : codes[c] = 0
    /\ \A k \in Kinds, i \in Issues :
          /\ fate[k][i] = "revoked" => token[k][i] = 0 /\ disk.token[k][i] = 0
          /\ up /\ token[k][i] > now => origin[i].epoch = epoch

(* Unless a save failed, memory and file hold the same live tokens between *)
(* requests: a restart neither loses a token nor brings one back.          *)
RestartKeepsSessions ==
    Ready /\ ~unsaved =>
        /\ disk.client = client /\ disk.epoch = epoch
        /\ \A k \in Kinds : Live(token[k]) = Live(disk.token[k])

(* Once a rotation is saved the old refresh token ends with the grace that *)
(* began then at the latest: later uses and restarts do not extend it.     *)
(* And it stays usable for the grace that began with its first use, saved  *)
(* or not, unless it expires, is revoked, is dropped at the cap, or the    *)
(* bridge token changes.                                                   *)
RotationWindow ==
    \A i \in Issues : window[i].saved # Never =>
        /\ token["refresh"][i] <= window[i].saved
        /\ Ready /\ origin[i].epoch = epoch /\ fate["refresh"][i] = "alive"
              /\ now < window[i].used /\ now < origin[i].exp
           => token["refresh"][i] > now

(* The client id that is on file is the one the connector was built with:  *)
(* it is never replaced.                                                   *)
ClientKept == [][disk.client # 0 => disk'.client = disk.client]_vars

=============================================================================
