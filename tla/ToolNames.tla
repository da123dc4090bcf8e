----------------------------- MODULE ToolNames -----------------------------
(***************************************************************************)
(* The tool names of the federation: createFederation and registerTools of *)
(* src/lib/federation.mjs.                                                 *)
(*                                                                         *)
(* Providers start together and register their tools one at a time, in     *)
(* the order of the registry while all goes well: each first start awaits  *)
(* the turn of the one before.  A provider that fails gives up its turn    *)
(* and may register much later; a provider may also change its tools while *)
(* it runs.  The names are claimed in one table: an earlier provider takes *)
(* a name from a later one, a later one is refused.  The client lists the  *)
(* tools once the startup is over, and again when it is told they changed. *)
(*                                                                         *)
(* How a provider starts, fails and comes back is the subject of Provider  *)
(* and of HttpProvider; here an attempt just succeeds or fails.            *)
(***************************************************************************)
EXTENDS Naturals, FiniteSets

CONSTANTS Count,      \* number of providers, which are numbered in registry order
          Http,       \* those reached over HTTP; the others are child processes
          Names,      \* prefixed tool names
          Reserved,   \* those of the bridge's own tools
          MaxFaults   \* bound: attempts that fail, children lost, tools changed

Providers == 1..Count

ASSUME ToolNamesAssumption ==
    /\ Count \in Nat \ {0} /\ MaxFaults \in Nat
    /\ Http \subseteq Providers /\ Reserved \subseteq Names

NoOne  == 0
Bridge == Count + 1

VARIABLES
    phase,       \* where the provider is in its life
    turnOver,    \* providers whose registration turn is released
    registered,  \* firstRegistrationDone
    offers,      \* the tools the provider's server has
    fetched,     \* those it gave the start attempt under way
    refresh,     \* toolsRefreshPromise: what a refresh awaits
    refreshed,   \* the tools the refresh was given
    claimed,     \* per name, its owner
    tools,       \* toolsByPrefixed, advertised
    listed,      \* the list the client has, once it has one
    told,        \* list_changed was sent since
    faults       \* faults so far

attempts == <<phase, turnOver, registered, fetched>>
surface  == <<claimed, tools>>
client   == <<listed, told>>
vars == <<attempts, offers, refresh, refreshed, surface, client, faults>>

Unlisted == [known |-> FALSE, names |-> {}]

Init ==
    /\ phase = [p \in Providers |-> "first"]
    /\ turnOver = {} /\ registered = {}
    /\ offers \in [Providers -> SUBSET Names]
    /\ fetched = [p \in Providers |-> {}]
    /\ refresh = [p \in Providers |-> "none"]
    /\ refreshed = [p \in Providers |-> {}]
    /\ claimed = [n \in Names |-> IF n \in Reserved THEN Bridge ELSE NoOne]
    /\ tools = [p \in Providers |-> {}]
    /\ listed = Unlisted /\ told = FALSE /\ faults = 0

Fault == faults < MaxFaults /\ faults' = faults + 1

-----------------------------------------------------------------------------
(***************************************************************************)
(* The table of names.                                                     *)
(***************************************************************************)
LastWins(p, n) == claimed[n] = Bridge \/ claimed[n] \in (p + 1)..Count  \* mutant

Collides(p, n) == claimed[n] = Bridge \/ claimed[n] \in 1..(p - 1)

claimToolNames(p, names) == ~\E n \in names : Collides(p, n)

KeepInOldOwner(p, names) ==                                        \* mutant
    /\ claimToolNames(p, names)
    /\ claimed' = [n \in Names |-> IF n \in names THEN p
                                  ELSE IF claimed[n] = p THEN NoOne ELSE claimed[n]]
    /\ tools' = [tools EXCEPT ![p] = names]
    /\ told' = (told \/ p \notin registered \/ tools[p] # names)

TellOfNewOnly(p, names) ==                                         \* mutant
    /\ claimToolNames(p, names)
    /\ claimed' = [n \in Names |-> IF n \in names THEN p
                                  ELSE IF claimed[n] = p THEN NoOne ELSE claimed[n]]
    /\ tools' = [q \in Providers |-> IF q = p THEN names ELSE tools[q] \ names]
    /\ told' = (told \/ p \notin registered \/ ~(names \subseteq tools[p]))

(* Names are claimed, from later providers too, before those the provider  *)
(* no longer has are released; the client is told of any difference.       *)
registerTools(p, names) ==
    /\ claimToolNames(p, names)
    /\ claimed' = [n \in Names |-> IF n \in names THEN p
                                  ELSE IF claimed[n] = p THEN NoOne ELSE claimed[n]]
    /\ tools' = [q \in Providers |-> IF q = p THEN names ELSE tools[q] \ names]
    /\ told' = (told \/ p \notin registered \/ tools[p] # names)

-----------------------------------------------------------------------------
(***************************************************************************)
(* Starting and restarting.                                                *)
(***************************************************************************)
(* tools/list was answered.  A first start then awaits its turn; any other *)
(* has at most the resources left to fetch.                                *)
Fetch(p) ==
    /\ phase[p] \in {"first", "again"}
    /\ phase' = [phase EXCEPT ![p] = IF @ = "first" THEN "gated" ELSE "fetched"]
    /\ fetched' = [fetched EXCEPT ![p] = offers[p]]
    /\ UNCHANGED <<turnOver, registered, offers, refresh, refreshed, surface,
                   client, faults>>

GateOpen(p) == p = 1 \/ p - 1 \in turnOver
InTurn(p)   == phase[p] = "fetched" \/ (phase[p] = "gated" /\ GateOpen(p))

ReleaseRegistered(p) == turnOver' = IF phase[p] = "gated"           \* mutant
                                    THEN turnOver \union {p} ELSE turnOver

(* The end of startOne, for a first start, releases the next turn.         *)
endTurn(p) == turnOver' = IF phase[p] \in {"first", "gated"}
                          THEN turnOver \union {p} ELSE turnOver

Register(p) ==
    /\ InTurn(p)
    /\ registerTools(p, fetched[p])
    /\ registered' = registered \union {p}
    /\ phase' = [phase EXCEPT ![p] = "ready"]
    /\ endTurn(p)
    /\ UNCHANGED <<fetched, offers, refresh, refreshed, listed, faults>>

(* A collision is terminal: startOne stops the provider, and so does a     *)
(* reconnect over HTTP; a restarted child is killed and started again,     *)
(* until its attempts are used up.                                         *)
Refused(p) ==
    /\ InTurn(p)
    /\ ~claimToolNames(p, fetched[p])
    /\ \/ phase' = [phase EXCEPT ![p] = "failed"]
       \/ /\ phase[p] = "fetched" /\ p \notin Http
          /\ phase' = [phase EXCEPT ![p] = "waiting"]
    /\ endTurn(p)
    /\ UNCHANGED <<registered, fetched, offers, refresh, refreshed, surface,
                   client, faults>>

(* Any other failure of an attempt: a server out of reach and a child that *)
(* died are tried again, the rest is terminal.                             *)
StartFails(p) ==
    /\ Fault
    /\ phase[p] \in {"first", "again"}
    /\ phase' \in {[phase EXCEPT ![p] = next] : next \in {"waiting", "failed"}}
    /\ endTurn(p)
    /\ UNCHANGED <<registered, fetched, offers, refresh, refreshed, surface, client>>

Retry(p) ==
    /\ phase[p] = "waiting"
    /\ phase' = [phase EXCEPT ![p] = "again"]
    /\ UNCHANGED <<turnOver, registered, fetched, offers, refresh, refreshed,
                   surface, client, faults>>

(* A child's exit fails the refresh under way; over HTTP it goes on.       *)
Lose(p) ==
    /\ Fault
    /\ phase[p] = "ready"
    /\ phase' = [phase EXCEPT ![p] = "waiting"]
    /\ refresh' = IF p \in Http THEN refresh ELSE [refresh EXCEPT ![p] = "none"]
    /\ UNCHANGED <<turnOver, registered, fetched, offers, refreshed, surface, client>>

-----------------------------------------------------------------------------
(***************************************************************************)
(* Tools that change while the provider runs.                              *)
(***************************************************************************)
ServerChanges(p) ==
    /\ Fault
    /\ \E names \in SUBSET Names \ {offers[p]} :
          offers' = [offers EXCEPT ![p] = names]
    /\ UNCHANGED <<attempts, refresh, refreshed, surface, client>>

(* list_changed arrives; it is dropped unless the provider is ready and    *)
(* has no refresh under way.                                               *)
ListChanged(p) ==
    /\ phase[p] = "ready" /\ refresh[p] = "none"
    /\ refresh' = [refresh EXCEPT ![p] = "asked"]
    /\ UNCHANGED <<attempts, offers, refreshed, surface, client, faults>>

RefreshRead(p) ==
    /\ refresh[p] = "asked"
    /\ refresh' = [refresh EXCEPT ![p] = "read"]
    /\ refreshed' = [refreshed EXCEPT ![p] = offers[p]]
    /\ UNCHANGED <<attempts, offers, surface, client, faults>>

(* A refresh that is refused, or not answered, leaves everything as it is. *)
RefreshDone(p) ==
    /\ \/ refresh[p] = "read" /\ registerTools(p, refreshed[p])
       \/ /\ refresh[p] = "asked" \/ ~claimToolNames(p, refreshed[p])
          /\ refresh[p] # "none"
          /\ UNCHANGED <<surface, told>>
    /\ refresh' = [refresh EXCEPT ![p] = "none"]
    /\ UNCHANGED <<attempts, offers, refreshed, listed, faults>>

-----------------------------------------------------------------------------
Started    == turnOver = Providers
Advertised == UNION {tools[p] : p \in Providers}

(* tools/list awaits federationReady.                                      *)
ListTools ==
    /\ Started
    /\ listed' = [known |-> TRUE, names |-> Advertised]
    /\ told' = FALSE
    /\ UNCHANGED <<attempts, offers, refresh, refreshed, surface, faults>>

Settle(p) == Fetch(p) \/ Register(p) \/ Refused(p)

Next ==
    \/ ListTools
    \/ \E p \in Providers :
          \/ Settle(p) \/ StartFails(p) \/ Retry(p) \/ Lose(p)
          \/ ServerChanges(p) \/ ListChanged(p) \/ RefreshRead(p) \/ RefreshDone(p)

Spec == Init /\ [][Next]_vars

(* Every attempt to start ends by its deadline; a client that is told the  *)
(* tools changed lists them.                                               *)
Fairness == /\ \A p \in Providers : WF_vars(Settle(p)) /\ WF_vars(Retry(p))
            /\ WF_vars(told /\ ListTools)

FairSpec == Spec /\ Fairness

-----------------------------------------------------------------------------
(* Every variable has its type.                                            *)
TypeOK ==
    /\ phase \in [Providers -> {"first", "gated", "again", "fetched", "ready",
                                "waiting", "failed"}]
    /\ turnOver \subseteq Providers /\ registered \subseteq Providers
    /\ {offers, fetched, refreshed, tools} \subseteq [Providers -> SUBSET Names]
    /\ refresh \in [Providers -> {"none", "asked", "read"}]
    /\ claimed \in [Names -> {NoOne, Bridge} \union Providers]
    /\ listed \in [known : BOOLEAN, names : SUBSET Names]
    /\ told \in BOOLEAN /\ faults \in 0..MaxFaults

(* The table and the providers' own maps agree: a tool in the list routes  *)
(* to the one provider that owns its name, and a name nobody has any more  *)
(* is free, whatever was taken, released or refused on the way             *)
(* (registerTools, claimToolNames, removeToolClaim, releaseToolName).      *)
NamesRouteToOwner ==
    /\ TypeOK
    /\ \A p \in Providers, n \in Names : n \in tools[p] <=> claimed[n] = p

(* Registry order decides (tests/federation.mjs, case 4c1): no provider    *)
(* takes a name from an earlier one or from the bridge, in whatever order  *)
(* they come up, and an earlier one that drops it releases it first.       *)
NoUsurper ==
    [][\A n \in Names, p, q \in Providers \union {Bridge} :
          claimed[n] = p /\ claimed'[n] = q /\ p # q => p # Bridge /\ q < p]_vars

(* The client's list is the list, or it has been told to ask again         *)
(* (federationReady, notifyToolsChanged).                                  *)
ClientIsTold == listed.known => told \/ listed.names = Advertised

(* However the others fare, the startup ends, and with it the wait of      *)
(* tools/list: no turn is awaited for ever (registrationGate, startOne).   *)
StartupEnds == <>Started
=============================================================================
