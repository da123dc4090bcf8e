------------------------- MODULE ToolNames_proofs -------------------------
(***************************************************************************)
(* The table of tool names, for any number of providers, any names and any *)
(* number of faults.                                                       *)
(*                                                                         *)
(* One step changes the table: registerTools, at the end of a start or of  *)
(* a refresh.  NamesRouteToOwner is inductive with the types of what is    *)
(* registered; ClientIsTold needs it, since a provider that registers the  *)
(* tools it has is silent, and only the table says that it cannot have     *)
(* taken one from another provider by that.                                *)
(***************************************************************************)
EXTENDS ToolNames, TLAPS

Inv == NamesRouteToOwner /\ ClientIsTold

-----------------------------------------------------------------------------
(* Whose a name is after provider p has registered tools: the names it     *)
(* registers are its own, those it dropped are free, the others are where  *)
(* they were (registerTools).                                              *)
LEMMA Registration ==
    ASSUME NamesRouteToOwner, NEW p \in Providers, NEW names \in SUBSET Names,
           registerTools(p, names)
    PROVE  /\ claimed' \in [Names -> {NoOne, Bridge} \union Providers]
           /\ tools' \in [Providers -> SUBSET Names]
           /\ told' \in BOOLEAN
           /\ \A q \in Providers, n \in Names : n \in tools'[q] <=> claimed'[n] = q
<1>1. tools \in [Providers -> SUBSET Names] /\ told \in BOOLEAN
      /\ claimed \in [Names -> {NoOne, Bridge} \union Providers]
  BY DEF NamesRouteToOwner, TypeOK
<1>2. /\ claimed' = [n \in Names |-> IF n \in names THEN p
                                     ELSE IF claimed[n] = p THEN NoOne ELSE claimed[n]]
      /\ tools' = [q \in Providers |-> IF q = p THEN names ELSE tools[q] \ names]
      /\ told' = (told \/ p \notin registered \/ tools[p] # names)
  BY DEF registerTools
<1>3. claimed' \in [Names -> {NoOne, Bridge} \union Providers]
  BY <1>1, <1>2
<1>4. tools' \in [Providers -> SUBSET Names] /\ told' \in BOOLEAN
  BY <1>1, <1>2
<1>5. ASSUME NEW q \in Providers, NEW n \in Names
      PROVE  n \in tools'[q] <=> claimed'[n] = q
  <2>1. n \in tools[q] <=> claimed[n] = q
    BY DEF NamesRouteToOwner
  <2>2. n \in tools[p] <=> claimed[n] = p
    BY DEF NamesRouteToOwner
  <2>3. NoOne # q
    BY DEF NoOne, Providers
  <2> QED
    BY <1>2, <2>1, <2>2, <2>3
<1> QED
  BY <1>3, <1>4, <1>5

(* If nobody is told of it, a registration changes nothing in the list.    *)
LEMMA SilentRegistration ==
    ASSUME NamesRouteToOwner, NEW p \in Providers, NEW names \in SUBSET Names,
           registerTools(p, names), ~told'
    PROVE  ~told /\ Advertised' = Advertised
<1>1. tools \in [Providers -> SUBSET Names]
  BY DEF NamesRouteToOwner, TypeOK
<1>2. /\ tools' = [q \in Providers |-> IF q = p THEN names ELSE tools[q] \ names]
      /\ ~told /\ tools[p] = names
  BY DEF registerTools
<1>3. ASSUME NEW q \in Providers, q # p
      PROVE  tools[q] \ names = tools[q]
  <2>1. ASSUME NEW n \in names, n \in tools[q] PROVE FALSE
    <3>1. n \in Names
      OBVIOUS
    <3>2. claimed[n] = q /\ claimed[n] = p
      BY <1>2, <2>1, <3>1 DEF NamesRouteToOwner
    <3> QED
      BY <1>3, <3>2
  <2> QED
    BY <2>1
<1>4. tools' = tools
  BY <1>1, <1>2, <1>3
<1> QED
  BY <1>2, <1>4 DEF Advertised

-----------------------------------------------------------------------------
LEMMA InvInit == Init => Inv
<1> SUFFICES ASSUME Init PROVE Inv
  OBVIOUS
<1>1. TypeOK
  <2>1. offers \in [Providers -> SUBSET Names] /\ fetched \in [Providers -> SUBSET Names]
    BY DEF Init
  <2>2. refreshed \in [Providers -> SUBSET Names] /\ tools \in [Providers -> SUBSET Names]
    BY DEF Init
  <2>3. claimed \in [Names -> {NoOne, Bridge} \union Providers]
    BY DEF Init
  <2>4. phase \in [Providers -> {"first", "gated", "again", "fetched", "ready",
                                "waiting", "failed"}]
        /\ refresh \in [Providers -> {"none", "asked", "read"}]
    BY DEF Init
  <2>5. listed \in [known : BOOLEAN, names : SUBSET Names] /\ told \in BOOLEAN
    BY DEF Init, Unlisted
  <2>6. faults \in 0..MaxFaults /\ turnOver \subseteq Providers
        /\ registered \subseteq Providers
    BY ToolNamesAssumption DEF Init
  <2> QED
    BY <2>1, <2>2, <2>3, <2>4, <2>5, <2>6 DEF TypeOK
<1>2. ASSUME NEW p \in Providers, NEW n \in Names
      PROVE  n \in tools[p] <=> claimed[n] = p
  BY ToolNamesAssumption DEF Init, Providers, NoOne, Bridge
<1>3. ClientIsTold
  BY DEF Init, ClientIsTold, Unlisted
<1> QED
  BY <1>1, <1>2, <1>3 DEF Inv, NamesRouteToOwner

(* What a step that registers leaves to show: the types of the rest.       *)
LEMMA RegisteringKeeps ==
    ASSUME Inv, NEW p \in Providers, NEW names \in SUBSET Names,
           registerTools(p, names), UNCHANGED <<offers, listed, faults>>,
           phase' \in [Providers -> {"first", "gated", "again", "fetched", "ready",
                                     "waiting", "failed"}],
           turnOver' \subseteq Providers, registered' \subseteq Providers,
           {fetched, refreshed}' \subseteq [Providers -> SUBSET Names],
           refresh' \in [Providers -> {"none", "asked", "read"}]
    PROVE  Inv'
<1>1. NamesRouteToOwner /\ TypeOK
  BY DEF Inv, NamesRouteToOwner
<1>2. /\ claimed' \in [Names -> {NoOne, Bridge} \union Providers]
      /\ tools' \in [Providers -> SUBSET Names]
      /\ told' \in BOOLEAN
      /\ \A q \in Providers, n \in Names : n \in tools'[q] <=> claimed'[n] = q
  BY <1>1, Registration
<1>3. TypeOK'
  BY <1>1, <1>2 DEF TypeOK
<1>4. ClientIsTold'
  <2>1. CASE told'
    BY <2>1 DEF ClientIsTold
  <2>2. CASE ~told'
    <3>1. ~told /\ Advertised' = Advertised
      BY <1>1, <2>2, SilentRegistration
    <3> QED
      BY <3>1 DEF Inv, ClientIsTold
  <2> QED
    BY <2>1, <2>2
<1> QED
  BY <1>2, <1>3, <1>4 DEF Inv, NamesRouteToOwner

(* The steps of one provider other than a registration leave the table,    *)
(* the maps and the client alone.                                          *)
LEMMA QuietKeeps ==
    ASSUME Inv, UNCHANGED <<surface, listed, told>>,
           phase' \in [Providers -> {"first", "gated", "again", "fetched", "ready",
                                     "waiting", "failed"}],
           turnOver' \subseteq Providers, registered' \subseteq Providers,
           {offers, fetched, refreshed}' \subseteq [Providers -> SUBSET Names],
           refresh' \in [Providers -> {"none", "asked", "read"}],
           faults' \in 0..MaxFaults
    PROVE  Inv'
<1>1. claimed' = claimed /\ tools' = tools /\ listed' = listed /\ told' = told
  BY DEF surface
<1>2. TypeOK'
  BY <1>1 DEF Inv, NamesRouteToOwner, TypeOK
<1>3. ClientIsTold'
  BY <1>1 DEF Inv, ClientIsTold, Advertised
<1> QED
  BY <1>1, <1>2, <1>3 DEF Inv, NamesRouteToOwner

LEMMA EndTurnType ==
    ASSUME turnOver \subseteq Providers, NEW p \in Providers, endTurn(p)
    PROVE  turnOver' \subseteq Providers
BY DEF endTurn

LEMMA FaultType ==
    ASSUME faults \in 0..MaxFaults, Fault
    PROVE  faults' \in 0..MaxFaults
BY ToolNamesAssumption DEF Fault

LEMMA InvNext == Inv /\ [Next]_vars => Inv'
<1> SUFFICES ASSUME Inv, [Next]_vars PROVE Inv'
  OBVIOUS
<1> USE DEF attempts, client
<1>T. /\ phase \in [Providers -> {"first", "gated", "again", "fetched", "ready",
                                   "waiting", "failed"}]
      /\ turnOver \subseteq Providers /\ registered \subseteq Providers
      /\ offers \in [Providers -> SUBSET Names] /\ fetched \in [Providers -> SUBSET Names]
      /\ refreshed \in [Providers -> SUBSET Names] /\ tools \in [Providers -> SUBSET Names]
      /\ refresh \in [Providers -> {"none", "asked", "read"}]
      /\ faults \in 0..MaxFaults
  BY DEF Inv, NamesRouteToOwner, TypeOK
<1>1. CASE ListTools
  <2>1. UNCHANGED <<phase, turnOver, registered, fetched, offers, refresh, refreshed,
                    claimed, tools, faults>>
        /\ listed' = [known |-> TRUE, names |-> Advertised] /\ told' = FALSE
    BY <1>1 DEF ListTools, surface
  <2>2. Advertised \subseteq Names /\ Advertised' = Advertised
    BY <1>T, <2>1 DEF Advertised
  <2>3. TypeOK'
    BY <2>1, <2>2 DEF Inv, NamesRouteToOwner, TypeOK
  <2>4. ClientIsTold'
    BY <2>1, <2>2 DEF ClientIsTold
  <2> QED
    BY <2>1, <2>3, <2>4 DEF Inv, NamesRouteToOwner
<1>2. ASSUME NEW p \in Providers, Fetch(p) PROVE Inv'
  <2>1. phase' \in [Providers -> {"first", "gated", "again", "fetched", "ready",
                                  "waiting", "failed"}]
        /\ fetched' \in [Providers -> SUBSET Names]
    BY <1>2, <1>T DEF Fetch
  <2> QED
    BY <1>2, <1>T, <2>1, QuietKeeps DEF Fetch
<1>3. ASSUME NEW p \in Providers, Register(p) PROVE Inv'
  <2>1. phase' \in [Providers -> {"first", "gated", "again", "fetched", "ready",
                                  "waiting", "failed"}]
        /\ turnOver' \subseteq Providers /\ registered' \subseteq Providers
    BY <1>3, <1>T, EndTurnType DEF Register
  <2>2. fetched[p] \in SUBSET Names
    BY <1>T
  <2> QED
    BY <1>3, <1>T, <2>1, <2>2, RegisteringKeeps DEF Register
<1>4. ASSUME NEW p \in Providers, Refused(p) PROVE Inv'
  <2>1. phase' \in [Providers -> {"first", "gated", "again", "fetched", "ready",
                                  "waiting", "failed"}]
        /\ turnOver' \subseteq Providers
    BY <1>4, <1>T, EndTurnType DEF Refused
  <2> QED
    BY <1>4, <1>T, <2>1, QuietKeeps DEF Refused
<1>5. ASSUME NEW p \in Providers, StartFails(p) PROVE Inv'
  <2>1. phase' \in [Providers -> {"first", "gated", "again", "fetched", "ready",
                                  "waiting", "failed"}]
        /\ turnOver' \subseteq Providers /\ faults' \in 0..MaxFaults
    BY <1>5, <1>T, EndTurnType, FaultType DEF StartFails
  <2> QED
    BY <1>5, <1>T, <2>1, QuietKeeps DEF StartFails
<1>6. ASSUME NEW p \in Providers, Retry(p) PROVE Inv'
  <2>1. phase' \in [Providers -> {"first", "gated", "again", "fetched", "ready",
                                  "waiting", "failed"}]
    BY <1>6, <1>T DEF Retry
  <2> QED
    BY <1>6, <1>T, <2>1, QuietKeeps DEF Retry
<1>7. ASSUME NEW p \in Providers, Lose(p) PROVE Inv'
  <2>1. phase' \in [Providers -> {"first", "gated", "again", "fetched", "ready",
                                  "waiting", "failed"}]
        /\ refresh' \in [Providers -> {"none", "asked", "read"}]
        /\ faults' \in 0..MaxFaults
    BY <1>7, <1>T, FaultType DEF Lose
  <2> QED
    BY <1>7, <1>T, <2>1, QuietKeeps DEF Lose
<1>8. ASSUME NEW p \in Providers, ServerChanges(p) PROVE Inv'
  <2>1. offers' \in [Providers -> SUBSET Names] /\ faults' \in 0..MaxFaults
    BY <1>8, <1>T, FaultType DEF ServerChanges
  <2> QED
    BY <1>8, <1>T, <2>1, QuietKeeps DEF ServerChanges
<1>9. ASSUME NEW p \in Providers, ListChanged(p) \/ RefreshRead(p) PROVE Inv'
  <2>1. refresh' \in [Providers -> {"none", "asked", "read"}]
        /\ refreshed' \in [Providers -> SUBSET Names]
    BY <1>9, <1>T DEF ListChanged, RefreshRead
  <2> QED
    BY <1>9, <1>T, <2>1, QuietKeeps DEF ListChanged, RefreshRead
<1>10. ASSUME NEW p \in Providers, RefreshDone(p) PROVE Inv'
  <2>1. refresh' \in [Providers -> {"none", "asked", "read"}]
    BY <1>10, <1>T DEF RefreshDone
  <2>2. CASE registerTools(p, refreshed[p])
    <3>1. refreshed[p] \in SUBSET Names
      BY <1>T
    <3> QED
      BY <1>10, <1>T, <2>1, <2>2, <3>1, RegisteringKeeps DEF RefreshDone
  <2>3. CASE UNCHANGED <<surface, told>>
    BY <1>10, <1>T, <2>1, <2>3, QuietKeeps DEF RefreshDone
  <2> QED
    BY <1>10, <2>2, <2>3 DEF RefreshDone
<1>11. CASE UNCHANGED vars
  BY <1>11, <1>T, QuietKeeps DEF vars, surface
<1> QED
  BY <1>1, <1>2, <1>3, <1>4, <1>5, <1>6, <1>7, <1>8, <1>9, <1>10, <1>11
  DEF Next, Settle

-----------------------------------------------------------------------------
LEMMA InvHolds == Spec => []Inv
BY InvInit, InvNext, PTL DEF Spec

(* For any providers and names, a tool in the list routes to the provider  *)
(* that owns its name, and a name nobody has is free (registerTools,       *)
(* claimToolNames).                                                        *)
THEOREM RoutingHolds == Spec => []NamesRouteToOwner
<1>1. Inv => NamesRouteToOwner
  BY DEF Inv
<1> QED
  BY <1>1, InvHolds, PTL

(* A client has the list, or was told to ask again (notifyToolsChanged).   *)
THEOREM ClientsAreTold == Spec => []ClientIsTold
<1>1. Inv => ClientIsTold
  BY DEF Inv
<1> QED
  BY <1>1, InvHolds, PTL

(* A registration takes names from later providers only.                   *)
LEMMA TakesFromLater ==
    ASSUME NamesRouteToOwner, NEW p \in Providers, NEW names \in SUBSET Names,
           registerTools(p, names), NEW n \in Names, NEW q \in Providers \union {Bridge},
           claimed'[n] = q, claimed[n] \in Providers \union {Bridge}, claimed[n] # q
    PROVE  claimed[n] # Bridge /\ q < claimed[n]
<1>1. claimed' = [m \in Names |-> IF m \in names THEN p
                                  ELSE IF claimed[m] = p THEN NoOne ELSE claimed[m]]
  BY DEF registerTools
<1>2. NoOne \notin Providers \union {Bridge}
  BY ToolNamesAssumption DEF NoOne, Providers, Bridge
<1>3. n \in names /\ q = p
  BY <1>1, <1>2
<1>4. ~Collides(p, n)
  BY <1>3 DEF registerTools, claimToolNames
<1>5. claimed[n] # Bridge /\ claimed[n] \notin 1..(p - 1)
  BY <1>4 DEF Collides
<1>6. claimed[n] \in 1..Count /\ p \in 1..Count /\ claimed[n] # p
  BY <1>3, <1>5 DEF Providers
<1> QED
  BY <1>3, <1>5, <1>6, ToolNamesAssumption

(* No provider takes a name from an earlier one or from the bridge.        *)
THEOREM RegistryOrderDecides == Spec => NoUsurper
<1> DEFINE Takes == \A n \in Names, p, q \in Providers \union {Bridge} :
              claimed[n] = p /\ claimed'[n] = q /\ p # q => p # Bridge /\ q < p
<1>1. Inv /\ [Next]_vars => [Takes]_vars
  <2> SUFFICES ASSUME Inv, [Next]_vars PROVE Takes
    OBVIOUS
  <2>1. NamesRouteToOwner /\ fetched \in [Providers -> SUBSET Names]
        /\ refreshed \in [Providers -> SUBSET Names]
    BY DEF Inv, NamesRouteToOwner, TypeOK
  <2>2. ASSUME NEW p \in Providers, NEW names \in SUBSET Names, registerTools(p, names)
        PROVE  Takes
    BY <2>1, <2>2, TakesFromLater
  <2>3. \/ claimed' = claimed
        \/ \E p \in Providers : registerTools(p, fetched[p]) \/ registerTools(p, refreshed[p])
    BY DEF Next, vars, surface, ListTools, Settle, Fetch, Register, Refused, StartFails,
           Retry, Lose, ServerChanges, ListChanged, RefreshRead, RefreshDone
  <2>4. CASE claimed' = claimed
    BY <2>4
  <2>5. ASSUME NEW p \in Providers,
               registerTools(p, fetched[p]) \/ registerTools(p, refreshed[p])
        PROVE  Takes
    BY <2>1, <2>2, <2>5
  <2> QED
    BY <2>3, <2>4, <2>5
<1> QED
  BY <1>1, InvHolds, PTL DEF Spec, NoUsurper

=============================================================================
