----------------------- MODULE ChromeWorkspace_proofs -----------------------
(***************************************************************************)
(* What is proved of the pool of tabs, for any number of sessions, tabs,   *)
(* operators' requests and upsets: no tab is lent twice, a session's page  *)
(* stays its own, the store agrees with what is lent, and the target       *)
(* shrinks only by a writer that does not know it.                         *)
(*                                                                         *)
(* The store cannot be trusted on its own: it is read before an            *)
(* initialization and written after it, it is cleared by a listener that   *)
(* does not queue, and a group is adopted from nothing but what Chrome     *)
(* shows, with no leases.  What makes adoption safe is that a tab which is *)
(* used, or still shows a session's page, is in no group but the stored    *)
(* one; so no other group can offer it.  What makes a reset safe, whenever *)
(* it is shown, is that none is outstanding for a tab once it navigates.   *)
(***************************************************************************)
EXTENDS ChromeWorkspace, FiniteSetTheorems, TLAPS

Pages   == {"idle"} \cup Sessions
Callers == Sessions \cup {"none", "operator", "focus"}
Ops     == [at : {"free", "target", "create", "save"}, caller : Callers, request : Nat,
            stored : 0..Max, goal : Nat, state : Stores, group : Groups \cup {None},
            tabs : SUBSET Tabs]

TypeInv ==
    /\ TypeOK /\ op \in Ops
    /\ \A s \in Sessions : pc[s] = "pressureSave" => seen[s] \in Default..Max

(* Only tabs that Chrome has created are anywhere; and those it does not   *)
(* have show nothing and are in no group.                                  *)
KnownInv ==
    /\ tabs \cup store.tabs \cup op.tabs \cup inUse \subseteq 1..created
    /\ \A t \in Tabs : /\ t \notin tabs => page[t] = "idle"
                       /\ groupOf[t] # None => t \in tabs

(* The tabs that show the idle page, or whose reset has been ordered.      *)
Clean == {t \in Tabs : page[t] = "idle" \/ t \in resetting}

(* Sessions work in tabs of their own, and their leases are fresh.         *)
SessionInv ==
    /\ \A s \in Sessions : pc[s] \in leasing => tab[s] \in Tabs
    /\ \A s, r \in Sessions :
          s # r /\ pc[s] \in leasing /\ pc[r] \in leasing => tab[s] # tab[r]
    /\ \A s \in Sessions :
          /\ pc[s] \in {"settle", "touch", "held"} =>
                tab[s] \notin resetting /\ (tab[s] \in tabs => page[tab[s]] = s)
          /\ pc[s] = "drop" => tab[s] \in Clean
    /\ stale \cap inUse = {}

(* Of the tabs ts those in use are leased, and the others are clean.       *)
Agrees(ts, ls, clean, used) == used \cap ts \subseteq ls /\ ts \ ls \subseteq clean

(* A grouped tab that is in use or not idle is one of the store's.         *)
Grouped(st, shown, used) ==
    \A t \in Tabs : groupOf[t] # None /\ (shown[t] # "idle" \/ t \in used)
                       => t \in st.tabs /\ groupOf[t] = st.group

PoolInv == Agrees(store.tabs, store.leases, Clean, inUse) /\ Grouped(store, page, inUse)

(* What an initialization has read is still in the store, or the store was *)
(* cleared; what it will write is as good as what it read, and its new     *)
(* tabs are blank and nobody's.                                            *)
OpInv ==
    op.at # "free" =>
       /\ op.stored \in Default..Max /\ store \in {op.state, NoStore}
       /\ op.state.leases \subseteq op.state.tabs /\ op.state.tabs \subseteq op.tabs
       /\ op.state.group # None => op.group = op.state.group
       /\ Agrees(op.tabs, op.state.leases, Clean, inUse)
       /\ \A t \in op.tabs \ op.state.tabs : page[t] = "idle" /\ t \notin inUse

(* A group reported removed stays empty, and as long as the listener is    *)
(* about to clear the store, it holds that group or none.                  *)
ListenInv ==
    PromptListener =>
       /\ \A g \in removed \cup clearing : TabsIn(g) = {}
       /\ \A g \in clearing : /\ store.group \in {g, None}
                              /\ op.at # "free" => op.group \in {g, None}

Inv == TypeInv /\ KnownInv /\ SessionInv /\ PoolInv /\ OpInv /\ ListenInv


-----------------------------------------------------------------------------
LEMMA NoneIsNoGroup == None \notin Groups /\ None \notin Tabs /\ Groups = Tabs /\ MaxTabs \in Nat
BY ChromeWorkspaceAssumption DEF None, Groups, Tabs

LEMMA SizesAreBounded ==
    ASSUME NEW T \in SUBSET Tabs
    PROVE  Cardinality(T) \in 0..MaxTabs
<1>1. IsFiniteSet(1..MaxTabs) /\ Cardinality(1..MaxTabs) = MaxTabs
  BY FS_Interval, ChromeWorkspaceAssumption
<1>2. IsFiniteSet(T) /\ Cardinality(T) <= Cardinality(1..MaxTabs)
  BY <1>1, FS_Subset DEF Tabs
<1>3. Cardinality(T) \in Nat
  BY <1>2, FS_CardinalityType
<1> QED
  BY <1>1, <1>2, <1>3, ChromeWorkspaceAssumption

(* What reconcileWorkspaceStateUnlocked makes of the store: the tabs it    *)
(* keeps are in the group, it takes no lease of a tab in use, resets no    *)
(* such tab, and adopts no group with one.                                 *)
LEMMA ReconcileFacts ==
    ASSUME Inv, NEW releaseStale \in BOOLEAN, NEW R \in reconciled(releaseStale)
    PROVE  /\ R.store \in Stores /\ R.store.leases \subseteq R.store.tabs
           /\ R.store.tabs \subseteq 1..created
           /\ R.store = NoStore \/ R.store.tabs \subseteq TabsIn(R.store.group)
           /\ R.reset \subseteq Tabs \ inUse
           /\ Agrees(R.store.tabs, R.store.leases, Clean \cup R.reset, inUse)
           /\ Grouped(R.store, page, inUse)
           /\ PromptListener /\ clearing # {} => R.store.group \in {store.group, None}
<1> DEFINE Facts ==
             /\ R.store \in Stores /\ R.store.leases \subseteq R.store.tabs
             /\ R.store.tabs \subseteq 1..created
             /\ R.store = NoStore \/ R.store.tabs \subseteq TabsIn(R.store.group)
             /\ R.reset \subseteq Tabs \ inUse
             /\ Agrees(R.store.tabs, R.store.leases, Clean \cup R.reset, inUse)
             /\ Grouped(R.store, page, inUse)
             /\ PromptListener /\ clearing # {} => R.store.group \in {store.group, None}
           mine    == store.tabs \cap TabsIn(store.group)
           expired == IF releaseStale THEN store.leases \cap mine \cap stale ELSE {}
           kept    == [group |-> store.group, tabs |-> mine,
                       leases |-> (store.leases \cap mine) \ expired]
<1> SUFFICES Facts
  OBVIOUS
<1>1. /\ store \in Stores /\ store.leases \subseteq store.tabs /\ tabs \subseteq Tabs
      /\ groupOf \in [Tabs -> Groups \cup {None}]
  BY DEF Inv, TypeInv, TypeOK
<1>2. tabs \subseteq 1..created /\ \A t \in Tabs : groupOf[t] # None => t \in tabs
  BY DEF Inv, KnownInv
<1>3. stale \cap inUse = {}
  BY DEF Inv, SessionInv
<1>4. Agrees(store.tabs, store.leases, Clean, inUse) /\ Grouped(store, page, inUse)
  BY DEF Inv, PoolInv
<1>5. ASSUME store = NoStore \/ TabsIn(store.group) = {}
      PROVE  \A t \in Tabs : groupOf[t] # None => page[t] = "idle" /\ t \notin inUse
  BY <1>2, <1>4, <1>5 DEF Grouped, NoStore, TabsIn
<1>6. CASE R = [store |-> NoStore, reset |-> {}] /\ (store = NoStore \/ TabsIn(store.group) = {})
  BY <1>1, <1>5, <1>6 DEF NoStore, Stores, Agrees, Grouped
<1>7. ASSUME NEW g \in Groups, \E t \in TabsIn(g) : page[t] = "idle", listened,
             R = [store |-> [group |-> g, tabs |-> TabsIn(g), leases |-> {}], reset |-> {}],
             store = NoStore \/ TabsIn(store.group) = {}
      PROVE  Facts
  <2>1. /\ R.store.group = g /\ R.store.tabs = TabsIn(g) /\ R.store.leases = {}
        /\ R.reset = {}
    BY <1>7
  <2>2. TabsIn(g) \subseteq tabs /\ \A t \in TabsIn(g) : groupOf[t] = g /\ g # None
    BY NoneIsNoGroup DEF TabsIn
  <2>3. \A t \in TabsIn(g) : t \in Clean /\ t \notin inUse
    BY <1>1, <1>5, <1>7, <2>2 DEF Clean
  <2>4. R.store \in Stores
    BY <1>1, <1>7, <2>2 DEF Stores
  <2>5. Agrees(R.store.tabs, R.store.leases, Clean \cup R.reset, inUse)
        /\ Grouped(R.store, page, inUse)
    BY <1>5, <1>7, <2>1, <2>3 DEF Agrees, Grouped
  <2>6. PromptListener => clearing = {}
    BY <1>7 DEF listened
  <2> QED
    BY <1>1, <1>2, <2>1, <2>2, <2>4, <2>5, <2>6
<1>8. CASE /\ ~ (store = NoStore \/ TabsIn(store.group) = {}) /\ mine = {}
           /\ R = [store |-> NoStore, reset |-> {}]
  <2>1. \A t \in Tabs : groupOf[t] # None => page[t] = "idle" /\ t \notin inUse
    BY <1>2, <1>4, <1>8 DEF Grouped, TabsIn
  <2> QED
    BY <1>1, <1>8, <2>1 DEF NoStore, Stores, Agrees, Grouped
<1>9. CASE R = [store |-> kept, reset |-> expired]
  <2>1. /\ R.store.group = store.group /\ R.store.tabs = mine /\ R.reset = expired
        /\ R.store.leases = (store.leases \cap mine) \ expired
    BY <1>9
  <2>2. expired \subseteq stale /\ expired \cap inUse = {}
    BY <1>3
  <2>3. mine \subseteq Tabs /\ mine \subseteq tabs /\ expired \subseteq mine
    BY <1>1 DEF TabsIn
  <2>4. R.store \in Stores
    <3>1. kept \in Stores
      BY <1>1, <2>3 DEF Stores
    <3> QED
      BY <1>9, <3>1
  <2>5. Agrees(R.store.tabs, R.store.leases, Clean \cup R.reset, inUse)
    BY <1>4, <2>1, <2>2 DEF Agrees
  <2>6. Grouped(R.store, page, inUse)
    BY <1>2, <1>4, <2>1 DEF Grouped, TabsIn
  <2> QED
    BY <1>2, <2>1, <2>2, <2>3, <2>4, <2>5, <2>6
<1>10. CASE store = NoStore \/ TabsIn(store.group) = {}
  <2>1. PICK st \in discovered : R = [store |-> st, reset |-> {}]
    BY <1>10, Zenon DEF reconciled
  <2>2. \/ st = NoStore
        \/ \E g \in Groups : /\ \E t \in TabsIn(g) : page[t] = "idle"
                             /\ listened
                             /\ st = [group |-> g, tabs |-> TabsIn(g), leases |-> {}]
    BY <2>1 DEF discovered
  <2> QED
    BY <1>6, <1>7, <1>10, <2>1, <2>2
<1>11. CASE ~ (store = NoStore \/ TabsIn(store.group) = {}) /\ mine = {}
  BY <1>8, <1>11 DEF reconciled
<1>12. CASE ~ (store = NoStore \/ TabsIn(store.group) = {}) /\ mine # {}
  BY <1>9, <1>12 DEF reconciled
<1> QED
  BY <1>10, <1>11, <1>12


(* Without the stale leases no tab is reset.                               *)
LEMMA ResetsNone ==
    ASSUME NEW R \in reconciled(FALSE)
    PROVE  R.reset = {}
BY DEF reconciled

(* What a reset leaves to be shown.                                        *)
LEMMA ResetFacts ==
    ASSUME Inv, NEW T \in SUBSET Tabs, reset(T), page' = page
    PROVE  /\ resetting' \subseteq resetting \cup T /\ resetting' \subseteq tabs
           /\ Clean' = Clean \cup T
<1>1. resetting' = {t \in resetting \cup T : page[t] # "idle"}
  BY DEF reset
<1>2. resetting \subseteq tabs /\ tabs \subseteq Tabs /\ \A t \in Tabs : t \notin tabs => page[t] = "idle"
  BY DEF Inv, TypeInv, TypeOK, KnownInv
<1>3. resetting' \subseteq resetting \cup T /\ resetting' \subseteq tabs
  BY <1>1, <1>2
<1>4. Clean' = Clean \cup T
  BY <1>1, <1>2 DEF Clean
<1> QED
  BY <1>3, <1>4

-----------------------------------------------------------------------------
(* A session that uses a tab.                                              *)
LEMMA Users ==
    /\ \A t : t \in inUse <=> \E s \in Sessions : pc[s] \in leasing /\ tab[s] = t
    /\ \A t : t \in inUse' <=> \E s \in Sessions : pc'[s] \in leasing /\ tab'[s] = t
BY DEF inUse, leasing

NoNewUse == \A s \in Sessions : pc'[s] \in leasing => pc[s] \in leasing /\ tab'[s] = tab[s]

LEMMA FewerUses ==
    ASSUME NoNewUse
    PROVE  inUse' \subseteq inUse
BY Users DEF NoNewUse

(* What holds of the sessions, whatever the pool does: no step that gives  *)
(* out no tab, and neither changes nor resets a page shown to a session,   *)
(* breaks it.                                                              *)
LEMMA SessionsKept ==
    ASSUME Inv, NoNewUse, stale' \cap inUse' = {}, tabs' \subseteq tabs \cup {created + 1},
           created \in Nat,
           \A s \in Sessions :
              /\ pc'[s] \in {"settle", "touch", "held"} =>
                    /\ pc[s] \in {"settle", "touch", "held"} /\ tab[s] \notin resetting'
                    /\ tab[s] \in tabs' => page'[tab[s]] = page[tab[s]]
              /\ pc'[s] = "drop" => tab[s] \in Clean'
    PROVE  SessionInv'
<1>1. SessionInv /\ inUse \subseteq 1..created
  BY DEF Inv, KnownInv
<1>2. \A s \in Sessions : pc'[s] \in leasing => tab'[s] \in Tabs
  BY <1>1 DEF SessionInv, NoNewUse
<1>3. \A s, r \in Sessions :
         s # r /\ pc'[s] \in leasing /\ pc'[r] \in leasing => tab'[s] # tab'[r]
  BY <1>1 DEF SessionInv, NoNewUse
<1>4. ASSUME NEW s \in Sessions, pc'[s] \in {"settle", "touch", "held"}
      PROVE  tab'[s] \notin resetting' /\ (tab'[s] \in tabs' => page'[tab'[s]] = s)
  <2>1. pc[s] \in leasing /\ tab'[s] = tab[s]
    BY <1>4 DEF NoNewUse, leasing
  <2>2. tab[s] \in 1..created
    BY <1>1, <2>1, Users
  <2>3. tab[s] \in tabs' => tab[s] \in tabs
    BY <1>4, <2>2
  <2> QED
    BY <1>1, <1>4, <2>1, <2>3 DEF SessionInv
<1>5. \A s \in Sessions : pc'[s] = "drop" => tab'[s] \in Clean'
  BY DEF NoNewUse, leasing
<1> QED
  BY <1>2, <1>3, <1>4, <1>5 DEF SessionInv

(* A step that saves what it reconciled, and gives out no tab.             *)
LEMMA SaveKeeps ==
    ASSUME Inv, NEW b \in BOOLEAN, NEW R \in reconciled(b), op.at = "free",
           store' = R.store, stale' \subseteq stale, NoNewUse,
           reset(R.reset) \/ (R.reset = {} /\ resetting' = resetting),
           UNCHANGED <<tabs, groupOf, page, created, removed, clearing>>,
           \A s \in Sessions :
              /\ pc'[s] \in {"settle", "touch", "held"} => pc[s] \in {"settle", "touch", "held"}
              /\ pc'[s] = "drop" => pc[s] = "drop",
           \/ op' = op
           \/ /\ op'.stored \in Default..Max /\ op'.state = R.store
              /\ op'.group = R.store.group /\ op'.tabs = R.store.tabs
    PROVE  KnownInv' /\ SessionInv' /\ PoolInv' /\ OpInv' /\ ListenInv'
<1>1. /\ R.store \in Stores /\ R.store.leases \subseteq R.store.tabs
      /\ R.store.tabs \subseteq 1..created
      /\ R.reset \subseteq Tabs \ inUse
      /\ Agrees(R.store.tabs, R.store.leases, Clean \cup R.reset, inUse)
      /\ Grouped(R.store, page, inUse)
      /\ PromptListener /\ clearing # {} => R.store.group \in {store.group, None}
  BY ReconcileFacts
<1>2. inUse' \subseteq inUse
  BY FewerUses
<1>3. created \in Nat
  BY DEF Inv, TypeInv, TypeOK
<1>9. resetting' \subseteq resetting \cup R.reset /\ Clean' = Clean \cup R.reset
  <2>1. CASE reset(R.reset)
    BY <1>1, <2>1, ResetFacts
  <2>2. CASE R.reset = {} /\ resetting' = resetting
    BY <2>2 DEF Clean
  <2> QED
    BY <2>1, <2>2
<1>4. KnownInv'
  BY <1>1, <1>2 DEF Inv, KnownInv
<1>5. SessionInv'
  <2>1. stale' \cap inUse' = {}
    BY <1>2 DEF Inv, SessionInv
  <2>2. \A s \in Sessions : pc[s] \in leasing => tab[s] \notin R.reset
    BY <1>1, Users
  <2>3. \A s \in Sessions : pc[s] \in {"settle", "touch", "held"} => tab[s] \notin resetting'
    BY <1>9, <2>2 DEF Inv, SessionInv, leasing
  <2>4. \A s \in Sessions : pc[s] = "drop" => tab[s] \in Clean'
    BY <1>9 DEF Inv, SessionInv
  <2> QED
    BY <1>3, <2>1, <2>3, <2>4, SessionsKept
<1>6. PoolInv'
  BY <1>1, <1>2, <1>9 DEF PoolInv, Agrees, Grouped
<1>7. OpInv'
  <2>1. CASE op' = op
    BY <2>1 DEF OpInv
  <2>2. CASE op' # op
    BY <1>1, <1>2, <1>9, <2>2 DEF OpInv, Agrees
  <2> QED
    BY <2>1, <2>2
<1>8. ListenInv'
  <2>1. \A g : TabsIn(g)' = TabsIn(g)
    BY DEF TabsIn
  <2> QED
    BY <1>1, <2>1 DEF Inv, ListenInv
<1> QED
  BY <1>4, <1>5, <1>6, <1>7, <1>8

(* A step that leaves store, tabs and pages alone.                         *)
LEMMA QuietKeeps ==
    ASSUME Inv, NoNewUse, UNCHANGED <<store, tabs, groupOf, page, resetting, created>>,
           stale' \cap inUse = {}, removed' \subseteq removed, clearing' \subseteq clearing,
           \A s \in Sessions :
              /\ pc'[s] \in {"settle", "touch", "held"} => pc[s] \in {"settle", "touch", "held"}
              /\ pc'[s] = "drop" => pc[s] = "drop",
           \/ /\ op'.at # "free" => op.at # "free"
              /\ op'.stored = op.stored /\ op'.state = op.state
              /\ op'.group = op.group /\ op'.tabs = op.tabs
           \/ op' = Free
    PROVE  KnownInv' /\ SessionInv' /\ PoolInv' /\ OpInv' /\ ListenInv'
<1>1. inUse' \subseteq inUse /\ Clean' = Clean
  BY FewerUses DEF Clean
<1>2. created \in Nat
  BY DEF Inv, TypeInv, TypeOK
<1>3. KnownInv'
  BY <1>1 DEF Inv, KnownInv, Free
<1>4. SessionInv'
  <2>1. stale' \cap inUse' = {}
    BY <1>1
  <2>2. \A s \in Sessions :
          /\ pc[s] = "drop" => tab[s] \in Clean'
          /\ pc[s] \in {"settle", "touch", "held"} => tab[s] \notin resetting'
    BY <1>1 DEF Inv, SessionInv
  <2> QED
    BY <1>2, <2>1, <2>2, SessionsKept
<1>5. PoolInv'
  BY <1>1 DEF Inv, PoolInv, Agrees, Grouped
<1>6. OpInv'
  BY <1>1 DEF Inv, OpInv, Agrees, Free
<1>7. ListenInv'
  <2>1. \A g : TabsIn(g)' = TabsIn(g)
    BY DEF TabsIn
  <2> QED
    BY <2>1 DEF Inv, ListenInv, Free
<1> QED
  BY <1>3, <1>4, <1>5, <1>6, <1>7


-----------------------------------------------------------------------------
(* Where a session goes with Go.                                           *)
LEMMA Goes ==
    ASSUME Inv, NEW s \in Sessions, NEW at, Go(s, at)
    PROVE  pc'[s] = at /\ \A r \in Sessions \ {s} : pc'[r] = pc[r]
BY DEF Go, Inv, TypeInv, TypeOK

(* reserveIdleWorkspaceTab: the tab it finds is nobody's.                  *)
LEMMA ReserveKeeps ==
    ASSUME Inv, NEW s \in Sessions, Reserve(s)
    PROVE  KnownInv' /\ SessionInv' /\ PoolInv' /\ OpInv' /\ ListenInv'
<1> DEFINE Goal == KnownInv' /\ SessionInv' /\ PoolInv' /\ OpInv' /\ ListenInv'
<1> SUFFICES Goal
  OBVIOUS
<1>1. PICK R \in reconciled(TRUE) :
         /\ reset(R.reset)
         /\ \/ \E t \in freeTabs(R.store) :
                 /\ store' = [R.store EXCEPT !.leases = @ \cup {t}]
                 /\ stale' = (stale \cap R.store.leases) \ {t}
                 /\ tab' = [tab EXCEPT ![s] = t]
                 /\ Go(s, "navigate")
            \/ /\ store' = R.store
               /\ stale' = stale \cap R.store.leases
               /\ Go(s, IF pc[s] = "reserve" THEN "pressure" ELSE "poll")
               /\ UNCHANGED tab
  BY DEF Reserve
<1>2. /\ pc[s] \in {"reserve", "poll"} /\ op.at = "free" /\ op' = op
      /\ UNCHANGED <<tabs, groupOf, page, created, removed, clearing>>
  BY DEF Reserve, queueFree, listener
<1>3. CASE /\ store' = R.store
           /\ stale' = stale \cap R.store.leases
           /\ Go(s, IF pc[s] = "reserve" THEN "pressure" ELSE "poll")
           /\ UNCHANGED tab
  <2>1. pc'[s] \in {"pressure", "poll"} /\ \A r \in Sessions \ {s} : pc'[r] = pc[r]
    BY <1>3, Goes
  <2>2. NoNewUse
    BY <1>3, <2>1 DEF NoNewUse, leasing
  <2> QED
    BY <1>1, <1>2, <1>3, <2>1, <2>2, SaveKeeps
<1>4. ASSUME NEW t \in freeTabs(R.store),
             store' = [R.store EXCEPT !.leases = @ \cup {t}],
             stale' = (stale \cap R.store.leases) \ {t},
             tab' = [tab EXCEPT ![s] = t], Go(s, "navigate")
      PROVE  Goal
  <2>1. /\ R.store \in Stores /\ R.store.leases \subseteq R.store.tabs
        /\ R.store.tabs \subseteq 1..created
        /\ R.store = NoStore \/ R.store.tabs \subseteq TabsIn(R.store.group)
        /\ R.reset \subseteq Tabs \ inUse
        /\ Agrees(R.store.tabs, R.store.leases, Clean \cup R.reset, inUse)
        /\ Grouped(R.store, page, inUse)
        /\ PromptListener /\ clearing # {} => R.store.group \in {store.group, None}
    BY ReconcileFacts
  <2>2. /\ store'.group = R.store.group /\ store'.tabs = R.store.tabs
        /\ store'.leases = R.store.leases \cup {t}
    BY <1>4, <2>1 DEF Stores
  <2>3. /\ t \in Tabs /\ t \in R.store.tabs /\ t \notin R.store.leases
        /\ t \notin inUse
    BY <1>4, <2>1 DEF freeTabs, Agrees, Stores
  <2>12. resetting' \subseteq resetting \cup R.reset /\ Clean' = Clean \cup R.reset
    BY <1>1, <1>2, <2>1, ResetFacts
  <2>4. groupOf[t] = R.store.group
    BY <2>1, <2>3 DEF NoStore, TabsIn
  <2>5. /\ pc'[s] = "navigate" /\ \A r \in Sessions \ {s} : pc'[r] = pc[r]
        /\ tab'[s] = t /\ \A r \in Sessions \ {s} : tab'[r] = tab[r]
    BY <1>4, Goes DEF Inv, TypeInv, TypeOK
  <2>6. /\ \A u : u \in inUse' => u = t \/ u \in inUse
        /\ pc[s] \notin leasing
    BY <1>2, <2>5, Users DEF leasing
  <2>7. KnownInv'
    BY <1>1, <1>2, <2>1, <2>2, <2>3, <2>6 DEF Inv, KnownInv
  <2>8. SessionInv'
    <3>1. \A r \in Sessions \ {s} : pc'[r] \in leasing => tab'[r] \in inUse
      BY <2>5, Users
    <3>2. \A r, q \in Sessions :
             r # q /\ pc'[r] \in leasing /\ pc'[q] \in leasing => tab'[r] # tab'[q]
      BY <2>3, <2>5, <3>1 DEF Inv, SessionInv
    <3>3. \A r \in Sessions : pc'[r] \in leasing => tab'[r] \in Tabs
      BY <2>3, <2>5 DEF Inv, SessionInv
    <3>4. \A r \in Sessions \ {s} :
             pc'[r] \in leasing => tab'[r] \in Tabs /\ tab'[r] \notin R.reset
      BY <2>1, <2>5, <3>3, Users
    <3>5. \A r \in Sessions :
             /\ pc'[r] \in {"settle", "touch", "held"} =>
                   tab'[r] \notin resetting' /\ (tab'[r] \in tabs' => page'[tab'[r]] = r)
             /\ pc'[r] = "drop" => tab'[r] \in Clean'
      BY <1>2, <2>5, <2>12, <3>4 DEF Inv, SessionInv, leasing
    <3>6. stale' \cap inUse' = {}
      BY <1>4, <2>6 DEF Inv, SessionInv
    <3> QED
      BY <3>2, <3>3, <3>5, <3>6 DEF SessionInv
  <2>9. PoolInv'
    BY <1>2, <2>1, <2>2, <2>3, <2>4, <2>6, <2>12 DEF PoolInv, Agrees, Grouped
  <2>10. OpInv'
    BY <1>2 DEF OpInv
  <2>11. ListenInv'
    <3>1. \A g : TabsIn(g)' = TabsIn(g)
      BY <1>2 DEF TabsIn
    <3> QED
      BY <1>2, <2>1, <2>2, <3>1 DEF Inv, ListenInv
  <2> QED
    BY <2>7, <2>8, <2>9, <2>10, <2>11
<1> QED
  BY <1>1, <1>3, <1>4

(* releaseWorkspaceTab: the tab it gives back is clean.                    *)
LEMMA ReleaseKeeps ==
    ASSUME Inv, NEW s \in Sessions, NEW resetUrl \in BOOLEAN, Release(s, resetUrl, "idle"),
           pc[s] \in leasing, resetUrl \/ pc[s] = "drop"
    PROVE  KnownInv' /\ SessionInv' /\ PoolInv' /\ OpInv' /\ ListenInv'
<1>1. PICK R \in reconciled(FALSE) :
         /\ store' = [R.store EXCEPT !.leases = @ \ {tab[s]}]
         /\ stale' = (stale \cap R.store.leases) \ {tab[s]}
         /\ reset(IF resetUrl THEN {tab[s]} \cap R.store.tabs ELSE {})
  BY DEF Release
<1>2. /\ op.at = "free" /\ op' = op /\ Go(s, "idle") /\ tab' = [tab EXCEPT ![s] = None]
      /\ UNCHANGED <<tabs, groupOf, page, created, removed, clearing>>
  BY DEF Release, queueFree, listener
<1>3. /\ R.store \in Stores /\ R.store.leases \subseteq R.store.tabs
      /\ R.store.tabs \subseteq 1..created
      /\ Agrees(R.store.tabs, R.store.leases, Clean, inUse)
      /\ Grouped(R.store, page, inUse)
      /\ PromptListener /\ clearing # {} => R.store.group \in {store.group, None}
  BY ReconcileFacts, ResetsNone
<1>4. /\ store'.group = R.store.group /\ store'.tabs = R.store.tabs
      /\ store'.leases = R.store.leases \ {tab[s]}
  BY <1>1, <1>3 DEF Stores
<1>5. /\ pc'[s] = "idle" /\ \A r \in Sessions \ {s} : pc'[r] = pc[r] /\ tab'[r] = tab[r]
  BY <1>2, Goes DEF Inv, TypeInv, TypeOK
<1>6. NoNewUse
  BY <1>5 DEF NoNewUse, leasing
<1>7. inUse' \subseteq inUse \ {tab[s]}
  <2>1. \A r \in Sessions \ {s} : pc[r] \in leasing => tab[r] # tab[s]
    BY DEF Inv, SessionInv
  <2>2. \A r \in Sessions : pc'[r] \in leasing => r # s /\ pc[r] \in leasing /\ tab'[r] = tab[r]
    BY <1>5 DEF leasing
  <2> QED
    BY <2>1, <2>2, Users
<1>8. tab[s] \in Tabs /\ tab[s] \in inUse /\ created \in Nat
  BY Users DEF Inv, SessionInv, TypeInv, TypeOK
<1>9. /\ Clean \subseteq Clean' /\ resetting' \subseteq resetting \cup {tab[s]}
      /\ tab[s] \in R.store.tabs => tab[s] \in Clean'
  <2> DEFINE T == IF resetUrl THEN {tab[s]} \cap R.store.tabs ELSE {}
  <2>1. T \in SUBSET Tabs /\ T \subseteq {tab[s]} /\ (resetUrl => T = {tab[s]} \cap R.store.tabs)
    BY <1>8
  <2>2. resetting' \subseteq resetting \cup T /\ Clean' = Clean \cup T
    BY <1>1, <1>2, <2>1, ResetFacts
  <2>3. ~resetUrl => tab[s] \in Clean
    BY DEF Inv, SessionInv
  <2> QED
    BY <2>1, <2>2, <2>3
<1>10. KnownInv'
  BY <1>2, <1>3, <1>4, <1>7 DEF Inv, KnownInv
<1>11. SessionInv'
  <2>1. stale' \cap inUse' = {}
    BY <1>1, <1>7 DEF Inv, SessionInv
  <2>2. \A r \in Sessions : pc'[r] \in leasing => tab[r] # tab[s] /\ r # s
    BY <1>5 DEF Inv, SessionInv, leasing
  <2>3. \A r \in Sessions :
          /\ pc'[r] \in {"settle", "touch", "held"} =>
                pc[r] \in {"settle", "touch", "held"} /\ tab[r] \notin resetting'
          /\ pc'[r] = "drop" => tab[r] \in Clean'
    BY <1>5, <1>9, <2>2 DEF Inv, SessionInv, leasing
  <2> QED
    BY <1>2, <1>6, <1>8, <2>1, <2>3, SessionsKept
<1>12. PoolInv'
  <2>1. Agrees(store'.tabs, store'.leases, Clean', inUse')
    BY <1>3, <1>4, <1>7, <1>9 DEF Agrees
  <2>2. Grouped(store, page, inUse)'
    BY <1>2, <1>3, <1>4, <1>7 DEF Grouped
  <2> QED
    BY <2>1, <2>2 DEF PoolInv
<1>13. OpInv'
  BY <1>2 DEF OpInv
<1>14. ListenInv'
  <2>1. \A g : TabsIn(g)' = TabsIn(g)
    BY <1>2 DEF TabsIn
  <2> QED
    BY <1>2, <1>3, <1>4, <2>1 DEF Inv, ListenInv
<1> QED
  BY <1>10, <1>11, <1>12, <1>13, <1>14


-----------------------------------------------------------------------------
(* initializeWorkspace.  A new tab is blank and nobody's.                  *)
LEMMA CreateKeeps ==
    ASSUME Inv, CreateTab
    PROVE  KnownInv' /\ SessionInv' /\ PoolInv' /\ OpInv' /\ ListenInv'
<1> DEFINE new == created + 1
<1>1. /\ op.at = "create" /\ created < MaxTabs /\ created' = new /\ tabs' = tabs \cup {new}
      /\ op' = [op EXCEPT !.tabs = @ \cup {new}]
      /\ UNCHANGED <<store, groupOf, page, resetting, removed, clearing, stale, pc, tab>>
  BY DEF CreateTab, listener, sessionVars
<1>2. created \in Nat /\ op \in Ops /\ groupOf \in [Tabs -> Groups \cup {None}]
  BY DEF Inv, TypeInv, TypeOK
<1>3. /\ op'.at = "create" /\ op'.stored = op.stored /\ op'.state = op.state
      /\ op'.group = op.group /\ op'.tabs = op.tabs \cup {new}
  BY <1>1, <1>2 DEF Ops
<1>4. inUse' = inUse /\ Clean' = Clean
  BY <1>1 DEF inUse, Clean
<1>5. new \in Tabs /\ new \notin 1..created /\ 1..created \subseteq 1..new
  BY <1>1, <1>2, NoneIsNoGroup DEF Tabs
<1>6. page[new] = "idle" /\ new \in Clean /\ new \notin inUse /\ new \notin tabs /\ groupOf[new] = None
  BY <1>5 DEF Inv, KnownInv, Clean
<1>7. KnownInv'
  BY <1>1, <1>2, <1>3, <1>4, <1>5 DEF Inv, KnownInv
<1>8. SessionInv'
  <2>1. NoNewUse
    BY <1>1 DEF NoNewUse
  <2> QED
    BY <1>1, <1>2, <1>4, <2>1, SessionsKept DEF Inv, SessionInv
<1>9. PoolInv'
  BY <1>1, <1>4 DEF Inv, PoolInv, Agrees, Grouped
<1>10. OpInv'
  <2>1. Agrees(op.tabs \cup {new}, op.state.leases, Clean, inUse)
    BY <1>1, <1>6 DEF Inv, OpInv, Agrees
  <2> QED
    BY <1>1, <1>3, <1>4, <1>6, <2>1 DEF Inv, OpInv
<1>11. ListenInv'
  <2>1. \A g : g # None => TabsIn(g)' = TabsIn(g)
    BY <1>1, <1>6 DEF TabsIn
  <2>2. \A g \in removed \cup clearing : g # None
    BY NoneIsNoGroup DEF Inv, TypeInv, TypeOK
  <2> QED
    BY <1>1, <1>3, <2>1, <2>2 DEF Inv, ListenInv
<1> QED
  BY <1>7, <1>8, <1>9, <1>10, <1>11

(* The new tabs join a group that is not one reported removed.             *)
LEMMA GroupKeeps ==
    ASSUME Inv, GroupTabs
    PROVE  KnownInv' /\ SessionInv' /\ PoolInv' /\ OpInv' /\ ListenInv'
<1>1. PICK g \in IF op.group = None THEN {created} ELSE {op.group} \cap {groupOf[t] : t \in tabs} :
         /\ groupOf' = [t \in Tabs |-> IF t \in op.tabs \ op.state.tabs THEN g ELSE groupOf[t]]
         /\ op' = [op EXCEPT !.at = "save", !.group = g]
  BY DEF GroupTabs
<1>2. /\ op.at = "create" /\ op.tabs \ op.state.tabs \subseteq tabs
      /\ op.group = None => listened
      /\ UNCHANGED <<store, tabs, page, resetting, created, removed, clearing, stale, pc, tab>>
  BY DEF GroupTabs, listener, sessionVars
<1>3. op \in Ops /\ created \in Nat
  BY DEF Inv, TypeInv, TypeOK
<1>4. /\ op'.at = "save" /\ op'.stored = op.stored /\ op'.state = op.state
      /\ op'.group = g /\ op'.tabs = op.tabs
  BY <1>1, <1>3 DEF Ops
<1>5. inUse' = inUse /\ Clean' = Clean
  BY <1>2 DEF inUse, Clean
<1>6. \A t \in op.tabs \ op.state.tabs : page[t] = "idle" /\ t \notin inUse
  BY <1>2 DEF Inv, OpInv
<1>7. KnownInv'
  BY <1>1, <1>2, <1>4, <1>5 DEF Inv, KnownInv
<1>8. SessionInv'
  <2>1. NoNewUse
    BY <1>2 DEF NoNewUse
  <2> QED
    BY <1>2, <1>3, <1>5, <2>1, SessionsKept DEF Inv, SessionInv
<1>9. PoolInv'
  BY <1>1, <1>2, <1>5, <1>6 DEF Inv, PoolInv, Agrees, Grouped
<1>10. OpInv'
  BY <1>1, <1>2, <1>4, <1>5 DEF Inv, OpInv
<1>11. ListenInv'
  <2> SUFFICES ASSUME PromptListener PROVE ListenInv'
    BY DEF ListenInv
  <2>1. CASE op.group = None
    BY <1>2, <2>1 DEF listened, ListenInv
  <2>2. CASE op.group # None
    <3>1. g = op.group /\ \E t \in tabs : groupOf[t] = g
      BY <1>1, <2>2
    <3>2. TabsIn(g) # {}
      BY <3>1 DEF TabsIn
    <3>3. \A h \in removed \cup clearing : h # g
      BY <3>2 DEF Inv, ListenInv
    <3>4. \A h \in clearing : FALSE
      BY <1>2, <2>2, <3>1, <3>3 DEF Inv, ListenInv
    <3>5. \A h \in removed : TabsIn(h)' = {}
      <4> SUFFICES ASSUME NEW h \in removed, NEW t \in TabsIn(h)' PROVE FALSE
        OBVIOUS
      <4>1. t \in tabs /\ groupOf'[t] = h /\ t \in Tabs
        BY <1>2 DEF TabsIn, Inv, TypeInv, TypeOK
      <4>2. groupOf[t] = h
        BY <1>1, <3>3, <4>1
      <4> QED
        BY <4>1, <4>2 DEF Inv, ListenInv, TabsIn
    <3> QED
      BY <1>2, <3>4, <3>5 DEF ListenInv
  <2> QED
    BY <2>1, <2>2
<1> QED
  BY <1>7, <1>8, <1>9, <1>10, <1>11

(* What it saves is what it read and the new tabs.                         *)
LEMMA SaveGrownKeeps ==
    ASSUME Inv, SaveGrown
    PROVE  KnownInv' /\ SessionInv' /\ PoolInv' /\ OpInv' /\ ListenInv'
<1>1. /\ op.at = "save" /\ store' = grownStore /\ op' = Free
      /\ \E threw \in BOOLEAN : Resume(op.caller, threw)
      /\ UNCHANGED <<tabs, groupOf, page, resetting, created, removed, clearing, stale, tab>>
  BY DEF SaveGrown, chromeVars, listener
<1>2. /\ store'.group = op.group /\ store'.tabs = op.tabs /\ store'.leases = op.state.leases
  BY <1>1 DEF grownStore
<1>3. \A s \in Sessions : pc'[s] = pc[s] \/ pc'[s] \in {"idle", "opened", "poll"}
  BY <1>1 DEF Resume, afterInit
<1>4. NoNewUse
  BY <1>1, <1>3 DEF NoNewUse, leasing
<1>5. inUse' \subseteq inUse /\ Clean' = Clean
  BY <1>1, <1>4, FewerUses DEF Clean
<1>6. KnownInv'
  BY <1>1, <1>2, <1>5 DEF Inv, KnownInv, Free
<1>7. SessionInv'
  BY <1>1, <1>3, <1>4, <1>5, SessionsKept DEF Inv, SessionInv, TypeInv, TypeOK
<1>8. PoolInv'
  <2>1. /\ store \in {op.state, NoStore} /\ op.state.tabs \subseteq op.tabs
        /\ op.state.group # None => op.group = op.state.group
        /\ Agrees(op.tabs, op.state.leases, Clean, inUse)
    BY <1>1 DEF Inv, OpInv
  <2>2. Grouped(store, page, inUse)
    BY DEF Inv, PoolInv
  <2>3. Grouped(store, page, inUse)'
    BY <1>1, <1>2, <1>5, <2>1, <2>2 DEF Grouped, NoStore
  <2> QED
    BY <1>1, <1>2, <1>5, <2>1, <2>3 DEF PoolInv, Agrees
<1>9. OpInv'
  BY <1>1 DEF OpInv, Free
<1>10. ListenInv'
  <2>1. \A g : TabsIn(g)' = TabsIn(g)
    BY <1>1 DEF TabsIn
  <2> QED
    BY <1>1, <1>2, <2>1 DEF Inv, ListenInv, Free
<1> QED
  BY <1>6, <1>7, <1>8, <1>9, <1>10

(* A session shows its page in its own tab, or orders its reset there, or  *)
(* a reset is shown in a tab that no page has been shown in since.         *)
LEMMA PageKeeps ==
    ASSUME Inv,
           UNCHANGED <<store, tabs, groupOf, created, op, removed, clearing, stale, tab>>,
           \A r \in Sessions : pc'[r] \in leasing <=> pc[r] \in leasing,
           page' \in [Tabs -> Pages],
           \A t \in Tabs : page'[t] = page[t] \/ page'[t] = "idle" \/ (t \in inUse /\ t \in tabs),
           Clean \ inUse \subseteq Clean',
           \A r \in Sessions :
              /\ pc'[r] \in {"settle", "touch", "held"} =>
                    tab[r] \notin resetting' /\ (tab[r] \in tabs => page'[tab[r]] = r)
              /\ pc'[r] = "drop" => tab[r] \in Clean'
    PROVE  KnownInv' /\ SessionInv' /\ PoolInv' /\ OpInv' /\ ListenInv'
<1>1. inUse' = inUse
  BY Users
<1>2. KnownInv'
  BY <1>1 DEF Inv, KnownInv
<1>3. SessionInv'
  <2>1. \A r \in Sessions : pc'[r] \in leasing => pc[r] \in leasing /\ tab[r] \in Tabs
    BY DEF Inv, SessionInv
  <2> QED
    BY <1>1, <2>1 DEF Inv, SessionInv
<1>4. \A ts, ls : Agrees(ts, ls, Clean, inUse) => Agrees(ts, ls, Clean', inUse')
  BY <1>1 DEF Agrees
<1>5. PoolInv'
  <2>1. Agrees(store.tabs, store.leases, Clean, inUse)'
    BY <1>4 DEF Inv, PoolInv
  <2>2. Grouped(store, page, inUse)'
    BY <1>1 DEF Inv, PoolInv, Grouped
  <2> QED
    BY <2>1, <2>2 DEF PoolInv
<1>6. OpInv'
  <2>1. op.tabs \subseteq Tabs
    BY DEF Inv, TypeInv, Ops
  <2> QED
    BY <1>1, <1>4, <2>1 DEF Inv, OpInv
<1>7. ListenInv'
  <2>1. \A g : TabsIn(g)' = TabsIn(g)
    BY DEF TabsIn
  <2> QED
    BY <2>1 DEF Inv, ListenInv
<1> QED
  BY <1>2, <1>3, <1>5, <1>6, <1>7

LEMMA NavigateKeeps ==
    ASSUME Inv, NEW s \in Sessions, pc[s] = "navigate", tab[s] \in tabs,
           page' = [page EXCEPT ![tab[s]] = s], resetting' = resetting \ {tab[s]},
           Go(s, "settle"),
           UNCHANGED <<store, tabs, groupOf, created, op, removed, clearing, stale, tab>>
    PROVE  KnownInv' /\ SessionInv' /\ PoolInv' /\ OpInv' /\ ListenInv'
<1>1. pc'[s] = "settle" /\ \A r \in Sessions \ {s} : pc'[r] = pc[r]
  BY Goes
<1>2. tab[s] \in Tabs /\ tab[s] \in inUse /\ page \in [Tabs -> Pages]
  BY Users DEF Inv, SessionInv, TypeInv, TypeOK, Pages, leasing
<1>3. /\ page' \in [Tabs -> Pages] /\ page'[tab[s]] = s
      /\ \A t \in Tabs \ {tab[s]} : page'[t] = page[t]
  BY <1>2 DEF Pages
<1>4. Clean \ {tab[s]} \subseteq Clean'
  BY <1>3 DEF Clean
<1>5. \A r \in Sessions \ {s} : pc[r] \in leasing => tab[r] \in Tabs \ {tab[s]}
  BY DEF Inv, SessionInv, leasing
<1>6. \A r \in Sessions :
         /\ pc'[r] \in {"settle", "touch", "held"} =>
               tab[r] \notin resetting' /\ (tab[r] \in tabs => page'[tab[r]] = r)
         /\ pc'[r] = "drop" => tab[r] \in Clean'
  BY <1>1, <1>3, <1>4, <1>5 DEF Inv, SessionInv, leasing
<1> QED
  BY <1>1, <1>2, <1>3, <1>4, <1>6, PageKeeps DEF leasing

LEMMA ResetKeeps ==
    ASSUME Inv, NEW s \in Sessions, pc[s] = "reset", page' = page, reset({tab[s]}),
           Go(s, "drop"),
           UNCHANGED <<store, tabs, groupOf, created, op, removed, clearing, stale, tab>>
    PROVE  KnownInv' /\ SessionInv' /\ PoolInv' /\ OpInv' /\ ListenInv'
<1>1. pc'[s] = "drop" /\ \A r \in Sessions \ {s} : pc'[r] = pc[r]
  BY Goes
<1>2. tab[s] \in Tabs /\ page \in [Tabs -> Pages]
  BY DEF Inv, SessionInv, TypeInv, TypeOK, Pages, leasing
<1>3. Clean' = Clean \cup {tab[s]} /\ resetting' \subseteq resetting \cup {tab[s]}
  BY <1>2, ResetFacts
<1>4. \A r \in Sessions \ {s} : pc[r] \in leasing => tab[r] # tab[s]
  BY DEF Inv, SessionInv, leasing
<1>5. \A r \in Sessions :
         /\ pc'[r] \in {"settle", "touch", "held"} =>
               tab[r] \notin resetting' /\ (tab[r] \in tabs => page'[tab[r]] = r)
         /\ pc'[r] = "drop" => tab[r] \in Clean'
  BY <1>1, <1>3, <1>4 DEF Inv, SessionInv, leasing
<1> QED
  BY <1>1, <1>2, <1>3, <1>5, PageKeeps DEF leasing

LEMMA CommitKeeps ==
    ASSUME Inv, ResetCommits
    PROVE  KnownInv' /\ SessionInv' /\ PoolInv' /\ OpInv' /\ ListenInv'
<1>1. PICK t \in resetting :
         page' = [page EXCEPT ![t] = "idle"] /\ resetting' = resetting \ {t}
  BY DEF ResetCommits
<1>2. /\ UNCHANGED <<store, tabs, groupOf, created, op, removed, clearing, stale>>
      /\ UNCHANGED <<pc, tab>>
  BY DEF ResetCommits, listener, sessionVars
<1>3. t \in Tabs /\ page \in [Tabs -> Pages]
  BY DEF Inv, TypeInv, TypeOK, Pages
<1>4. /\ page' \in [Tabs -> Pages] /\ page'[t] = "idle"
      /\ \A u \in Tabs \ {t} : page'[u] = page[u]
  BY <1>1, <1>3 DEF Pages
<1>5. Clean \subseteq Clean'
  BY <1>1, <1>4 DEF Clean
<1>6. \A r \in Sessions :
         /\ pc[r] \in {"settle", "touch", "held"} =>
               tab[r] \notin resetting' /\ (tab[r] \in tabs => page'[tab[r]] = r)
         /\ pc[r] = "drop" => tab[r] \in Clean'
  <2>1. \A r \in Sessions : pc[r] \in {"settle", "touch", "held"} => tab[r] \in Tabs \ {t}
    BY <1>1 DEF Inv, SessionInv, leasing
  <2> QED
    BY <1>1, <1>4, <1>5, <2>1 DEF Inv, SessionInv
<1> QED
  BY <1>2, <1>4, <1>5, <1>6, PageKeeps


-----------------------------------------------------------------------------
(* The user takes a tab: it leaves its group and, if closed, is blank.     *)
LEMMA UserKeeps ==
    ASSUME Inv, UserTakes
    PROVE  KnownInv' /\ SessionInv' /\ PoolInv' /\ OpInv' /\ ListenInv'
<1>1. PICK t \in tabs :
         /\ \/ /\ tabs' = tabs \ {t} /\ page' = [page EXCEPT ![t] = "idle"]
               /\ resetting' = resetting \ {t}
            \/ groupOf[t] # None /\ UNCHANGED <<tabs, page, resetting>>
         /\ groupOf' = [groupOf EXCEPT ![t] = None]
         /\ removed' = removed \cup {g \in {groupOf[t]} \ {None} : TabsIn(g) = {t}}
  BY DEF UserTakes
<1>2. UNCHANGED <<store, created, op, clearing, stale, pc, tab>>
  BY DEF UserTakes, sessionVars
<1>3. /\ tabs \subseteq Tabs /\ page \in [Tabs -> Pages] /\ created \in Nat
      /\ groupOf \in [Tabs -> Groups \cup {None}]
  BY DEF Inv, TypeInv, TypeOK, Pages
<1>4. /\ tabs' \subseteq tabs /\ t \in Tabs
      /\ groupOf'[t] = None /\ \A u \in Tabs \ {t} : groupOf'[u] = groupOf[u]
      /\ \A u \in Tabs : page'[u] = page[u] \/ page'[u] = "idle"
      /\ \A u \in tabs' : page'[u] = page[u]
      /\ \A u \in tabs : (u = t /\ page'[u] = "idle") \/ u \in tabs'
      /\ resetting' \subseteq resetting
  BY <1>1, <1>3
<1>5. inUse' = inUse
  BY <1>2 DEF inUse
<1>11. Clean \subseteq Clean'
  BY <1>1, <1>3, <1>4 DEF Clean
<1>6. KnownInv'
  BY <1>2, <1>3, <1>4, <1>5 DEF Inv, KnownInv
<1>7. SessionInv'
  BY <1>2, <1>4, <1>5, <1>11 DEF Inv, SessionInv, leasing
<1>8. PoolInv'
  <2>1. store \in Stores
    BY DEF Inv, TypeInv, TypeOK
  <2>2. Agrees(store.tabs, store.leases, Clean, inUse)'
    BY <1>2, <1>5, <1>11, <2>1 DEF Inv, PoolInv, Agrees, Stores
  <2>3. Grouped(store, page, inUse)'
    BY <1>2, <1>4, <1>5 DEF Inv, PoolInv, Grouped
  <2> QED
    BY <2>2, <2>3 DEF PoolInv
<1>9. OpInv'
  <2>1. op.tabs \subseteq Tabs
    BY DEF Inv, TypeInv, Ops
  <2> QED
    BY <1>2, <1>4, <1>5, <1>11, <2>1 DEF Inv, OpInv, Agrees
<1>10. ListenInv'
  <2>1. \A g : g # None => TabsIn(g)' \subseteq TabsIn(g) \ {t}
    BY <1>3, <1>4 DEF TabsIn
  <2>2. \A g \in removed \cup clearing : g # None
    BY NoneIsNoGroup DEF Inv, TypeInv, TypeOK
  <2>3. \A g \in removed' : g # None /\ (g \in removed \/ TabsIn(g) = {t})
    BY <1>1, <2>2
  <2> QED
    BY <1>2, <2>1, <2>2, <2>3 DEF Inv, ListenInv
<1> QED
  BY <1>6, <1>7, <1>8, <1>9, <1>10

(* The listener finds its group in the store; then an initialization that  *)
(* holds the queue works on that group too.                                *)
LEMMA ListenKeeps ==
    ASSUME Inv, RemovedListens
    PROVE  KnownInv' /\ SessionInv' /\ PoolInv' /\ OpInv' /\ ListenInv'
<1>1. PICK g \in removed :
         /\ removed' = removed \ {g}
         /\ clearing' = IF store.group = g THEN clearing \cup {g} ELSE clearing
  BY DEF RemovedListens
<1>2. UNCHANGED <<store, tabs, groupOf, page, resetting, created, op, stale, pc, tab>>
  BY DEF RemovedListens, chromeVars, sessionVars
<1>3. inUse' = inUse /\ Clean' = Clean
  BY <1>2 DEF inUse, Clean
<1>4. KnownInv' /\ SessionInv' /\ PoolInv' /\ OpInv'
  BY <1>2, <1>3 DEF Inv, KnownInv, SessionInv, PoolInv, OpInv, Agrees, Grouped
<1>5. ListenInv'
  <2> SUFFICES ASSUME PromptListener PROVE ListenInv'
    BY DEF ListenInv
  <2>1. \A h : TabsIn(h)' = TabsIn(h)
    BY <1>2 DEF TabsIn
  <2>2. CASE store.group # g
    BY <1>1, <1>2, <2>1, <2>2 DEF Inv, ListenInv
  <2>3. CASE store.group = g
    <3>1. g # None
      BY NoneIsNoGroup DEF Inv, TypeInv, TypeOK
    <3>2. op.at # "free" => op.group = g
      BY <2>3, <3>1 DEF Inv, OpInv, NoStore
    <3> QED
      BY <1>1, <1>2, <2>1, <2>3, <3>2 DEF Inv, ListenInv
  <2> QED
    BY <2>2, <2>3
<1> QED
  BY <1>4, <1>5

(* When it clears the store, nothing in use is in any group.               *)
LEMMA ClearKeeps ==
    ASSUME PromptListener, Inv, RemovedClears
    PROVE  KnownInv' /\ SessionInv' /\ PoolInv' /\ OpInv' /\ ListenInv'
<1>1. PICK g \in clearing : clearing' = clearing \ {g}
  BY DEF RemovedClears
<1>2. /\ store' = NoStore /\ stale' = {}
      /\ UNCHANGED <<tabs, groupOf, page, resetting, created, op, removed, pc, tab>>
  BY DEF RemovedClears, chromeVars, sessionVars
<1>3. inUse' = inUse /\ Clean' = Clean
  BY <1>2 DEF inUse, Clean
<1>4. KnownInv' /\ SessionInv'
  BY <1>2, <1>3 DEF Inv, KnownInv, SessionInv, NoStore
<1>5. TabsIn(g) = {} /\ store.group \in {g, None}
  BY DEF Inv, ListenInv
<1>6. \A t \in Tabs : groupOf[t] # None => page[t] = "idle" /\ t \notin inUse
  BY <1>5 DEF Inv, PoolInv, Grouped, KnownInv, TabsIn
<1>7. PoolInv'
  BY <1>2, <1>3, <1>6 DEF PoolInv, Agrees, Grouped, NoStore
<1>8. OpInv'
  BY <1>2, <1>3 DEF Inv, OpInv
<1>9. ListenInv'
  <2>1. \A h : TabsIn(h)' = TabsIn(h)
    BY <1>2 DEF TabsIn
  <2> QED
    BY <1>1, <1>2, <2>1 DEF Inv, ListenInv, NoStore
<1> QED
  BY <1>4, <1>7, <1>8, <1>9


-----------------------------------------------------------------------------
(***************************************************************************)
(* Types.                                                                  *)
(***************************************************************************)
(* The sizing functions never go below the stored target, nor above Max.   *)
LEMMA TargetsAreBounded ==
    ASSUME NEW size \in Nat, NEW request \in Nat, NEW stored \in Default..Max
    PROVE  /\ effectiveTarget(request, stored, size) \in stored..Max
           /\ nextAutoGrowTarget(size, stored) \in stored..Max
BY ChromeWorkspaceAssumption DEF effectiveTarget, nextAutoGrowTarget, Larger, Smaller

Places == {"idle", "held"} \cup opening

PoolTypes ==
    /\ store \in Stores /\ store.leases \subseteq store.tabs
    /\ target \in Default..Max
    /\ tabs \subseteq Tabs /\ groupOf \in [Tabs -> Groups \cup {None}]
    /\ page \in [Tabs -> Pages] /\ resetting \subseteq tabs
    /\ focused \in BOOLEAN /\ created \in 0..MaxTabs
    /\ op \in Ops /\ upsets \in 0..MaxUpsets
    /\ removed \subseteq Groups /\ clearing \subseteq Groups /\ stale \subseteq Tabs

SessionTypes ==
    /\ pc \in [Sessions -> Places] /\ tab \in [Sessions -> Tabs \cup {None}]
    /\ seen \in [Sessions -> 0..Max] /\ cur \in [Sessions -> 0..MaxTabs]
    /\ \A s \in Sessions : pc[s] = "pressureSave" => seen[s] \in Default..Max

LEMMA TypeParts == (TypeInv <=> PoolTypes /\ SessionTypes) /\ (TypeInv' <=> (PoolTypes /\ SessionTypes)')
BY DEF TypeInv, TypeOK, PoolTypes, SessionTypes, Pages, Places, Ops

(* A session moves on, with or without a tab.                              *)
LEMMA MoveTyped ==
    ASSUME Inv, NEW s \in Sessions, NEW at \in Places, Go(s, at),
           at # "pressureSave", seen' = seen,
           tab' \in [Sessions -> Tabs \cup {None}], cur' \in [Sessions -> 0..MaxTabs]
    PROVE  SessionTypes'
<1>1. SessionTypes
  BY TypeParts DEF Inv
<1>2. pc' \in [Sessions -> Places] /\ pc'[s] = at /\ \A r \in Sessions \ {s} : pc'[r] = pc[r]
  BY <1>1, Goes DEF Go, SessionTypes
<1> QED
  BY <1>1, <1>2 DEF SessionTypes

(* What is reconciled is of the right type.                                *)
LEMMA SaveTyped ==
    ASSUME Inv, NEW b \in BOOLEAN, NEW R \in reconciled(b),
           store' \in Stores, store'.leases \subseteq store'.tabs,
           resetting' \subseteq tabs, stale' \subseteq stale, op' \in Ops,
           UNCHANGED <<target, tabs, groupOf, page, focused, created, listener, upsets>>
    PROVE  PoolTypes'
BY TypeParts DEF Inv, PoolTypes, listener

LEMMA SaveIsTyped ==
    ASSUME Inv, NEW R \in reconciled(TRUE), Save(R), op' \in Ops
    PROVE  PoolTypes'
<1>1. R.store \in Stores /\ R.store.leases \subseteq R.store.tabs /\ R.reset \subseteq Tabs
  BY ReconcileFacts
<1>2. resetting' \subseteq tabs
  BY <1>1, ResetFacts DEF Save
<1> QED
  BY <1>1, <1>2, SaveTyped DEF Save

LEMMA BeginTyped ==
    ASSUME Inv, NEW R \in reconciled(TRUE), NEW caller \in Callers, NEW request \in Nat,
           BeginInit(R, caller, request)
    PROVE  PoolTypes' /\ SessionTypes'
<1>1. R.store \in Stores /\ PoolTypes /\ SessionTypes
  BY ReconcileFacts, TypeParts DEF Inv
<1>2. targetReads \subseteq 0..Max
  BY <1>1, ChromeWorkspaceAssumption DEF PoolTypes, targetReads
<1>3. op' \in Ops
  <2>1. R.store.group \in Groups \cup {None} /\ R.store.tabs \in SUBSET Tabs
    BY <1>1 DEF Stores
  <2> QED
    BY <1>1, <1>2, <2>1 DEF BeginInit, Ops
<1>4. PoolTypes'
  BY <1>3, SaveIsTyped DEF BeginInit
<1> QED
  BY <1>1, <1>4 DEF BeginInit, sessionVars, SessionTypes

LEMMA InitStepTyped ==
    ASSUME Inv, InitStep
    PROVE  PoolTypes' /\ SessionTypes'
<1>1. PoolTypes /\ SessionTypes
  BY TypeParts DEF Inv
<1>2. Free \in Ops
  BY NoneIsNoGroup, ChromeWorkspaceAssumption DEF Free, Ops, Callers, NoStore, Stores
<1>3. ASSUME NEW threw \in BOOLEAN, Resume(op.caller, threw), UNCHANGED <<tab, seen, cur>>
      PROVE  SessionTypes'
  <2>1. /\ pc' \in [Sessions -> Places]
        /\ \A s \in Sessions : pc'[s] = pc[s] \/ pc'[s] \in {"idle", "opened", "poll"}
    BY <1>1, <1>3 DEF Resume, afterInit, SessionTypes, Places, opening
  <2> QED
    BY <1>1, <1>3, <2>1 DEF SessionTypes
<1>4. CASE SaveTarget
  <2> DEFINE size == Cardinality(op.state.tabs)
             goal == effectiveTarget(op.request, op.stored, size)
  <2>1. /\ op.at = "target" /\ target' = IF goal # op.stored THEN goal ELSE target
        /\ \/ op' = Free /\ Resume(op.caller, FALSE)
           \/ op' = [op EXCEPT !.at = "create", !.goal = goal] /\ UNCHANGED pc
        /\ UNCHANGED <<store, chromeVars, listener, upsets, stale, tab, seen, cur>>
    BY <1>4 DEF SaveTarget
  <2>2. op.state.tabs \subseteq Tabs /\ op.request \in Nat
    BY <1>1 DEF PoolTypes, Ops, Stores
  <2>3. size \in Nat /\ op.stored \in Default..Max
    BY <2>1, <2>2, SizesAreBounded DEF Inv, OpInv
  <2>4. goal \in op.stored..Max
    BY <2>2, <2>3, TargetsAreBounded
  <2>5. goal \in Nat /\ goal \in Default..Max
    BY <2>3, <2>4, ChromeWorkspaceAssumption
  <2>6. target' \in Default..Max /\ op' \in Ops
    BY <1>1, <1>2, <2>1, <2>5 DEF PoolTypes, Ops
  <2>7. PoolTypes'
    BY <1>1, <2>1, <2>6 DEF PoolTypes, chromeVars, listener
  <2>8. SessionTypes'
    BY <1>1, <1>3, <2>1 DEF SessionTypes
  <2> QED
    BY <2>7, <2>8
<1>5. CASE CreateTab
  <2>1. created + 1 \in Tabs /\ created + 1 \in 0..MaxTabs
    BY <1>1, <1>5, NoneIsNoGroup DEF CreateTab, PoolTypes, Tabs
  <2>2. op' \in Ops
    BY <1>1, <1>5, <2>1 DEF CreateTab, PoolTypes, Ops
  <2> QED
    BY <1>1, <1>5, <2>1, <2>2 DEF CreateTab, PoolTypes, SessionTypes, listener, sessionVars
<1>6. CASE GroupTabs
  <2>1. PICK g \in IF op.group = None THEN {created}
                   ELSE {op.group} \cap {groupOf[t] : t \in tabs} :
           /\ groupOf' = [t \in Tabs |-> IF t \in op.tabs \ op.state.tabs THEN g ELSE groupOf[t]]
           /\ op' = [op EXCEPT !.at = "save", !.group = g]
    BY <1>6 DEF GroupTabs
  <2>2. g \in Groups \cup {None}
    BY <1>1, <2>1, NoneIsNoGroup DEF PoolTypes, Ops, Groups, None
  <2>3. groupOf' \in [Tabs -> Groups \cup {None}] /\ op' \in Ops
    BY <1>1, <2>1, <2>2 DEF PoolTypes, Ops
  <2> QED
    BY <1>1, <1>6, <2>3 DEF GroupTabs, PoolTypes, SessionTypes, listener, sessionVars
<1>7. CASE SaveGrown
  <2>1. grownStore \in Stores /\ grownStore.leases \subseteq grownStore.tabs
    BY <1>1, <1>7 DEF SaveGrown, grownStore, PoolTypes, Ops, Stores, Inv, OpInv
  <2>2. PoolTypes'
    BY <1>1, <1>2, <1>7, <2>1 DEF SaveGrown, PoolTypes, chromeVars, listener
  <2> QED
    BY <1>3, <1>7, <2>2 DEF SaveGrown
<1>8. CASE InitThrows
  <2>1. PoolTypes'
    BY <1>1, <1>2, <1>8 DEF InitThrows, released, PoolTypes, chromeVars, listener
  <2> QED
    BY <1>3, <1>8, <2>1 DEF InitThrows
<1> QED
  BY <1>4, <1>5, <1>6, <1>7, <1>8 DEF InitStep


-----------------------------------------------------------------------------
(***************************************************************************)
(* Every step keeps the invariant.                                         *)
(***************************************************************************)
Rest == KnownInv /\ SessionInv /\ PoolInv /\ OpInv /\ ListenInv

(* The steps of an open before it has a tab that save what they reconcile. *)
LEMMA SaveAndGo ==
    ASSUME Inv, NEW s \in Sessions, NEW R \in reconciled(TRUE), Save(R), queueFree,
           NEW at \in Places \ leasing, Go(s, at), at # "pressureSave", op' = op,
           UNCHANGED <<tab, seen, cur>>
    PROVE  PoolTypes' /\ SessionTypes' /\ Rest'
<1>1. pc'[s] = at /\ \A r \in Sessions \ {s} : pc'[r] = pc[r]
  BY Goes
<1>2. NoNewUse
  BY <1>1 DEF NoNewUse
<1>3. Rest'
  BY <1>1, <1>2, SaveKeeps DEF Rest, Save, queueFree, listener, leasing
<1>4. PoolTypes /\ SessionTypes
  BY TypeParts DEF Inv
<1>5. PoolTypes'
  BY <1>4, SaveIsTyped DEF PoolTypes
<1> QED
  BY <1>3, <1>4, <1>5, MoveTyped DEF SessionTypes

(* Those that only move, before they have a tab or after they have lost it.*)
LEMMA JustGo ==
    ASSUME Inv, NEW s \in Sessions, NEW at \in Places, Go(s, at),
           at \in {"settle", "touch", "held", "drop"} => pc[s] = "settle" /\ at = "touch",
           at \in leasing => pc[s] \in leasing,
           UNCHANGED <<store, tabs, groupOf, page, resetting, created, op>>,
           UNCHANGED <<removed, clearing, stale, tab>>
    PROVE  Rest'
<1>1. pc'[s] = at /\ \A r \in Sessions \ {s} : pc'[r] = pc[r]
  BY Goes
<1>2. NoNewUse
  BY <1>1 DEF NoNewUse
<1>3. stale' \cap inUse = {}
  BY DEF Inv, SessionInv
<1> QED
  BY <1>1, <1>2, <1>3, QuietKeeps DEF Rest

LEMMA ReleaseTyped ==
    ASSUME Inv, NEW s \in Sessions, NEW resetUrl \in BOOLEAN, Release(s, resetUrl, "idle"),
           pc[s] \in leasing
    PROVE  PoolTypes' /\ SessionTypes'
<1>1. PoolTypes /\ SessionTypes
  BY TypeParts DEF Inv
<1>2. PICK R \in reconciled(FALSE) :
         /\ store' = [R.store EXCEPT !.leases = @ \ {tab[s]}]
         /\ stale' = (stale \cap R.store.leases) \ {tab[s]}
         /\ reset(IF resetUrl THEN {tab[s]} \cap R.store.tabs ELSE {})
  BY DEF Release
<1>3. /\ Go(s, "idle") /\ tab' = [tab EXCEPT ![s] = None]
      /\ UNCHANGED <<target, tabs, groupOf, page, focused, created, op, listener, upsets, seen, cur>>
  BY DEF Release
<1>4. R.store \in Stores /\ R.store.leases \subseteq R.store.tabs
  BY ReconcileFacts
<1>5. /\ store' \in Stores /\ store'.leases \subseteq store'.tabs /\ stale' \subseteq stale
      /\ tab' \in [Sessions -> Tabs \cup {None}]
  BY <1>1, <1>2, <1>3, <1>4 DEF PoolTypes, SessionTypes, Stores
<1>7. resetting' \subseteq tabs
  <2> DEFINE T == IF resetUrl THEN {tab[s]} \cap R.store.tabs ELSE {}
  <2>1. T \in SUBSET Tabs
    BY <1>4 DEF Stores
  <2> QED
    BY <1>2, <1>3, <2>1, ResetFacts
<1>6. PoolTypes'
  BY <1>1, <1>3, <1>5, <1>7, SaveTyped DEF PoolTypes
<1> QED
  BY <1>1, <1>3, <1>5, <1>6, MoveTyped DEF SessionTypes, Places

(* What is read of the target is a target.                                 *)
LEMMA ReadsAreTargets ==
    ASSUME Inv
    PROVE  targetReads \subseteq Default..Max
BY ChromeWorkspaceAssumption DEF Inv, TypeInv, TypeOK, targetReads

LEMMA BeginKeeps ==
    ASSUME Inv, NEW R \in reconciled(TRUE), NEW caller, NEW request,
           BeginInit(R, caller, request)
    PROVE  Rest'
<1>1. NoNewUse
  BY DEF BeginInit, sessionVars, NoNewUse
<1>2. PICK stored \in targetReads :
         op' = [at |-> "target", caller |-> caller, request |-> request,
                stored |-> stored, goal |-> 0,
                state |-> R.store, group |-> R.store.group, tabs |-> R.store.tabs]
  BY DEF BeginInit
<1>3. /\ op'.stored \in Default..Max /\ op'.state = R.store
      /\ op'.group = R.store.group /\ op'.tabs = R.store.tabs
  BY <1>2, ReadsAreTargets
<1> QED
  BY <1>1, <1>3, SaveKeeps DEF Rest, BeginInit, Save, queueFree, listener, sessionVars

LEMMA OpenKeeps ==
    ASSUME Inv, NEW s \in Sessions, Open(s) \/ OpenStep(s)
    PROVE  PoolTypes' /\ SessionTypes' /\ Rest'
<1>1. PoolTypes /\ SessionTypes
  BY TypeParts DEF Inv
<1> USE DEF Places, opening, leasing
<1>2. CASE Open(s)
  BY <1>1, <1>2, JustGo, MoveTyped DEF Open, chromeVars, listener, PoolTypes, SessionTypes
<1>3. CASE Ensure(s)
  <2>1. PICK R \in reconciled(TRUE) : Save(R)
    BY <1>3 DEF Ensure, Reconcile
  <2>2. Go(s, "init") \/ Go(s, "reserve")
    BY <1>3 DEF Ensure
  <2> QED
    BY <1>3, <2>1, <2>2, SaveAndGo DEF Ensure, Reconcile
<1>4. CASE OpenerInit(s)
  <2>1. PICK R \in reconciled(TRUE), size \in targetReads : BeginInit(R, s, size)
    BY <1>4 DEF OpenerInit
  <2>2. size \in Nat
    BY <1>1, ReadsAreTargets, ChromeWorkspaceAssumption
  <2>4. Rest'
    BY <2>1, BeginKeeps
  <2> QED
    BY <2>1, <2>2, <2>4, BeginTyped DEF Callers
<1>5. CASE OpenerSkipsInit(s)
  <2>1. PICK R \in reconciled(TRUE) : Save(R)
    BY <1>5 DEF OpenerSkipsInit
  <2>2. Go(s, "idle") \/ Go(s, "reserve") \/ Go(s, "poll")
    BY <1>5 DEF OpenerSkipsInit, orMissing
  <2> QED
    BY <1>5, <2>1, <2>2, SaveAndGo DEF OpenerSkipsInit
<1>6. CASE Opened(s)
  <2>1. PICK R \in reconciled(TRUE) : Save(R)
    BY <1>6 DEF Opened, Reconcile
  <2>2. Go(s, "idle") \/ Go(s, "reserve")
    BY <1>6 DEF Opened, orMissing
  <2> QED
    BY <1>6, <2>1, <2>2, SaveAndGo DEF Opened, Reconcile
<1>7. CASE Reserve(s)
  <2>1. PICK R \in reconciled(TRUE) :
           /\ reset(R.reset)
           /\ \/ \E t \in freeTabs(R.store) :
                   /\ store' = [R.store EXCEPT !.leases = @ \cup {t}]
                   /\ stale' = (stale \cap R.store.leases) \ {t}
                   /\ tab' = [tab EXCEPT ![s] = t]
                   /\ Go(s, "navigate")
                   /\ UNCHANGED cur
              \/ /\ store' = R.store
                 /\ stale' = stale \cap R.store.leases
                 /\ cur' = [cur EXCEPT ![s] = IF pc[s] = "poll" THEN 0
                                              ELSE Cardinality(R.store.tabs)]
                 /\ Go(s, IF pc[s] = "reserve" THEN "pressure" ELSE "poll")
                 /\ UNCHANGED tab
    BY <1>7 DEF Reserve
  <2>2. UNCHANGED <<target, tabs, groupOf, page, focused, created, op, listener, upsets, seen>>
    BY <1>7 DEF Reserve
  <2>3. /\ R.store \in Stores /\ R.store.leases \subseteq R.store.tabs /\ R.reset \subseteq Tabs
    BY ReconcileFacts
  <2>4. R.store.tabs \subseteq Tabs /\ Cardinality(R.store.tabs) \in 0..MaxTabs /\ 0 \in 0..MaxTabs
    BY <2>3, SizesAreBounded, NoneIsNoGroup DEF Stores
  <2>5. /\ store' \in Stores /\ store'.leases \subseteq store'.tabs
        /\ tab' \in [Sessions -> Tabs \cup {None}] /\ cur' \in [Sessions -> 0..MaxTabs]
        /\ stale' \subseteq stale
        /\ Go(s, "navigate") \/ Go(s, "pressure") \/ Go(s, "poll")
    BY <1>1, <2>1, <2>3, <2>4 DEF Stores, freeTabs, SessionTypes
  <2>6. PoolTypes'
    <3>1. resetting' \subseteq tabs
      BY <2>1, <2>2, <2>3, ResetFacts
    <3> QED
      BY <1>1, <2>2, <2>5, <3>1, SaveTyped DEF PoolTypes
  <2>7. SessionTypes'
    BY <2>2, <2>5, MoveTyped
  <2> QED
    BY <1>7, <2>6, <2>7, ReserveKeeps DEF Rest
<1>8. CASE PressureLoad(s)
  <2>1. /\ pc'[s] = "pressureSave" /\ \A r \in Sessions \ {s} : pc'[r] = pc[r]
        /\ pc' \in [Sessions -> Places]
    BY <1>1, <1>8, Goes DEF PressureLoad, Go, SessionTypes
  <2>2. PICK size \in targetReads : seen' = [seen EXCEPT ![s] = size]
    BY <1>8 DEF PressureLoad
  <2>5. size \in Default..Max /\ size \in 0..Max
    BY ReadsAreTargets, ChromeWorkspaceAssumption
  <2>3. SessionTypes'
    BY <1>1, <1>8, <2>1, <2>2, <2>5 DEF PressureLoad, SessionTypes
  <2>4. Rest'
    BY <1>8, JustGo DEF PressureLoad, chromeVars, listener
  <2> QED
    BY <1>1, <1>8, <2>3, <2>4 DEF PressureLoad, chromeVars, listener, PoolTypes
<1>9. CASE PressureSave(s)
  <2> DEFINE goal == nextAutoGrowTarget(cur[s], seen[s])
  <2>1. /\ pc[s] = "pressureSave" /\ target' = IF goal > seen[s] THEN goal ELSE target
        /\ seen' = [seen EXCEPT ![s] = 0] /\ cur' = [cur EXCEPT ![s] = 0]
        /\ Go(s, "grow") \/ Go(s, "poll")
        /\ UNCHANGED <<store, chromeVars, op, listener, upsets, stale, tab>>
    BY <1>9 DEF PressureSave
  <2>2. seen[s] \in Default..Max /\ cur[s] \in Nat
    BY <1>1, <2>1 DEF SessionTypes
  <2>3. goal \in Default..Max
    <3>1. goal \in seen[s]..Max
      BY <2>2, TargetsAreBounded
    <3> QED
      BY <2>2, <3>1, ChromeWorkspaceAssumption
  <2>4. PoolTypes'
    BY <1>1, <2>1, <2>3 DEF PoolTypes, chromeVars, listener
  <2>5. /\ pc'[s] \in {"grow", "poll"} /\ \A r \in Sessions \ {s} : pc'[r] = pc[r]
        /\ pc' \in [Sessions -> Places]
    BY <1>1, <2>1, Goes DEF Go, SessionTypes
  <2>6. 0 \in 0..Max /\ 0 \in 0..MaxTabs
    BY ChromeWorkspaceAssumption
  <2>7. SessionTypes'
    BY <1>1, <2>1, <2>5, <2>6 DEF SessionTypes
  <2>8. Rest'
    BY <2>1, JustGo DEF chromeVars, listener
  <2> QED
    BY <2>4, <2>7, <2>8
<1>10. CASE GiveUp(s)
  BY <1>1, <1>10, JustGo, MoveTyped DEF GiveUp, chromeVars, listener, PoolTypes, SessionTypes
<1>11. CASE Navigate(s)
  <2>1. /\ pc[s] = "navigate"
        /\ UNCHANGED <<store, target, tabs, groupOf, focused, created, op, listener, upsets,
                       stale, tab, seen, cur>>
        /\ \/ /\ tab[s] \in tabs
              /\ page' = [page EXCEPT ![tab[s]] = s] /\ resetting' = resetting \ {tab[s]}
              /\ Go(s, "settle")
           \/ Go(s, "reset") /\ UNCHANGED <<page, resetting>>
    BY <1>11 DEF Navigate, cleanup
  <2>2. PoolTypes' /\ SessionTypes'
    BY <1>1, <2>1, MoveTyped DEF listener, PoolTypes, SessionTypes, Pages
  <2>3. Rest'
    BY <2>1, JustGo, NavigateKeeps DEF Rest, listener
  <2> QED
    BY <2>2, <2>3
<1>12. CASE Settle(s)
  <2>1. /\ pc[s] = "settle" /\ (Go(s, "touch") \/ Go(s, "reset"))
        /\ UNCHANGED <<store, target, chromeVars, op, listener, upsets, stale, tab, seen, cur>>
    BY <1>12 DEF Settle, cleanup
  <2> QED
    BY <1>1, <1>12, <2>1, JustGo, MoveTyped
       DEF Settle, chromeVars, listener, PoolTypes, SessionTypes
<1>13. CASE Touch(s)
  <2>1. PICK R \in reconciled(FALSE) :
           store' = R.store /\ stale' = (stale \cap R.store.leases) \ {tab[s]}
    BY <1>13 DEF Touch
  <2>2. /\ pc[s] = "touch" /\ op.at = "free" /\ Go(s, "held")
        /\ UNCHANGED <<target, tabs, groupOf, page, resetting, focused, created>>
        /\ UNCHANGED <<op, listener, upsets, tab, seen, cur>>
    BY <1>13 DEF Touch, queueFree, chromeVars
  <2>3. pc'[s] = "held" /\ \A r \in Sessions \ {s} : pc'[r] = pc[r]
    BY <2>2, Goes
  <2>4. NoNewUse
    BY <2>2, <2>3 DEF NoNewUse
  <2>7. R.reset = {}
    BY ResetsNone
  <2>5. Rest'
    BY <2>1, <2>2, <2>3, <2>4, <2>7, SaveKeeps DEF Rest, listener
  <2>6. PoolTypes'
    BY <1>1, <2>1, <2>2, ReconcileFacts, SaveTyped DEF PoolTypes
  <2> QED
    BY <1>1, <2>2, <2>5, <2>6, MoveTyped DEF SessionTypes
<1>14. CASE Reset(s)
  <2>1. /\ pc[s] = "reset" /\ reset({tab[s]}) /\ Go(s, "drop")
        /\ UNCHANGED <<store, target, tabs, groupOf, page, focused, created, op, listener, upsets,
                       stale, tab, seen, cur>>
    BY <1>14 DEF Reset, cleanup
  <2>4. {tab[s]} \subseteq Tabs
    BY <2>1 DEF Inv, SessionInv
  <2>5. resetting' \subseteq tabs
    BY <2>1, <2>4, ResetFacts
  <2>2. PoolTypes' /\ SessionTypes'
    BY <1>1, <2>1, <2>5, MoveTyped DEF listener, PoolTypes, SessionTypes
  <2>3. Rest'
    BY <2>1, ResetKeeps DEF Rest, listener
  <2> QED
    BY <2>2, <2>3
<1>15. CASE Drop(s)
  <2>1. pc[s] = "drop" /\ Release(s, FALSE, "idle")
    BY <1>15 DEF Drop, cleanup
  <2> QED
    BY <2>1, ReleaseKeeps, ReleaseTyped DEF Rest
<1> QED
  BY <1>2, <1>3, <1>4, <1>5, <1>6, <1>7, <1>8, <1>9, <1>10, <1>11, <1>12, <1>13, <1>14, <1>15
     DEF OpenStep


LEMMA NextKeeps == PromptListener /\ Inv /\ [Next]_vars => Inv'
<1> SUFFICES ASSUME PromptListener, Inv, [Next]_vars PROVE PoolTypes' /\ SessionTypes' /\ Rest'
  BY TypeParts DEF Inv, Rest
<1>1. PoolTypes /\ SessionTypes
  BY TypeParts DEF Inv
<1> USE DEF Places, opening, leasing
<1>2. CASE Status
  <2>1. PICK R \in reconciled(TRUE) : Save(R)
    BY <1>2 DEF Status, Reconcile
  <2>2. queueFree /\ op' = op /\ UNCHANGED <<pc, tab, seen, cur>>
    BY <1>2 DEF Status, Reconcile, sessionVars
  <2>3. NoNewUse
    BY <2>2 DEF NoNewUse
  <2>4. Rest'
    BY <2>1, <2>2, <2>3, SaveKeeps DEF Rest, Save, queueFree, listener
  <2> QED
    BY <1>1, <2>1, <2>2, <2>4, SaveIsTyped DEF PoolTypes, SessionTypes
<1>3. ASSUME NEW caller \in {"operator", "focus"}, NEW request \in Nat,
             NEW R \in reconciled(TRUE), BeginInit(R, caller, request)
      PROVE  PoolTypes' /\ SessionTypes' /\ Rest'
  BY <1>3, BeginKeeps, BeginTyped DEF Callers
<1>4. CASE Setup
  BY <1>3, <1>4, ChromeWorkspaceAssumption DEF Setup
<1>5. CASE FocusInit
  <2>1. targetReads \subseteq Nat
    BY ReadsAreTargets, ChromeWorkspaceAssumption
  <2> QED
    BY <1>3, <1>5, <2>1 DEF FocusInit
<1>6. CASE InitStep
  <2>1. SaveTarget \/ InitThrows => Rest'
    <3> SUFFICES ASSUME SaveTarget \/ InitThrows PROVE Rest'
      OBVIOUS
    <3>1. /\ \E threw \in BOOLEAN : Resume(op.caller, threw) \/ UNCHANGED pc
          /\ UNCHANGED <<store, chromeVars, listener, stale, tab>>
          /\ op.at # "free"
          /\ op' = Free \/ \E goal : op' = [op EXCEPT !.at = "create", !.goal = goal]
      BY Zenon DEF SaveTarget, InitThrows, released
    <3>2. \A s \in Sessions : pc'[s] = pc[s] \/ pc'[s] \in {"idle", "opened", "poll"}
      BY <3>1 DEF Resume, afterInit
    <3>3. NoNewUse
      BY <3>1, <3>2 DEF NoNewUse
    <3>4. \/ op' = Free
          \/ /\ op'.stored = op.stored /\ op'.state = op.state
             /\ op'.group = op.group /\ op'.tabs = op.tabs
      BY <1>1, <3>1 DEF PoolTypes, Ops
    <3>5. stale' \cap inUse = {}
      BY <3>1 DEF Inv, SessionInv
    <3> QED
      BY <3>1, <3>2, <3>3, <3>4, <3>5, QuietKeeps DEF Rest, chromeVars, listener
  <2> QED
    BY <1>6, <2>1, InitStepTyped, CreateKeeps, GroupKeeps, SaveGrownKeeps DEF Rest, InitStep
<1>7. ASSUME NEW s \in Sessions, Open(s) \/ OpenStep(s)
      PROVE  PoolTypes' /\ SessionTypes' /\ Rest'
  BY <1>7, OpenKeeps
<1>8. ASSUME NEW s \in Sessions, Close(s) PROVE PoolTypes' /\ SessionTypes' /\ Rest'
  BY <1>8, ReleaseKeeps, ReleaseTyped DEF Close, Rest
<1>9. ASSUME NEW s \in Sessions, Abandon(s) PROVE PoolTypes' /\ SessionTypes' /\ Rest'
  <2>1. /\ Go(s, "idle") /\ tab' = [tab EXCEPT ![s] = None]
        /\ UNCHANGED <<store, target, chromeVars, op, listener, upsets, stale, seen, cur>>
    BY <1>9 DEF Abandon
  <2>2. /\ pc'[s] = "idle" /\ \A r \in Sessions \ {s} : pc'[r] = pc[r] /\ tab'[r] = tab[r]
        /\ tab' \in [Sessions -> Tabs \cup {None}]
    BY <1>1, <2>1, Goes DEF SessionTypes
  <2>3. NoNewUse
    BY <2>2 DEF NoNewUse
  <2>4. stale' \cap inUse = {}
    BY <2>1 DEF Inv, SessionInv
  <2>5. Rest'
    BY <2>1, <2>2, <2>3, <2>4, QuietKeeps DEF Rest, chromeVars, listener
  <2> QED
    BY <1>1, <2>1, <2>2, <2>5, MoveTyped DEF chromeVars, listener, PoolTypes, SessionTypes
<1>10. CASE GoesStale
  <2>1. PICK t \in (store.leases \ inUse) \ stale : stale' = stale \cup {t}
    BY <1>10 DEF GoesStale
  <2>2. /\ UNCHANGED <<store, target, tabs, groupOf, page, resetting, focused, created>>
        /\ UNCHANGED <<op, removed, clearing, upsets, pc, tab, seen, cur>>
    BY <1>10 DEF GoesStale, chromeVars, listener, sessionVars
  <2>3. NoNewUse /\ stale' \cap inUse = {}
    BY <2>1, <2>2 DEF NoNewUse, Inv, SessionInv
  <2>4. t \in Tabs
    BY <1>1, <2>1 DEF PoolTypes, Stores
  <2> QED
    BY <1>1, <2>1, <2>2, <2>3, <2>4, QuietKeeps DEF Rest, PoolTypes, SessionTypes
<1>11. CASE FocusChanges
  <2>1. /\ UNCHANGED <<store, target, tabs, groupOf, page, resetting, created, stale>>
        /\ UNCHANGED <<op, removed, clearing, upsets, pc, tab, seen, cur>>
        /\ focused' = ~focused
    BY <1>11 DEF FocusChanges, listener, sessionVars
  <2>2. NoNewUse /\ stale' \cap inUse = {}
    BY <2>1 DEF NoNewUse, Inv, SessionInv
  <2> QED
    BY <1>1, <2>1, <2>2, QuietKeeps DEF Rest, PoolTypes, SessionTypes
<1>17. CASE ResetCommits
  <2>1. PICK t \in resetting :
           page' = [page EXCEPT ![t] = "idle"] /\ resetting' = resetting \ {t}
    BY <1>17 DEF ResetCommits
  <2>2. UNCHANGED <<store, target, tabs, groupOf, focused, created, op, listener, upsets, stale,
                    sessionVars>>
    BY <1>17 DEF ResetCommits
  <2>3. page' \in [Tabs -> Pages]
    BY <1>1, <2>1 DEF PoolTypes, Pages
  <2> QED
    BY <1>1, <1>17, <2>1, <2>2, <2>3, CommitKeeps
       DEF Rest, PoolTypes, SessionTypes, listener, sessionVars
<1>12. CASE UserTakes
  <2>1. PICK t \in tabs :
           /\ \/ /\ tabs' = tabs \ {t} /\ page' = [page EXCEPT ![t] = "idle"]
                 /\ resetting' = resetting \ {t}
              \/ groupOf[t] # None /\ UNCHANGED <<tabs, page, resetting>>
           /\ groupOf' = [groupOf EXCEPT ![t] = None]
           /\ removed' = removed \cup {g \in {groupOf[t]} \ {None} : TabsIn(g) = {t}}
    BY <1>12 DEF UserTakes
  <2>2. /\ upsets < MaxUpsets /\ upsets' = upsets + 1
        /\ UNCHANGED <<store, target, focused, created, op, clearing, stale>>
        /\ UNCHANGED <<pc, tab, seen, cur>>
    BY <1>12 DEF UserTakes, sessionVars
  <2>3. /\ tabs' \subseteq Tabs /\ resetting' \subseteq tabs' /\ page' \in [Tabs -> Pages] /\ removed' \subseteq Groups
        /\ groupOf' \in [Tabs -> Groups \cup {None}] /\ upsets' \in 0..MaxUpsets
    BY <1>1, <2>1, <2>2, ChromeWorkspaceAssumption DEF PoolTypes, Pages
  <2> QED
    BY <1>1, <1>12, <2>2, <2>3, UserKeeps DEF Rest, PoolTypes, SessionTypes
<1>13. CASE RemovedListens
  <2>1. removed' \subseteq removed /\ clearing' \subseteq clearing \cup removed
    BY <1>13 DEF RemovedListens
  <2>2. /\ UNCHANGED <<store, target, tabs, groupOf, page, resetting, focused, created>>
        /\ UNCHANGED <<op, upsets, stale, pc, tab, seen, cur>>
    BY <1>13 DEF RemovedListens, chromeVars, sessionVars
  <2> QED
    BY <1>1, <1>13, <2>1, <2>2, ListenKeeps DEF Rest, PoolTypes, SessionTypes
<1>14. CASE RemovedClears
  <2>1. clearing' \subseteq clearing /\ store' = NoStore /\ stale' = {}
    BY <1>14 DEF RemovedClears
  <2>2. /\ UNCHANGED <<target, tabs, groupOf, page, resetting, focused, created>>
        /\ UNCHANGED <<op, removed, upsets, pc, tab, seen, cur>>
    BY <1>14 DEF RemovedClears, chromeVars, sessionVars
  <2>3. NoStore \in Stores /\ NoStore.leases \subseteq NoStore.tabs
    BY DEF NoStore, Stores
  <2> QED
    BY <1>1, <1>14, <2>1, <2>2, <2>3, ClearKeeps DEF Rest, PoolTypes, SessionTypes
<1>15. CASE WorkerRestarts
  <2>1. /\ op' = Free /\ clearing' = {} /\ removed' \subseteq removed
        /\ pc' = [s \in Sessions |-> IF pc[s] = "held" THEN "held" ELSE "idle"]
        /\ tab' = [s \in Sessions |-> IF pc[s] = "held" THEN tab[s] ELSE None]
        /\ seen' = [s \in Sessions |-> 0] /\ cur' = [s \in Sessions |-> 0]
        /\ upsets < MaxUpsets /\ upsets' = upsets + 1
        /\ UNCHANGED <<store, target, tabs, groupOf, page, resetting, focused, created, stale>>
    BY <1>15 DEF WorkerRestarts, chromeVars
  <2>2. \A s \in Sessions : \/ pc'[s] = "held" /\ pc[s] = "held" /\ tab'[s] = tab[s]
                            \/ pc'[s] = "idle"
    BY <2>1
  <2>3. NoNewUse /\ stale' \cap inUse = {}
    BY <2>1, <2>2 DEF NoNewUse, Inv, SessionInv
  <2>4. Rest'
    BY <2>1, <2>2, <2>3, QuietKeeps DEF Rest
  <2>5. Free \in Ops /\ 0 \in 0..Max /\ 0 \in 0..MaxTabs
    BY NoneIsNoGroup, ChromeWorkspaceAssumption DEF Free, Ops, Callers, NoStore, Stores
  <2>6. PoolTypes'
    BY <1>1, <2>1, <2>5, ChromeWorkspaceAssumption DEF PoolTypes
  <2>7. SessionTypes'
    BY <1>1, <2>1, <2>5 DEF SessionTypes
  <2> QED
    BY <2>4, <2>6, <2>7
<1>16. CASE UNCHANGED vars
  <2>1. /\ UNCHANGED <<store, target, tabs, groupOf, page, resetting, focused, created, stale>>
        /\ UNCHANGED <<op, removed, clearing, upsets, pc, tab, seen, cur>>
    BY <1>16 DEF vars, chromeVars, listener, sessionVars
  <2>2. NoNewUse /\ stale' \cap inUse = {}
    BY <2>1 DEF NoNewUse, Inv, SessionInv
  <2> QED
    BY <1>1, <2>1, <2>2, QuietKeeps DEF Rest, PoolTypes, SessionTypes
<1> QED
  BY <1>2, <1>4, <1>5, <1>6, <1>7, <1>8, <1>9, <1>10, <1>11, <1>12, <1>13, <1>14, <1>15, <1>16,
     <1>17
     DEF Next

LEMMA InitEstablishes == Init => Inv
<1> SUFFICES ASSUME Init PROVE Inv
  OBVIOUS
<1>1. NoStore \in Stores /\ Free \in Ops
  BY NoneIsNoGroup, ChromeWorkspaceAssumption DEF Free, Ops, Callers, NoStore, Stores
<1>2. PoolTypes /\ SessionTypes
  BY <1>1, NoneIsNoGroup, ChromeWorkspaceAssumption
     DEF Init, PoolTypes, SessionTypes, Pages, Places, NoStore
<1>3. inUse = {}
  BY Users DEF Init, leasing
<1>4. KnownInv /\ SessionInv
  BY <1>3 DEF Init, KnownInv, SessionInv, leasing, NoStore, Free
<1>5. PoolInv /\ OpInv /\ ListenInv
  BY <1>3 DEF Init, PoolInv, OpInv, ListenInv, Agrees, Grouped, NoStore, Free
<1> QED
  BY <1>2, <1>4, <1>5, TypeParts DEF Inv

(* If the listener on removed groups is prompt, two sessions never work in *)
(* the same tab and a session's page stays its own (reserve, release,      *)
(* reconcile, and the late cleanup of a failed open).                      *)
THEOREM TabsAreOwn == PromptListener => (Spec => []OwnTabAndPage)
<1> SUFFICES ASSUME PromptListener PROVE Spec => []OwnTabAndPage
  OBVIOUS
<1>1. Inv => OwnTabAndPage
  BY DEF Inv, SessionInv, OwnTabAndPage
<1>2. Inv /\ [Next]_vars => Inv'
  BY NextKeeps
<1> QED
  BY <1>1, <1>2, InitEstablishes, PTL DEF Spec

(* Under the same condition the store tells the truth: what a session uses *)
(* is leased, and what may be handed out shows the idle page or has had    *)
(* its reset ordered, and either refused or not carried out yet.           *)
THEOREM StoreAgrees == PromptListener => (Spec => []PoolAgrees)
<1> SUFFICES ASSUME PromptListener PROVE Spec => []PoolAgrees
  OBVIOUS
<1>1. Inv => PoolAgrees
  <2>1. SUFFICES ASSUME Inv PROVE PoolAgrees
    OBVIOUS
  <2>2. TypeOK /\ Agrees(store.tabs, store.leases, Clean, inUse)
    BY <2>1 DEF Inv, TypeInv, PoolInv
  <2>3. \A s \in Sessions : pc[s] \in leasing => tab[s] \in inUse
    BY Users
  <2> QED
    BY <2>2, <2>3 DEF PoolAgrees, Agrees, Clean
<1>2. Inv /\ [Next]_vars => Inv'
  BY NextKeeps
<1> QED
  BY <1>1, <1>2, InitEstablishes, PTL DEF Spec

(* Only an initialization and an opener under pressure write the target,   *)
(* and each writes no less than it has read.                               *)
LEMMA WritersOnlyGrow ==
    ASSUME Inv, Next, target' # target
    PROVE  \/ op.at = "target" /\ op.stored <= target'
           \/ \E s \in Sessions : pc[s] = "pressureSave" /\ seen[s] <= target'
<1>1. SaveTarget \/ \E s \in Sessions : PressureSave(s)
  <2>1. \A R : Save(R) => UNCHANGED target
    BY DEF Save
  <2>2. InitStep => SaveTarget
    BY DEF InitStep, CreateTab, GroupTabs, SaveGrown, InitThrows
  <2>3. ~(Status \/ Setup \/ FocusInit)
    BY <2>1 DEF Status, Setup, FocusInit, Reconcile, BeginInit
  <2>4. ~(GoesStale \/ FocusChanges \/ ResetCommits \/ UserTakes \/ RemovedListens \/ RemovedClears
             \/ WorkerRestarts)
    BY DEF GoesStale, FocusChanges, ResetCommits, UserTakes, RemovedListens, RemovedClears, WorkerRestarts
  <2>5. ASSUME NEW s \in Sessions, Open(s) \/ OpenStep(s) \/ Close(s) \/ Abandon(s)
        PROVE  PressureSave(s)
    <3>1. ~(Ensure(s) \/ OpenerInit(s) \/ OpenerSkipsInit(s) \/ Opened(s))
      BY <2>1 DEF Ensure, OpenerInit, OpenerSkipsInit, Opened, Reconcile, BeginInit
    <3>2. ~(Open(s) \/ Reserve(s) \/ PressureLoad(s) \/ GiveUp(s) \/ Abandon(s))
      BY DEF Open, Reserve, PressureLoad, GiveUp, Abandon
    <3>3. ~(Navigate(s) \/ Settle(s) \/ Touch(s) \/ Reset(s))
      BY DEF Navigate, Settle, Touch, Reset
    <3>4. ~(Drop(s) \/ Close(s))
      BY DEF Drop, Close, Release
    <3> QED
      BY <2>5, <3>1, <3>2, <3>3, <3>4 DEF OpenStep
  <2> QED
    BY <2>2, <2>3, <2>4, <2>5 DEF Next
<1>2. PoolTypes /\ SessionTypes
  BY TypeParts DEF Inv
<1>3. CASE SaveTarget
  <2> DEFINE size == Cardinality(op.state.tabs)
             goal == effectiveTarget(op.request, op.stored, size)
  <2>1. op.at = "target" /\ target' = IF goal # op.stored THEN goal ELSE target
    BY <1>3 DEF SaveTarget
  <2>2. op.request \in Nat /\ size \in Nat /\ op.stored \in Default..Max
    BY <1>2, <2>1, SizesAreBounded DEF PoolTypes, Ops, Stores, Inv, OpInv
  <2>3. goal \in op.stored..Max
    BY <2>2, TargetsAreBounded
  <2> QED
    BY <2>1, <2>2, <2>3
<1>4. ASSUME NEW s \in Sessions, PressureSave(s)
      PROVE  pc[s] = "pressureSave" /\ seen[s] <= target'
  <2> DEFINE goal == nextAutoGrowTarget(cur[s], seen[s])
  <2>1. pc[s] = "pressureSave" /\ target' = IF goal > seen[s] THEN goal ELSE target
    BY <1>4 DEF PressureSave
  <2>2. cur[s] \in Nat /\ seen[s] \in Default..Max
    BY <1>2, <2>1, NoneIsNoGroup DEF SessionTypes
  <2>3. goal \in seen[s]..Max
    BY <2>2, TargetsAreBounded
  <2> QED
    BY <2>1, <2>2, <2>3
<1> QED
  BY <1>1, <1>3, <1>4

(* The pool's target shrinks only by a writer that does not know it:       *)
(* whoever makes it smaller had read it before somebody else's write, or   *)
(* had failed to read it and taken the default size for it.                *)
THEOREM TargetShrinksOnMisread == PromptListener => (Spec => ShrinksOnlyOnMisread)
<1> SUFFICES ASSUME PromptListener PROVE Spec => ShrinksOnlyOnMisread
  OBVIOUS
<1> DEFINE Misread == \/ \E s \in Sessions : pc[s] = "pressureSave" /\ seen[s] # target
                      \/ op.at = "target" /\ op.stored # target
<1>1. Inv /\ [Next]_vars => [target' < target => Misread]_vars
  <2> SUFFICES ASSUME Inv, Next, target' < target PROVE Misread
    OBVIOUS
  <2>1. PoolTypes /\ SessionTypes /\ PoolTypes'
    BY TypeParts, NextKeeps DEF Inv
  <2>2. target \in Int /\ target' \in Int
    BY <2>1, ChromeWorkspaceAssumption DEF PoolTypes
  <2>3. CASE op.at = "target" /\ op.stored <= target'
    BY <2>2, <2>3 DEF Inv, OpInv
  <2>4. ASSUME NEW s \in Sessions, pc[s] = "pressureSave", seen[s] <= target' PROVE Misread
    <3>1. seen[s] \in Int
      BY <2>1, ChromeWorkspaceAssumption DEF SessionTypes
    <3> QED
      BY <2>2, <2>4, <3>1
  <2> QED
    BY <2>2, <2>3, <2>4, WritersOnlyGrow
<1>2. Inv /\ [Next]_vars => Inv'
  BY NextKeeps
<1> QED
  BY <1>1, <1>2, InitEstablishes, PTL DEF Spec, ShrinksOnlyOnMisread

=============================================================================
