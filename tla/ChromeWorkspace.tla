--------------------------- MODULE ChromeWorkspace ---------------------------
(***************************************************************************)
(* The pool of background tabs of src/chrome-extension/service-worker.js:  *)
(* a Chrome tab group whose tabs are leased to sessions.                   *)
(*                                                                         *)
(* What the worker knows is in chrome.storage: `store`, changed only by    *)
(* operations on the queue of mutateWorkspaceState (and by the listener    *)
(* on removed groups, which is not on the queue), and `target`, which is   *)
(* not protected by the queue at all.  What Chrome has is in tabs,         *)
(* groupOf, page and focused, and the user changes it at any time.  A      *)
(* lease names a tab and no session: nothing in the code knows whose it is.*)
(*                                                                         *)
(* Asking Chrome for the idle page is not getting it: chrome.tabs.update   *)
(* resolves before the page is shown, the worker ignores its failures, and *)
(* the worker may be stopped before it asks.  So a reset only puts the tab *)
(* in `resetting`; ResetCommits shows the page, sooner, later or never.    *)
(*                                                                         *)
(* One queued operation is one action, except initializeWorkspace, which   *)
(* holds the queue while it reads and writes the target and creates tabs.  *)
(***************************************************************************)
EXTENDS Integers, FiniteSets

CONSTANTS Sessions,
          Default, Max, Step,  \* DEFAULT_, MAX_WORKSPACE_POOL_SIZE, WORKSPACE_AUTO_GROW_STEP
          MaxTabs,             \* bound: tabs Chrome creates
          MaxUpsets,           \* bound: tabs the user takes, plus restarts of the worker
          Requests,            \* bound: pool sizes an operator asks for
          PromptListener       \* a removed group is forgotten before a new one is made

ASSUME ChromeWorkspaceAssumption ==
    /\ Default \in Nat \ {0} /\ Max \in Nat /\ Default <= Max /\ Step \in Nat \ {0}
    /\ MaxTabs \in Nat /\ MaxUpsets \in Nat /\ Requests \subseteq Nat \ {0}
    /\ PromptListener \in BOOLEAN

Tabs    == 1..MaxTabs
Groups  == 1..MaxTabs
None    == 0                           \* no tab, no group, no target
NoStore == [group |-> None, tabs |-> {}, leases |-> {}]

VARIABLES
    store,    \* WORKSPACE_KEY: the group, its tabs and the leased ones
    target,   \* WORKSPACE_TARGET_KEY
    tabs,     \* tabs Chrome has
    groupOf,  \* tab -> its group
    page,     \* tab -> "idle" or the session whose page it shows
    resetting, \* tabs whose reset to the idle page has not been shown (yet, or ever)
    focused,  \* whether a normal Chrome window has the focus
    created,  \* tabs created so far
    op,       \* the initializeWorkspace that holds the queue
    removed,  \* the groups Chrome has reported removed
    clearing, \* those of which the listener has read the store and is to clear it
    upsets,   \* tabs taken and restarts so far
    stale,    \* leased tabs idle for longer than the idle timeout
    pc, tab, seen, cur  \* per session: where its open is, its tab, what it read

chromeVars  == <<tabs, groupOf, page, resetting, focused, created>>
sessionVars == <<pc, tab, seen, cur>>
listener    == <<removed, clearing>>
vars == <<store, target, chromeVars, op, listener, upsets, stale, sessionVars>>

Free == [at |-> "free", caller |-> "none", request |-> 0, stored |-> 0, goal |-> 0,
         state |-> NoStore, group |-> None, tabs |-> {}]

Init ==
    /\ store = NoStore /\ target = Default
    /\ tabs = {} /\ groupOf = [t \in Tabs |-> None] /\ page = [t \in Tabs |-> "idle"]
    /\ resetting = {} /\ focused \in BOOLEAN /\ created = 0
    /\ op = Free /\ removed = {} /\ clearing = {} /\ stale = {} /\ upsets = 0
    /\ pc = [s \in Sessions |-> "idle"]
    /\ tab = [s \in Sessions |-> None]
    /\ seen = [s \in Sessions |-> 0] /\ cur = [s \in Sessions |-> 0]

-----------------------------------------------------------------------------
(***************************************************************************)
(* Sizes.                                                                  *)
(***************************************************************************)
Larger(a, b)  == IF a > b THEN a ELSE b
Smaller(a, b) == IF a < b THEN a ELSE b

RequestWins(request, stored, size) ==                             \* mutant
    Larger(Smaller(Max, size), Smaller(Max, request))

effectiveTarget(request, stored, size) ==
    Larger(Smaller(Max, size), Larger(stored, Smaller(Max, request)))

nextAutoGrowTarget(size, stored) ==
    LET current == Smaller(Max, size)
        goal    == Larger(current, stored)
    IN  IF goal > current \/ current >= Max THEN goal ELSE Smaller(Max, current + Step)

-----------------------------------------------------------------------------
(***************************************************************************)
(* reconcileWorkspaceStateUnlocked: the states of the store it may leave,  *)
(* and the tabs it then resets, whose stale leases it has dropped.  A      *)
(* store whose group or tabs are gone is forgotten, and a group that shows *)
(* an idle page is adopted, with no leases.                                *)
(***************************************************************************)
TabsIn(g) == {t \in tabs : groupOf[t] = g}

(* Whether a group other than the one in the store may be stored: a removed *)
(* group is forgotten first, if the listener is prompt.                     *)
listened == PromptListener => removed = {} /\ clearing = {}

discovered ==
    LET found == {g \in Groups : \E t \in TabsIn(g) : page[t] = "idle"}
    IN  IF found = {} \/ ~listened THEN {NoStore}
        ELSE {[group |-> g, tabs |-> TabsIn(g), leases |-> {}] : g \in found}

reconciled(releaseStale) ==
    LET mine    == store.tabs \cap TabsIn(store.group)
        expired == IF releaseStale THEN store.leases \cap mine \cap stale ELSE {}
    IN  IF store = NoStore \/ TabsIn(store.group) = {}
        THEN {[store |-> st, reset |-> {}] : st \in discovered}
        ELSE IF mine = {}
             THEN {[store |-> NoStore, reset |-> {}]}
             ELSE {[store |-> [group |-> store.group, tabs |-> mine,
                               leases |-> (store.leases \cap mine) \ expired],
                    reset |-> expired]}

(* chrome.tabs.update of the tabs T to the idle page, whatever Chrome says. *)
reset(T) == resetting' = {t \in resetting \cup T : page[t] # "idle"}

Save(R) ==
    /\ store' = R.store /\ reset(R.reset) /\ stale' = stale \cap R.store.leases
    /\ UNCHANGED <<target, tabs, groupOf, page, focused, created, listener, upsets>>

Reconcile == UNCHANGED op /\ \E R \in reconciled(TRUE) : Save(R)

Go(s, at) == pc' = [pc EXCEPT ![s] = at]

queueFree == op.at = "free"

-----------------------------------------------------------------------------
(***************************************************************************)
(* initializeWorkspace, on the queue: reconcile and read the target, write *)
(* it, create the missing tabs one by one if Chrome is focused, group them,*)
(* save.  A throw releases the queue and leaves the tabs there are.        *)
(***************************************************************************)
afterInit(at) == IF at = "init" THEN "opened" ELSE "poll"

(* The opener that waits for the initialization goes on, or throws.         *)
Resume(caller, threw) ==
    pc' = [s \in Sessions |->
              IF s # caller THEN pc[s]
              ELSE IF threw THEN "idle" ELSE afterInit(pc[s])]

(* loadWorkspaceTargetSize gives the default size if the read fails.        *)
targetReads == {target, Default}

shortOf(size, R) == Cardinality(R.store.tabs) < size

BeginInit(R, caller, request) ==
    /\ queueFree /\ Save(R)
    /\ \E stored \in targetReads :
         op' = [at |-> "target", caller |-> caller, request |-> request,
                stored |-> stored, goal |-> 0,
                state |-> R.store, group |-> R.store.group, tabs |-> R.store.tabs]
    /\ UNCHANGED sessionVars

(* workspace.status reconciles and does nothing else.                       *)
Status == queueFree /\ Reconcile /\ UNCHANGED sessionVars

(* workspace.init, the tool chrome_workspace_setup.                         *)
Setup == \E R \in reconciled(TRUE), n \in Requests : BeginInit(R, "operator", n)

(* initializeWorkspaceIfChromeFocused, on a change of focus or on connect.  *)
FocusInit ==
    /\ focused
    /\ \E R \in reconciled(TRUE), size \in targetReads :
         shortOf(size, R) /\ BeginInit(R, "focus", size)

(* initializeWorkspaceIfChromeFocused, from an open.                        *)
OpenerInit(s) ==
    /\ pc[s] \in {"init", "grow"} /\ focused
    /\ \E R \in reconciled(TRUE), size \in targetReads :
         shortOf(size, R) /\ BeginInit(R, s, size)

(* provisionWorkspaceTargetSize writes; the pool is large enough, or Chrome *)
(* is not focused and creation is deferred, or tabs are created.            *)
SaveTarget ==
    /\ op.at = "target"
    /\ LET size == Cardinality(op.state.tabs)
           goal == effectiveTarget(op.request, op.stored, size)
       IN  /\ target' = IF goal # op.stored THEN goal ELSE target
           /\ IF size >= goal \/ ~focused
              THEN op' = Free /\ Resume(op.caller, FALSE)
              ELSE op' = [op EXCEPT !.at = "create", !.goal = goal] /\ UNCHANGED pc
    /\ UNCHANGED <<store, chromeVars, listener, upsets, stale, tab, seen, cur>>

CreateTab ==
    /\ op.at = "create" /\ Cardinality(op.tabs) < op.goal /\ created < MaxTabs
    /\ created' = created + 1
    /\ tabs' = tabs \cup {created + 1}
    /\ op' = [op EXCEPT !.tabs = @ \cup {created + 1}]
    /\ UNCHANGED <<store, target, groupOf, page, resetting, focused, listener, upsets, stale,
                   sessionVars>>

(* chrome.tabs.group: the new tabs join the group, or make one.             *)
GroupTabs ==
    /\ op.at = "create" /\ Cardinality(op.tabs) >= op.goal
    /\ op.tabs \ op.state.tabs \subseteq tabs
    /\ op.group = None => listened
    /\ \E g \in IF op.group = None THEN {created}     \* a fresh id
               ELSE {op.group} \cap {groupOf[t] : t \in tabs} :
         /\ groupOf' = [t \in Tabs |-> IF t \in op.tabs \ op.state.tabs THEN g ELSE groupOf[t]]
         /\ op' = [op EXCEPT !.at = "save", !.group = g]
    /\ UNCHANGED <<store, target, tabs, page, resetting, focused, created, listener, upsets,
                   stale, sessionVars>>

ForgetLeases == [group |-> op.group, tabs |-> op.tabs, leases |-> {}]          \* mutant
grownStore   == [group |-> op.group, tabs |-> op.tabs, leases |-> op.state.leases]

SaveGrown ==
    /\ op.at = "save"
    /\ store' = grownStore
    /\ op' = Free
    /\ \E threw \in BOOLEAN : Resume(op.caller, threw)    \* chrome.tabGroups.update
    /\ UNCHANGED <<target, chromeVars, listener, upsets, stale, tab, seen, cur>>

Poisoned == [op EXCEPT !.at = "failed"]                           \* mutant
released == Free

(* A tab cannot be created, or is closed before it is grouped.              *)
InitThrows ==
    /\ op.at = "create"
    /\ op' = released /\ Resume(op.caller, TRUE)
    /\ UNCHANGED <<store, target, chromeVars, listener, upsets, stale, tab, seen, cur>>

-----------------------------------------------------------------------------
(***************************************************************************)
(* leaseWorkspaceTab: an open.                                             *)
(***************************************************************************)
Open(s) ==
    /\ pc[s] = "idle"
    /\ Go(s, "ensure")
    /\ UNCHANGED <<store, target, chromeVars, op, listener, upsets, stale, tab, seen, cur>>

(* Reconcile, and see whether the pool is short of its target.              *)
Ensure(s) ==
    /\ pc[s] = "ensure" /\ queueFree
    /\ Reconcile
    /\ \E size \in targetReads :
         Go(s, IF Cardinality(store'.tabs) < size THEN "init" ELSE "reserve")
    /\ UNCHANGED <<tab, seen, cur>>

(* An open is refused if there is no workspace: CHROME_WORKSPACE_MISSING.   *)
orMissing == IF store' = NoStore THEN "idle" ELSE "reserve"

(* Chrome is not focused, or the pool has grown: nothing is created.        *)
OpenerSkipsInit(s) ==
    /\ pc[s] \in {"init", "grow"} /\ queueFree
    /\ UNCHANGED op
    /\ \E R \in reconciled(TRUE), size \in targetReads :
         ~(focused /\ shortOf(size, R)) /\ Save(R)
    /\ Go(s, IF pc[s] = "init" THEN orMissing ELSE "poll")
    /\ UNCHANGED <<tab, seen, cur>>

Opened(s) ==
    /\ pc[s] = "opened" /\ queueFree
    /\ Reconcile
    /\ Go(s, orMissing)
    /\ UNCHANGED <<tab, seen, cur>>

freeTabs(st)     == st.tabs \ st.leases

(* reserveIdleWorkspaceTab.                                                 *)
Reserve(s) ==
    /\ pc[s] \in {"reserve", "poll"} /\ queueFree
    /\ \E R \in reconciled(TRUE) :
         /\ reset(R.reset)
         /\ \/ \E t \in freeTabs(R.store) :
                 /\ store' = [R.store EXCEPT !.leases = @ \cup {t}]
                 /\ stale' = (stale \cap R.store.leases) \ {t}
                 /\ tab' = [tab EXCEPT ![s] = t]
                 /\ Go(s, "navigate")
                 /\ UNCHANGED cur
            \/ /\ freeTabs(R.store) = {}
               /\ store' = R.store
               /\ stale' = stale \cap R.store.leases
               /\ cur' = [cur EXCEPT ![s] = IF pc[s] = "poll" THEN 0
                                            ELSE Cardinality(R.store.tabs)]
               /\ Go(s, IF pc[s] = "reserve" THEN "pressure" ELSE "poll")
               /\ UNCHANGED tab
    /\ UNCHANGED <<target, tabs, groupOf, page, focused, created, op, listener, upsets, seen>>

(* autoProvisionWorkspaceForPressure reads the target off the queue,        *)
PressureLoad(s) ==
    /\ pc[s] = "pressure"
    /\ \E size \in targetReads : seen' = [seen EXCEPT ![s] = size]
    /\ Go(s, "pressureSave")
    /\ UNCHANGED <<store, target, chromeVars, op, listener, upsets, stale, tab, cur>>

(* and writes what it makes of it.                                          *)
PressureSave(s) ==
    /\ pc[s] = "pressureSave"
    /\ LET goal == nextAutoGrowTarget(cur[s], seen[s])
       IN  /\ target' = IF goal > seen[s] THEN goal ELSE target
           /\ Go(s, IF goal > cur[s] THEN "grow" ELSE "poll")
    /\ seen' = [seen EXCEPT ![s] = 0] /\ cur' = [cur EXCEPT ![s] = 0]
    /\ UNCHANGED <<store, chromeVars, op, listener, upsets, stale, tab>>

(* WORKSPACE_LEASE_WAIT_TIMEOUT_MS: CHROME_WORKSPACE_EXHAUSTED.             *)
GiveUp(s) ==
    /\ pc[s] = "poll"
    /\ Go(s, "idle")
    /\ UNCHANGED <<store, target, chromeVars, op, listener, upsets, stale, tab, seen, cur>>

(* What follows a failed navigation: reset the page, then drop the lease.   *)
DropThenReset(at) ==                                              \* mutant
    CASE at = "failed" -> "drop" [] at = "drop" -> "reset" [] at = "reset" -> "idle"

cleanup(at) ==
    CASE at = "failed" -> "reset" [] at = "reset" -> "drop" [] at = "drop" -> "idle"

(* chrome.tabs.update: the tab leaves for the page, and a reset still to be *)
(* shown is superseded; or Chrome refuses, as it must if the tab is gone.   *)
Navigate(s) ==
    /\ pc[s] = "navigate"
    /\ \/ /\ tab[s] \in tabs
          /\ page' = [page EXCEPT ![tab[s]] = s] /\ resetting' = resetting \ {tab[s]}
          /\ Go(s, "settle")
       \/ Go(s, cleanup("failed")) /\ UNCHANGED <<page, resetting>>
    /\ UNCHANGED <<store, target, tabs, groupOf, focused, created, op, listener, upsets,
                   stale, tab, seen, cur>>

(* waitForApprovedNavigation: the page has settled within the approved URLs,*)
(* or it has left them, is late, or its tab is gone.                        *)
Settle(s) ==
    /\ pc[s] = "settle"
    /\ \/ tab[s] \in tabs /\ Go(s, "touch")
       \/ Go(s, cleanup("failed"))
    /\ UNCHANGED <<store, target, chromeVars, op, listener, upsets, stale, tab, seen, cur>>

(* touchWorkspaceLease renews the lease if it is still recorded; whether it *)
(* was is not asked.                                                        *)
Touch(s) ==
    /\ pc[s] = "touch" /\ queueFree
    /\ \E R \in reconciled(FALSE) :
         store' = R.store /\ stale' = (stale \cap R.store.leases) \ {tab[s]}
    /\ Go(s, "held")
    /\ UNCHANGED <<target, chromeVars, op, listener, upsets, tab, seen, cur>>

Reset(s) ==
    /\ pc[s] = "reset"
    /\ reset({tab[s]})
    /\ Go(s, cleanup("reset"))
    /\ UNCHANGED <<store, target, tabs, groupOf, page, focused, created, op, listener, upsets,
                   stale, tab, seen, cur>>

(* releaseWorkspaceTab, on the queue: Chrome is asked to reset the page     *)
(* while the lease is still there, and the lease is dropped whatever it     *)
(* answers.  An open that failed has asked for it itself.                   *)
Release(s, resetUrl, next) ==
    /\ queueFree
    /\ \E R \in reconciled(FALSE) :
         /\ store' = [R.store EXCEPT !.leases = @ \ {tab[s]}]
         /\ stale' = (stale \cap R.store.leases) \ {tab[s]}
         /\ reset(IF resetUrl THEN {tab[s]} \cap R.store.tabs ELSE {})
    /\ Go(s, next)
    /\ tab' = IF next = "idle" THEN [tab EXCEPT ![s] = None] ELSE tab
    /\ UNCHANGED <<target, tabs, groupOf, page, focused, created, op, listener, upsets,
                   seen, cur>>

Drop(s)  == pc[s] = "drop" /\ Release(s, FALSE, cleanup("drop"))
Close(s) == pc[s] = "held" /\ Release(s, TRUE, "idle")

-----------------------------------------------------------------------------
(***************************************************************************)
(* Sessions that vanish, the user, Chrome, and the worker itself.          *)
(***************************************************************************)
(* A client that holds a tab never comes back: nobody releases its lease.   *)
Abandon(s) ==
    /\ pc[s] = "held"
    /\ Go(s, "idle")
    /\ tab' = [tab EXCEPT ![s] = None]
    /\ UNCHANGED <<store, target, chromeVars, op, listener, upsets, stale, seen, cur>>

inUse == {tab[s] : s \in {r \in Sessions : pc[r] \in {"navigate", "settle", "touch", "held", "reset", "drop"}}}

(* WORKSPACE_LEASE_IDLE_TIMEOUT_MS passes over a lease nobody uses: a       *)
(* session that holds one is taken to renew it in time.                     *)
GoesStale ==
    /\ \E t \in (store.leases \ inUse) \ stale : stale' = stale \cup {t}
    /\ UNCHANGED <<store, target, chromeVars, op, listener, upsets, sessionVars>>

FocusChanges ==
    /\ focused' = ~focused
    /\ UNCHANGED <<store, target, tabs, groupOf, page, resetting, created, op, listener, upsets,
                   stale, sessionVars>>

(* Chrome shows the idle page it was asked for.                             *)
ResetCommits ==
    /\ \E t \in resetting :
         page' = [page EXCEPT ![t] = "idle"] /\ resetting' = resetting \ {t}
    /\ UNCHANGED <<store, target, tabs, groupOf, focused, created, op, listener, upsets, stale,
                   sessionVars>>

(* The user closes a tab or takes it out of its group.  Chrome reports a    *)
(* group that has lost its last tab.                                        *)
UserTakes ==
    /\ \E t \in tabs :
         /\ \/ /\ tabs' = tabs \ {t} /\ page' = [page EXCEPT ![t] = "idle"]
               /\ resetting' = resetting \ {t}
            \/ groupOf[t] # None /\ UNCHANGED <<tabs, page, resetting>>
         /\ groupOf' = [groupOf EXCEPT ![t] = None]
         /\ removed' = removed \cup {g \in {groupOf[t]} \ {None} : TabsIn(g) = {t}}
    /\ upsets < MaxUpsets /\ upsets' = upsets + 1
    /\ UNCHANGED <<store, target, focused, created, op, clearing, stale, sessionVars>>

(* tabGroups.onRemoved: reads the store, and clears it, off the queue.      *)
RemovedListens ==
    /\ \E g \in removed :
         /\ removed' = removed \ {g}
         /\ clearing' = IF store.group = g THEN clearing \cup {g} ELSE clearing
    /\ UNCHANGED <<store, target, chromeVars, op, upsets, stale, sessionVars>>

RemovedClears ==
    /\ \E g \in clearing : clearing' = clearing \ {g}
    /\ store' = NoStore /\ stale' = {}
    /\ UNCHANGED <<target, chromeVars, op, removed, upsets, sessionVars>>

(* extension.reload, or the worker is stopped: what was under way is lost,  *)
(* the store stays.  Events not delivered yet may wake the next worker.     *)
WorkerRestarts ==
    /\ op' = Free /\ clearing' = {} /\ removed' \in {{}, removed}
    /\ pc' = [s \in Sessions |-> IF pc[s] = "held" THEN "held" ELSE "idle"]
    /\ tab' = [s \in Sessions |-> IF pc[s] = "held" THEN tab[s] ELSE None]
    /\ seen' = [s \in Sessions |-> 0] /\ cur' = [s \in Sessions |-> 0]
    /\ upsets < MaxUpsets /\ upsets' = upsets + 1
    /\ UNCHANGED <<store, target, chromeVars, stale>>

-----------------------------------------------------------------------------
InitStep == SaveTarget \/ CreateTab \/ GroupTabs \/ SaveGrown \/ InitThrows

OpenStep(s) ==
    \/ Ensure(s) \/ OpenerInit(s) \/ OpenerSkipsInit(s) \/ Opened(s) \/ Reserve(s)
    \/ PressureLoad(s) \/ PressureSave(s) \/ GiveUp(s)
    \/ Navigate(s) \/ Settle(s) \/ Touch(s) \/ Reset(s) \/ Drop(s)

Next ==
    \/ Status \/ Setup \/ FocusInit \/ InitStep
    \/ \E s \in Sessions : Open(s) \/ OpenStep(s) \/ Close(s) \/ Abandon(s)
    \/ GoesStale \/ FocusChanges \/ ResetCommits \/ UserTakes \/ RemovedListens \/ RemovedClears
    \/ WorkerRestarts

Spec == Init /\ [][Next]_vars

(* The queue is first come, first served, so an operation that waits gets   *)
(* its turn; Chrome answers or throws; waits end at their deadlines.        *)
Fairness ==
    /\ WF_vars(InitStep) /\ WF_vars(RemovedListens) /\ WF_vars(RemovedClears)
    /\ \A s \in Sessions : SF_vars(OpenStep(s)) /\ WF_vars(GiveUp(s))

FairSpec == Spec /\ Fairness

-----------------------------------------------------------------------------
(***************************************************************************)
(* Properties.                                                             *)
(***************************************************************************)
Stores == [group : Groups \cup {None}, tabs : SUBSET Tabs, leases : SUBSET Tabs]
opening == {"ensure", "init", "opened", "reserve", "pressure", "pressureSave", "grow", "poll",
            "navigate", "settle", "touch", "reset", "drop"}
leasing == {"navigate", "settle", "touch", "held", "reset", "drop"}

(* Every variable has its type; the target stays within the limits of the   *)
(* sizing functions, and a lease is a lease of a tab of the pool.           *)
TypeOK ==
    /\ store \in Stores /\ store.leases \subseteq store.tabs
    /\ target \in Default..Max
    /\ tabs \subseteq Tabs /\ groupOf \in [Tabs -> Groups \cup {None}]
    /\ page \in [Tabs -> {"idle"} \cup Sessions]
    /\ resetting \subseteq tabs /\ focused \in BOOLEAN /\ created \in 0..MaxTabs
    /\ op.at \in {"free", "target", "create", "save"}
    /\ upsets \in 0..MaxUpsets
    /\ removed \subseteq Groups /\ clearing \subseteq Groups /\ stale \subseteq Tabs
    /\ pc \in [Sessions -> {"idle", "held"} \cup opening]
    /\ tab \in [Sessions -> Tabs \cup {None}]
    /\ seen \in [Sessions -> 0..Max] /\ cur \in [Sessions -> 0..MaxTabs]

(* Two sessions never work in the same tab, whatever opens, closes, fails,  *)
(* grows or is reclaimed at the same time; and the page of a session that   *)
(* has its tab is its own: the late cleanup of another open never navigates *)
(* it away (reserve, release, reconcile, comment of releaseWorkspaceTab).   *)
OwnTabAndPage ==
    /\ \A s, r \in Sessions :
          s # r /\ pc[s] \in leasing /\ pc[r] \in leasing => tab[s] # tab[r]
    /\ \A s \in Sessions : pc[s] = "held" /\ tab[s] \in tabs => page[tab[s]] = s

(* The store tells the truth about the pool: a tab a session works in is    *)
(* recorded as leased, so no later growth, reconciliation or restart hands  *)
(* it out; and a tab that may be handed out shows the idle page, unless its *)
(* reset was ordered and Chrome refused it or has yet to carry it out: only *)
(* then is it handed out with the page of the session before in it.         *)
PoolAgrees ==
    /\ TypeOK
    /\ \A s \in Sessions :
          pc[s] \in leasing /\ tab[s] \in store.tabs => tab[s] \in store.leases
    /\ \A t \in store.tabs \ store.leases : page[t] = "idle" \/ t \in resetting

(* The target shrinks only by a writer that does not know it: an opener     *)
(* under pressure, or an initialization, writes what it made of a read that *)
(* somebody else's write has overtaken, or that failed and gave the default *)
(* size.  Growth and requests never undo growth otherwise.                  *)
ShrinksOnlyOnMisread ==
    [][target' < target => \/ \E s \in Sessions : pc[s] = "pressureSave" /\ seen[s] # target
                           \/ op.at = "target" /\ op.stored # target]_vars

(* An open ends, with a tab or an error.                                    *)
OpenSettles == \A s \in Sessions : (pc[s] \in opening) ~> (pc[s] \in {"idle", "held"})

=============================================================================
