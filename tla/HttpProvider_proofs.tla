------------------------ MODULE HttpProvider_proofs ------------------------
(***************************************************************************)
(* A call of an HTTP provider is executed at most once and fails only for  *)
(* a reason, for any number of concurrent calls and faults.                *)
(*                                                                         *)
(* Each call is looked at on its own.  Whatever the others do, it stays    *)
(* where it is, waits for something else, or ends; it is executed only     *)
(* while it waits; and if it fails, the fault that failed it was recorded  *)
(* -- when the server went down for the calls under way then, and with the *)
(* call for one made during the outage.  That a call in a start is where   *)
(* the start believes it is makes the end of a start such a step for all   *)
(* who awaited it.                                                         *)
(***************************************************************************)
EXTENDS HttpProvider, FiniteSetTheorems, TLAPS

States == {"configured", "starting", "ready", "reconnecting", "failed", "stopped"}
Stages == Waiting \union Settled \union {"starting", "gate"}

JoinedStart == \A c \in Calls : c \in joined => pc[c] = "starting"
ExecutedOnce ==
    \A c \in Calls : executed[c] \in {0, 1} /\ (executed[c] = 1 => pc[c] \in {"done", "failed"})
FailedForReason == \A c \in Calls : pc[c] = "failed" => c \in hurt \/ killed
OutageIsKnown   == server # "up" => UnderWay \subseteq hurt
FewSessions     == IsFiniteSet(live) /\ Cardinality(live) <= Cardinality(Requesters) + 1

Inv == /\ TypeOK /\ JoinedStart /\ ExecutedOnce /\ FailedForReason
       /\ OutageIsKnown /\ FewSessions

-----------------------------------------------------------------------------
LEMMA FiniteRequesters ==
    IsFiniteSet(Requesters) /\ Cardinality(Requesters) \in Nat
BY HttpAssumption, FS_AddElement, FS_Union, FS_Singleton, FS_CardinalityType DEF Requesters

(* The sessions requests carry are no more than the requests.              *)
LEMMA FewHeld ==
    ASSUME TypeOK
    PROVE  LET held == {sent[x] : x \in Requesters}
           IN IsFiniteSet(held) /\ Cardinality(held) \in Nat
              /\ Cardinality(held) <= Cardinality(Requesters)
<1> DEFINE held == {sent[x] : x \in Requesters}
<1>1. sent \in Surjection(Requesters, held)
  BY DEF TypeOK, Surjection
<1>2. IsFiniteSet(held) /\ Cardinality(held) <= Cardinality(Requesters)
  BY <1>1, FiniteRequesters, FS_Surjection
<1> QED
  BY <1>2, FS_CardinalityType

(* There is always a session nobody holds for the server to name.          *)
LEMMA FreshExists ==
    ASSUME TypeOK, FewSessions
    PROVE  Fresh \in Sessions
<1> DEFINE held == {sent[x] : x \in Requesters}
           used == (live \union held) \union {session}
           R == Cardinality(Requesters)
<1>1. IsFiniteSet(held) /\ Cardinality(held) \in Nat /\ Cardinality(held) <= R
  BY FewHeld
<1>2. IsFiniteSet(live) /\ Cardinality(live) \in Nat /\ Cardinality(live) <= R + 1
  BY FS_CardinalityType DEF FewSessions
<1>3. R \in Nat
  BY FiniteRequesters
<1>4. IsFiniteSet(live \union held) /\ Cardinality(live \union held) <= 2 * R + 1
  <2>1. /\ IsFiniteSet(live \union held)
        /\ Cardinality(live \union held) =
              Cardinality(live) + Cardinality(held) - Cardinality(live \intersect held)
    BY <1>1, <1>2, FS_Union
  <2>2. Cardinality(live \intersect held) \in Nat
    BY <1>2, FS_Subset, FS_CardinalityType
  <2> QED
    BY <1>1, <1>2, <1>3, <2>1, <2>2
<1>5. IsFiniteSet(used) /\ Cardinality(used) <= 2 * R + 2
  <2>1. Cardinality(live \union held) \in Nat
    BY <1>4, FS_CardinalityType
  <2> HIDE DEF held
  <2>2. /\ IsFiniteSet(used)
        /\ Cardinality(used) = IF session \in live \union held
                               THEN Cardinality(live \union held)
                               ELSE Cardinality(live \union held) + 1
    BY <1>4, FS_AddElement
  <2> QED
    BY <1>3, <1>4, <2>1, <2>2
<1>6. IsFiniteSet(Sessions) /\ Cardinality(Sessions) = 2 * R + 3
  BY <1>3, FS_Interval DEF Sessions
<1>7. \E s \in Sessions : s \notin used
  <2>1. SUFFICES ASSUME Sessions \subseteq used PROVE FALSE
    OBVIOUS
  <2>2. Cardinality(Sessions) <= Cardinality(used)
    BY <1>5, <2>1, FS_Subset
  <2>3. Cardinality(used) \in Nat
    BY <1>5, FS_CardinalityType
  <2> QED
    BY <1>3, <1>5, <1>6, <2>2, <2>3
<1> QED
  BY <1>7 DEF Fresh, Posted, Telling

-----------------------------------------------------------------------------
LEMMA InvInit == Init => Inv
<1> SUFFICES ASSUME Init PROVE Inv
  OBVIOUS
<1>1. TypeOK
  <2>1. pc \in [Requesters -> Stages] /\ sent \in [Requesters -> {NoSession} \union Sessions]
    BY DEF Init, Stages, Settled
  <2>2. executed \in [Calls -> Nat] /\ faults \in 0..MaxFaults
    BY HttpAssumption DEF Init
  <2>3. /\ timer \in BOOLEAN /\ stopping \in BOOLEAN /\ killed \in BOOLEAN
        /\ registered \in BOOLEAN /\ late \in BOOLEAN
    BY DEF Init
  <2> QED
    BY <2>1, <2>2, <2>3 DEF Init, TypeOK, Stages
<1>2. FewSessions
  BY FS_EmptySet, FiniteRequesters DEF Init, FewSessions
<1>3. \A c \in Calls : c \in Requesters
  BY DEF Requesters
<1>4. JoinedStart /\ ExecutedOnce /\ FailedForReason /\ OutageIsKnown
  BY <1>3 DEF Init, JoinedStart, ExecutedOnce, FailedForReason, OutageIsKnown,
     UnderWay, Settled
<1> QED
  BY <1>1, <1>2, <1>4 DEF Inv

(* What a step may do to a call, if the invariant is to survive it.        *)
CallStep(c) ==
    \/ /\ pc'[c] = pc[c] /\ executed'[c] = executed[c]
    \/ /\ pc[c] \notin Settled /\ executed'[c] = executed[c]
       /\ pc'[c] \notin Settled \/ pc'[c] = "done"
    \/ /\ pc[c] \notin Settled /\ executed'[c] \in {executed[c], executed[c] + 1}
       /\ pc'[c] = "done" \/ (pc'[c] = "failed" /\ (c \in hurt' \/ killed'))
    \/ /\ pc[c] = "idle" /\ executed'[c] = executed[c]
       /\ \/ pc'[c] = "failed" /\ killed'
          \/ pc'[c] \notin Settled /\ (server # "up" => c \in hurt')

LEMMA StepKeeps ==
    ASSUME Inv, TypeOK', FewSessions', JoinedStart',
           \A c \in Calls : CallStep(c),
           hurt \subseteq hurt', killed => killed',
           server' \in {server, "up"} \/ UnderWay' \subseteq hurt'
    PROVE  Inv'
<1> USE DEF Inv
<1>1. ExecutedOnce'
  <2> SUFFICES ASSUME NEW c \in Calls
               PROVE  executed'[c] \in {0, 1}
                      /\ (executed'[c] = 1 => pc'[c] \in {"done", "failed"})
    BY DEF ExecutedOnce
  <2>1. executed[c] \in {0, 1} /\ (executed[c] = 1 => pc[c] \in {"done", "failed"})
    BY DEF ExecutedOnce
  <2> QED
    BY <2>1 DEF CallStep, Settled
<1>2. FailedForReason'
  <2> SUFFICES ASSUME NEW c \in Calls, pc'[c] = "failed"
               PROVE  c \in hurt' \/ killed'
    BY DEF FailedForReason
  <2>1. pc[c] = "failed" => c \in hurt \/ killed
    BY DEF FailedForReason
  <2> QED
    BY <2>1 DEF CallStep, Settled
<1>3. OutageIsKnown'
  <2> SUFFICES ASSUME server' # "up", NEW c \in Calls, pc'[c] \notin Settled
               PROVE  c \in hurt'
    BY DEF OutageIsKnown, UnderWay
  <2>1. CASE UnderWay' \subseteq hurt'
    BY <2>1 DEF UnderWay
  <2>2. CASE server' = server
    <3>1. pc[c] \notin Settled => c \in hurt
      BY <2>2 DEF OutageIsKnown, UnderWay
    <3> QED
      BY <2>2, <3>1 DEF CallStep, Settled
  <2> QED
    BY <2>1, <2>2
<1> QED
  BY <1>1, <1>2, <1>3

-----------------------------------------------------------------------------
(* A requester whose request fails takes with it, if it is a start, those  *)
(* who await the start; nobody else (CallFails, BootFails).                *)
LEMMA FailsEffect ==
    ASSUME Inv, NEW x \in Requesters, pc[x] \in Waiting \union {"gate"},
           NEW kind, Fails(x, kind)
    PROVE  /\ pc' \in [Requesters -> Stages] /\ joined' \subseteq joined
           /\ state' \in States /\ timer' \in BOOLEAN /\ stopping' \in BOOLEAN
           /\ \A c \in Calls : \/ pc'[c] = pc[c] /\ (c \in joined' => c \in joined)
                                  /\ (c \in joined' => x # Boot)
                               \/ /\ pc[c] \notin Settled /\ pc'[c] = "failed"
                                  /\ c \notin joined'
                                  /\ c = x \/ x = Boot
<1> USE DEF Inv
<1>1. /\ pc \in [Requesters -> Stages] /\ state \in States /\ timer \in BOOLEAN
      /\ stopping \in BOOLEAN /\ \A c \in Calls : c \in Requesters /\ c # Boot
  BY HttpAssumption DEF TypeOK, Stages, States, Requesters
<1>2. \A c \in Calls : c \in joined => pc[c] = "starting"
  BY DEF JoinedStart
<1>3. CASE x = Boot
  <2>1. /\ pc' = [y \in Requesters |-> IF y = Boot THEN "idle"
                                      ELSE IF y \in joined THEN "failed" ELSE pc[y]]
        /\ joined' = {}
    BY <1>3 DEF Fails, BootFails
  <2>2. state' \in States /\ timer' \in BOOLEAN /\ stopping' \in BOOLEAN
    BY <1>1, <1>3 DEF Fails, BootFails, scheduleReconnect, States
  <2>3. pc' \in [Requesters -> Stages]
    BY <1>1, <2>1 DEF Stages, Settled
  <2> QED
    BY <1>1, <1>2, <1>3, <2>1, <2>2, <2>3 DEF Settled
<1>4. CASE x # Boot
  <2>1. pc' = [pc EXCEPT ![x] = "failed"] /\ joined' = joined
    BY <1>4 DEF Fails, CallFails
  <2>2. state' \in States /\ timer' \in BOOLEAN /\ stopping' \in BOOLEAN
    BY <1>1, <1>4 DEF Fails, CallFails, scheduleReconnect, States
  <2>3. pc' \in [Requesters -> Stages]
    BY <1>1, <2>1 DEF Stages, Settled
  <2>4. pc[x] \notin Settled /\ pc[x] # "starting"
    BY DEF Waiting, Settled
  <2> QED
    BY <1>1, <1>2, <1>4, <2>1, <2>2, <2>3, <2>4
<1> QED
  BY <1>3, <1>4

(* A failure keeps the invariant if the calls it fails have a reason.      *)
LEMMA FailsKeeps ==
    ASSUME Inv, NEW x \in Requesters, pc[x] \in Waiting \union {"gate"},
           NEW kind, Fails(x, kind),
           session' \in {NoSession, session}, sent' = sent,
           UNCHANGED <<killed, registered, late, server, live>>,
           faults' \in 0..MaxFaults,
           hurt' \in SUBSET Calls, hurt \subseteq hurt',
           \/ x = Boot /\ UnderWay \subseteq hurt'
           \/ x # Boot /\ x \in hurt',
           \A c \in Calls : executed'[c] = executed[c] \/ (c = x /\ executed'[c] = executed[c] + 1),
           executed' \in [Calls -> Nat]
    PROVE  Inv'
<1>1. /\ pc' \in [Requesters -> Stages] /\ joined' \subseteq joined
      /\ state' \in States /\ timer' \in BOOLEAN /\ stopping' \in BOOLEAN
      /\ \A c \in Calls : \/ pc'[c] = pc[c] /\ (c \in joined' => c \in joined)
                                  /\ (c \in joined' => x # Boot)
                          \/ /\ pc[c] \notin Settled /\ pc'[c] = "failed"
                             /\ c \notin joined' /\ (c = x \/ x = Boot)
  BY FailsEffect
<1>2. TypeOK'
  BY <1>1 DEF Inv, TypeOK, Stages, States
<1>3. JoinedStart'
  BY <1>1 DEF Inv, JoinedStart
<1>4. FewSessions'
  BY DEF Inv, FewSessions
<1>5. ASSUME NEW c \in Calls PROVE CallStep(c)
  <2>1. executed[c] \in {0, 1} /\ (executed[c] = 1 => pc[c] \in {"done", "failed"})
    BY DEF Inv, ExecutedOnce
  <2>2. c # Boot
    BY HttpAssumption
  <2>3. CASE c = x
    <3>1. pc[c] \notin Settled /\ pc[c] # "starting"
      BY <2>3 DEF Waiting, Settled
    <3>2. pc'[c] = "failed"
      BY <2>2, <2>3 DEF Fails, CallFails, Inv, TypeOK
    <3> QED
      BY <2>2, <2>3, <3>1, <3>2 DEF CallStep
  <2>4. CASE c # x
    <3>1. executed'[c] = executed[c]
      BY <2>4
    <3>2. pc'[c] = pc[c] \/ (pc[c] \notin Settled /\ pc'[c] = "failed" /\ x = Boot)
      BY <1>1, <2>4
    <3> QED
      BY <3>1, <3>2 DEF CallStep, UnderWay
  <2> QED
    BY <2>3, <2>4
<1> QED
  BY <1>2, <1>3, <1>4, <1>5, StepKeeps

-----------------------------------------------------------------------------
(* Asking for a start moves the one who asks, and the start itself.        *)
LEMMA StartEffect ==
    ASSUME Inv, NEW j \in Joiners, j \in Calls => pc[j] = "idle", start(j)
    PROVE  /\ pc' \in [Requesters -> Stages] /\ joined' \subseteq Joiners
           /\ state' \in States /\ timer' \in BOOLEAN /\ stopping' \in BOOLEAN
           /\ late' \in BOOLEAN /\ session' \in {NoSession, session}
           /\ \A c \in Calls : pc'[c] = (IF c = j THEN "starting" ELSE pc[c])
                               /\ (c \in joined' => c \in joined \/ c = j)
<1> USE DEF Inv
<1>1. /\ pc \in [Requesters -> Stages] /\ state \in States
      /\ stopping \in BOOLEAN /\ late \in BOOLEAN /\ joined \subseteq Joiners
      /\ \A c \in Calls : c \in Requesters /\ c # Boot
  BY HttpAssumption DEF TypeOK, Stages, States, Requesters
<1>2. /\ pc' = [x \in Requesters |-> IF x = Boot /\ pc[x] = "idle" THEN "init"
                                     ELSE IF x = j THEN "starting" ELSE pc[x]]
      /\ joined' = joined \union {j} /\ timer' = FALSE
  BY DEF start
<1>3. pc' \in [Requesters -> Stages]
  BY <1>1, <1>2 DEF Stages, Waiting
<1>4. state' \in States /\ stopping' \in BOOLEAN /\ late' \in BOOLEAN
      /\ session' \in {NoSession, session}
  BY <1>1 DEF start, States
<1> QED
  BY <1>1, <1>2, <1>3, <1>4

LEMMA StartKeeps ==
    ASSUME Inv, NEW j \in Joiners, j \in Calls => pc[j] = "idle", start(j),
           UNCHANGED <<killed, registered, sent, world, executed>>,
           hurt' \in SUBSET Calls, hurt \subseteq hurt',
           j \in Calls /\ server # "up" => j \in hurt'
    PROVE  Inv'
<1>1. /\ pc' \in [Requesters -> Stages] /\ joined' \subseteq Joiners
      /\ state' \in States /\ timer' \in BOOLEAN /\ stopping' \in BOOLEAN
      /\ late' \in BOOLEAN /\ session' \in {NoSession, session}
      /\ \A c \in Calls : pc'[c] = (IF c = j THEN "starting" ELSE pc[c])
                          /\ (c \in joined' => c \in joined \/ c = j)
  BY StartEffect
<1>2. TypeOK' /\ FewSessions'
  BY <1>1 DEF Inv, TypeOK, Stages, States, FewSessions, world
<1>3. JoinedStart'
  BY <1>1 DEF Inv, JoinedStart
<1>4. \A c \in Calls : CallStep(c)
  BY <1>1 DEF CallStep, Settled
<1> QED
  BY <1>2, <1>3, <1>4, StepKeeps DEF world

(* The server, the clock, the operator and whoever asks for a start.       *)
LEMMA OutsideKeeps ==
    Inv /\ (Outage \/ Repair \/ Forget \/ DeadlinePasses \/ killNow) => Inv'
<1> SUFFICES ASSUME Inv, Outage \/ Repair \/ Forget \/ DeadlinePasses \/ killNow
             PROVE  Inv'
  OBVIOUS
<1>1. /\ UNCHANGED <<pc, joined, sent, executed, registered, session, timer>>
      /\ state' \in {state, "stopped"} /\ stopping' \in {stopping, TRUE}
      /\ killed' \in {killed, TRUE} /\ late' \in {late, TRUE}
      /\ server' \in {"up", "down", "sick"} /\ live' \in {live, {}}
  BY DEF Outage, Repair, Forget, DeadlinePasses, killNow, this, world, history, Inv, TypeOK
<1>2. faults' \in 0..MaxFaults
  BY HttpAssumption DEF Outage, Repair, Forget, DeadlinePasses, killNow, Fault, world, Inv, TypeOK
<1>3. /\ hurt \subseteq hurt' /\ hurt' \subseteq Calls
      /\ server' \in {server, "up"} \/ UnderWay \subseteq hurt'
  BY DEF Outage, Repair, Forget, DeadlinePasses, killNow, world, history, Inv, TypeOK, UnderWay
<1>4. TypeOK'
  BY <1>1, <1>2, <1>3 DEF Inv, TypeOK
<1>5. FewSessions'
  BY <1>1, FS_EmptySet, FiniteRequesters DEF Inv, FewSessions
<1>6. JoinedStart' /\ (\A c \in Calls : CallStep(c)) /\ UnderWay' = UnderWay
  BY <1>1 DEF Inv, JoinedStart, CallStep, UnderWay
<1>7. killed => killed'
  BY <1>1 DEF Inv, TypeOK
<1> QED
  BY <1>3, <1>4, <1>5, <1>6, <1>7, StepKeeps

LEMMA AskingKeeps ==
    ASSUME Inv, Startup \/ TimerFires \/ (\E c \in Calls : Call(c))
    PROVE  Inv'
<1>1. CASE Startup
  <2>1. "startup" \in Joiners /\ "startup" \notin Calls /\ hurt \subseteq Calls
    BY HttpAssumption DEF Joiners, Inv, TypeOK
  <2> QED
    BY <1>1, <2>1, StartKeeps DEF Startup, history
<1>2. CASE TimerFires
  <2>1. "timer" \in Joiners /\ "timer" \notin Calls /\ hurt \subseteq Calls
    BY HttpAssumption DEF Joiners, Inv, TypeOK
  <2>2. CASE killed
    <3>1. /\ UNCHANGED <<stopping, late, session, pc, joined, killed, registered,
                         sent, world, history>>
          /\ timer' = FALSE /\ state' = "failed"
      BY <1>2, <2>2 DEF TimerFires
    <3>2. TypeOK' /\ FewSessions' /\ JoinedStart'
      BY <3>1 DEF Inv, TypeOK, FewSessions, JoinedStart, world, history
    <3>3. \A c \in Calls : CallStep(c)
      BY <3>1 DEF CallStep, history
    <3> QED
      BY <3>1, <3>2, <3>3, StepKeeps DEF world, history
  <2>3. CASE ~killed
    BY <1>2, <2>1, <2>3, StartKeeps DEF TimerFires, history
  <2> QED
    BY <2>2, <2>3
<1>3. ASSUME NEW c \in Calls, Call(c) PROVE Inv'
  <2>1. /\ pc[c] = "idle" /\ UNCHANGED <<world, executed>>
        /\ hurt' = IF server = "up" THEN hurt ELSE hurt \union {c}
        /\ c \in Requesters /\ c \in Joiners /\ hurt \subseteq Calls
    BY <1>3 DEF Call, Requesters, Joiners, Inv, TypeOK
  <2>2. CASE start(c) /\ UNCHANGED <<killed, registered, sent>>
    BY <2>1, <2>2, StartKeeps
  <2>3. CASE /\ pc' = [pc EXCEPT ![c] = "posted"]
             /\ sent' = [sent EXCEPT ![c] = session] /\ UNCHANGED this
    <3>1. TypeOK' /\ FewSessions'
      BY <2>1, <2>3 DEF Inv, TypeOK, FewSessions, world, this, Waiting
    <3>2. \A d \in Calls : pc'[d] = IF d = c THEN "posted" ELSE pc[d]
      BY <2>1, <2>3 DEF Inv, TypeOK
    <3>3. JoinedStart' /\ (\A d \in Calls : CallStep(d))
      BY <2>1, <2>3, <3>2 DEF Inv, JoinedStart, CallStep, Settled, this
    <3> QED
      BY <2>1, <2>3, <3>1, <3>3, StepKeeps DEF world, this
  <2>4. CASE /\ killed /\ pc' = [pc EXCEPT ![c] = "failed"] /\ state' = "failed"
             /\ UNCHANGED <<timer, session, stopping, killed, registered, late,
                            joined, sent>>
    <3>1. TypeOK' /\ FewSessions'
      BY <2>1, <2>4 DEF Inv, TypeOK, FewSessions, world, Settled
    <3>2. \A d \in Calls : pc'[d] = IF d = c THEN "failed" ELSE pc[d]
      BY <2>1, <2>4 DEF Inv, TypeOK
    <3>3. JoinedStart' /\ (\A d \in Calls : CallStep(d))
      BY <2>1, <2>4, <3>2 DEF Inv, JoinedStart, CallStep, Settled
    <3> QED
      BY <2>1, <2>4, <3>1, <3>3, StepKeeps DEF world
  <2> QED
    BY <1>3, <2>2, <2>3, <2>4 DEF Call
<1> QED
  BY <1>1, <1>2, <1>3

-----------------------------------------------------------------------------
(* A start that ends well lets those who awaited it go on.                 *)
LEMMA BootKeeps ==
    ASSUME Inv, BootReady \/ BootRefused
    PROVE  Inv'
<1>1. \A c \in Calls : c \in Requesters /\ c # Boot
  BY HttpAssumption DEF Requesters
<1>2. CASE BootReady
  <2>1. /\ UNCHANGED <<timer, session, stopping, killed, late, world, history>>
        /\ registered' = TRUE /\ state' = "ready" /\ joined' = {}
        /\ pc' = [x \in Requesters |-> IF x = Boot THEN "idle"
                                       ELSE IF x \in joined THEN "posted" ELSE pc[x]]
        /\ sent' = [x \in Requesters |-> IF x \in joined THEN session ELSE sent[x]]
    BY <1>2 DEF BootReady
  <2>2. pc' \in [Requesters -> Waiting \union Settled \union {"starting", "gate"}]
        /\ sent' \in [Requesters -> {NoSession} \union Sessions]
    BY <2>1 DEF Inv, TypeOK, Settled, Waiting
  <2>3. TypeOK' /\ FewSessions' /\ JoinedStart'
    BY <2>1, <2>2 DEF Inv, TypeOK, FewSessions, JoinedStart, world, history
  <2>4. ASSUME NEW c \in Calls PROVE CallStep(c)
    <3>1. c \in joined => pc[c] = "starting"
      BY DEF Inv, JoinedStart
    <3> QED
      BY <1>1, <2>1, <3>1 DEF CallStep, Settled, history
  <2> QED
    BY <2>1, <2>3, <2>4, StepKeeps DEF world, history
<1>3. CASE BootRefused
  <2>1. /\ pc[Boot] = "gate" /\ Fails(Boot, "terminal") /\ Boot \in Requesters
        /\ hurt' = hurt \union UnderWay /\ UNCHANGED <<session, killed, registered,
                                                       late, sent, world, executed>>
    BY <1>3 DEF BootRefused, Fails, Requesters
  <2>2. /\ hurt' \in SUBSET Calls /\ hurt \subseteq hurt' /\ UnderWay \subseteq hurt'
        /\ faults' \in 0..MaxFaults /\ executed' \in [Calls -> Nat]
    BY <2>1 DEF Inv, TypeOK, UnderWay, world
  <2> QED
    BY <2>1, <2>2, FailsKeeps DEF world
<1> QED
  BY <1>2, <1>3

(* A request that ends in an error: every way to fail has its reason.      *)
LEMMA FaultKeeps ==
    ASSUME Inv, NEW x \in Requesters,
           AnswerLost(x) \/ Sessionless(x) \/ Unserved(x) \/ TimedOut(x)
    PROVE  Inv'
<1>1. /\ pc[x] \in Waiting
      /\ \E kind \in {"unreachable", "timeout", "status"} : Fails(x, kind)
      /\ UNCHANGED <<session, killed, registered, late, sent, server, live>>
  BY DEF AnswerLost, Sessionless, Unserved, TimedOut, Posted, Waiting, world
<1>2. faults' \in 0..MaxFaults
  BY HttpAssumption DEF AnswerLost, Sessionless, Unserved, TimedOut, Fault, world, Inv, TypeOK
<1>3. x # Boot => x \in Calls /\ x \in UnderWay
  BY <1>1 DEF Requesters, UnderWay, Waiting, Settled
<1>4. /\ executed' \in [Calls -> Nat]
      /\ \A c \in Calls : \/ executed'[c] = executed[c]
                          \/ c = x /\ executed'[c] = executed[c] + 1
  BY DEF AnswerLost, Sessionless, Unserved, TimedOut, Executes, history, Inv, TypeOK
<1>5. /\ hurt' \in SUBSET Calls /\ hurt \subseteq hurt'
      /\ \/ x = Boot /\ UnderWay \subseteq hurt'
         \/ x # Boot /\ x \in hurt'
  <2>1. CASE AnswerLost(x) \/ TimedOut(x)
    BY <1>3, <2>1 DEF AnswerLost, TimedOut, Inv, TypeOK, UnderWay
  <2>2. CASE Sessionless(x)
    BY <1>3, <2>2 DEF Sessionless, Inv, TypeOK, UnderWay
  <2>3. CASE Unserved(x)
    BY <1>3, <2>3 DEF Unserved, Inv, TypeOK, OutageIsKnown, history
  <2> QED
    BY <2>1, <2>2, <2>3
<1> QED
  BY <1>1, <1>2, <1>4, <1>5, FailsKeeps

(* A forgotten session is dropped, and replaced unless it is too late.     *)
LEMMA StaleKeeps ==
    ASSUME Inv, NEW x \in Requesters, StaleSession(x)
    PROVE  Inv'
<1>1. /\ pc[x] \in Waiting /\ session' \in {NoSession, session}
      /\ UNCHANGED <<killed, registered, late, sent, world, executed>>
      /\ hurt' = IF late \/ pc[x] = "reposted" THEN hurt \union UnderWay ELSE hurt
  BY DEF StaleSession, Posted, Telling, Waiting
<1>2. /\ hurt' \in SUBSET Calls /\ hurt \subseteq hurt' /\ executed' \in [Calls -> Nat]
      /\ faults' \in 0..MaxFaults
  BY <1>1 DEF Inv, TypeOK, UnderWay, world
<1>3. x # Boot => x \in Calls /\ x \in UnderWay
  BY <1>1 DEF Requesters, UnderWay, Waiting, Settled
<1>4. CASE late \/ pc[x] = "reposted"
  <2>1. \E kind \in {"status", "terminal"} : Fails(x, kind)
    BY <1>4 DEF StaleSession
  <2> QED
    BY <1>1, <1>2, <1>3, <1>4, <2>1, FailsKeeps DEF world
<1>5. CASE ~(late \/ pc[x] = "reposted")
  <2>1. /\ pc' = [pc EXCEPT ![x] = IF @ = "notify" THEN "init" ELSE "reinit"]
        /\ UNCHANGED <<state, timer, stopping, joined>>
    BY <1>5 DEF StaleSession
  <2>2. \A c \in Calls : pc'[c] = pc[c] \/ (c = x /\ pc'[c] \in {"init", "reinit"})
    BY <2>1 DEF Inv, TypeOK, Requesters
  <2>3. TypeOK' /\ FewSessions'
    BY <1>1, <1>2, <2>1 DEF Inv, TypeOK, FewSessions, Waiting, world
  <2>4. JoinedStart'
    BY <1>1, <2>1, <2>2 DEF Inv, JoinedStart, Waiting
  <2>5. \A c \in Calls : CallStep(c)
    BY <1>1, <2>2 DEF CallStep, Waiting, Settled
  <2> QED
    BY <1>1, <1>2, <2>3, <2>4, <2>5, StepKeeps DEF world
<1> QED
  BY <1>4, <1>5

(* A request that is answered, or goes on to the next one.                 *)
LEMMA ServedKeeps ==
    ASSUME Inv, NEW x \in Requesters, Answered(x) \/ Initialized(x) \/ Notified(x)
    PROVE  Inv'
<1>1. \A c \in Calls : c \in Requesters /\ c # Boot
  BY HttpAssumption DEF Requesters
<1>2. CASE Answered(x)
  <2>1. /\ pc[x] \in {"posted", "reposted"} /\ session' \in {session, sent[x]}
        /\ pc' = [pc EXCEPT ![x] = IF x = Boot THEN "gate" ELSE "done"]
        /\ UNCHANGED <<state, timer, stopping, killed, registered, late, joined,
                       sent, world, hurt>>
    BY <1>2 DEF Answered, Posted
  <2>2. /\ executed' \in [Calls -> Nat]
        /\ \A c \in Calls : executed'[c] = IF c = x THEN executed[c] + 1 ELSE executed[c]
    BY <1>2 DEF Answered, Executes, Inv, TypeOK
  <2>3. \A c \in Calls : pc'[c] = IF c = x THEN "done" ELSE pc[c]
    BY <1>1, <2>1 DEF Inv, TypeOK
  <2>4. pc' \in [Requesters -> Waiting \union Settled \union {"starting", "gate"}]
    BY <2>1 DEF Inv, TypeOK, Settled
  <2>5. TypeOK' /\ FewSessions'
    BY <2>1, <2>2, <2>4 DEF Inv, TypeOK, FewSessions, world
  <2>6. JoinedStart'
    BY <2>1, <2>3 DEF Inv, JoinedStart
  <2>7. \A c \in Calls : CallStep(c)
    BY <2>1, <2>2, <2>3 DEF CallStep, Settled
  <2> QED
    BY <2>1, <2>5, <2>6, <2>7, StepKeeps DEF world
<1>3. CASE Initialized(x)
  <2>1. /\ pc[x] \in {"init", "reinit"}
        /\ UNCHANGED <<state, timer, stopping, killed, registered, late, joined,
                       server, faults, history>>
        /\ session' = Fresh /\ sent' = [sent EXCEPT ![x] = Fresh]
        /\ pc' = [pc EXCEPT ![x] = IF @ = "init" THEN "notify" ELSE "renotify"]
        /\ live' = {s \in live : \E y \in Posted \union Telling : s = sent[y]} \union {Fresh}
    BY <1>3 DEF Initialized
  <2>2. Fresh \in Sessions
    BY FreshExists DEF Inv
  <2>3. \A c \in Calls : pc'[c] = pc[c] \/ (c = x /\ pc'[c] \in {"notify", "renotify"})
    BY <1>1, <2>1 DEF Inv, TypeOK
  <2>4. TypeOK'
    BY <2>1, <2>2 DEF Inv, TypeOK, Waiting, history
  <2>5. FewSessions'
    <3> DEFINE held == {sent[y] : y \in Requesters}
               kept == {s \in live : \E y \in Posted \union Telling : s = sent[y]}
    <3>1. IsFiniteSet(held) /\ Cardinality(held) \in Nat
          /\ Cardinality(held) <= Cardinality(Requesters)
      BY FewHeld DEF Inv
    <3>2. kept \subseteq held
      BY DEF Posted, Telling
    <3> HIDE DEF kept, held
    <3>3. IsFiniteSet(kept) /\ Cardinality(kept) <= Cardinality(held)
      BY <3>1, <3>2, FS_Subset
    <3>4. Cardinality(kept) \in Nat
      BY <3>3, FS_CardinalityType
    <3>5. /\ IsFiniteSet(kept \union {Fresh})
          /\ Cardinality(kept \union {Fresh}) = IF Fresh \in kept THEN Cardinality(kept)
                                                ELSE Cardinality(kept) + 1
      BY <3>3, FS_AddElement
    <3>6. live' = kept \union {Fresh}
      BY <2>1 DEF kept
    <3> QED
      BY <3>1, <3>3, <3>4, <3>5, <3>6, FiniteRequesters DEF FewSessions
  <2>6. JoinedStart'
    BY <2>1, <2>3 DEF Inv, JoinedStart
  <2>7. \A c \in Calls : CallStep(c)
    BY <2>1, <2>3 DEF CallStep, Settled, history
  <2> QED
    BY <2>1, <2>4, <2>5, <2>6, <2>7, StepKeeps DEF history
<1>4. CASE Notified(x)
  <2>1. /\ pc[x] \in {"notify", "renotify"}
        /\ hurt' = IF late THEN hurt \union UnderWay ELSE hurt
        /\ UNCHANGED <<session, killed, registered, late, world, executed>>
    BY <1>4 DEF Notified, Telling
  <2>2. /\ hurt' \in SUBSET Calls /\ hurt \subseteq hurt' /\ executed' \in [Calls -> Nat]
        /\ faults' \in 0..MaxFaults
    BY <2>1 DEF Inv, TypeOK, UnderWay, world
  <2>3. CASE pc[x] = "notify" /\ late
    <3>1. Fails(x, "terminal") /\ UNCHANGED sent /\ pc[x] \in Waiting
      BY <1>4, <2>3 DEF Notified, Waiting
    <3>2. x # Boot => x \in Calls /\ x \in UnderWay
      BY <3>1 DEF Requesters, UnderWay, Waiting, Settled
    <3> QED
      BY <2>1, <2>2, <2>3, <3>1, <3>2, FailsKeeps DEF world
  <2>4. CASE ~(pc[x] = "notify" /\ late)
    <3>1. /\ pc' = [pc EXCEPT ![x] = IF @ = "notify" THEN "posted" ELSE "reposted"]
          /\ sent' = [sent EXCEPT ![x] = session]
          /\ UNCHANGED <<state, timer, stopping, joined>>
      BY <1>4, <2>4 DEF Notified
    <3>2. \A c \in Calls : pc'[c] = pc[c] \/ (c = x /\ pc'[c] \in {"posted", "reposted"})
      BY <1>1, <3>1 DEF Inv, TypeOK
    <3>3. TypeOK' /\ FewSessions'
      BY <2>1, <2>2, <3>1 DEF Inv, TypeOK, FewSessions, Waiting, world
    <3>4. JoinedStart'
      BY <2>1, <3>1, <3>2 DEF Inv, JoinedStart
    <3>5. \A c \in Calls : CallStep(c)
      BY <2>1, <3>2 DEF CallStep, Settled
    <3> QED
      BY <2>1, <2>2, <3>3, <3>4, <3>5, StepKeeps DEF world
  <2> QED
    BY <2>3, <2>4
<1> QED
  BY <1>2, <1>3, <1>4

-----------------------------------------------------------------------------
LEMMA InvNext == Inv /\ [Next]_vars => Inv'
<1> SUFFICES ASSUME Inv, [Next]_vars PROVE Inv'
  OBVIOUS
<1>1. CASE Outage \/ Repair \/ Forget \/ DeadlinePasses \/ killNow
  BY <1>1, OutsideKeeps
<1>2. CASE Startup \/ TimerFires \/ (\E c \in Calls : Call(c))
  BY <1>2, AskingKeeps
<1>3. CASE BootReady \/ BootRefused
  BY <1>3, BootKeeps
<1>4. ASSUME NEW x \in Requesters, Progress(x) \/ AnswerLost(x) \/ TimedOut(x)
      PROVE  Inv'
  BY <1>4, FaultKeeps, StaleKeeps, ServedKeeps DEF Progress
<1>5. CASE UNCHANGED vars
  BY <1>5 DEF vars, this, world, history, Inv, TypeOK, JoinedStart, ExecutedOnce,
     FailedForReason, OutageIsKnown, UnderWay, FewSessions
<1> QED
  BY <1>1, <1>2, <1>3, <1>4, <1>5 DEF Next

(* For any number of calls and faults, no call is executed twice and none  *)
(* fails without a reason, whatever sessions are forgotten, replaced or    *)
(* taken away (postMessage, call).                                         *)
THEOREM CallsServed == Spec => []CallsAreServed
<1>1. Inv => CallsAreServed
  <2> SUFFICES ASSUME Inv, NEW c \in Calls PROVE executed[c] <= 1
    BY DEF Inv, CallsAreServed, FailedForReason
  <2> QED
    BY DEF Inv, ExecutedOnce
<1> QED
  BY <1>1, InvInit, InvNext, PTL DEF Spec

=============================================================================
