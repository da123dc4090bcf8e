--------------------------- MODULE HttpProvider ---------------------------
(***************************************************************************)
(* A federated provider reached over HTTP: class HttpProvider of           *)
(* src/lib/federation.mjs, with the parts of Provider it inherits.         *)
(*                                                                         *)
(* The provider keeps a session with a server that may be down, may answer *)
(* everything with an error status, and may forget its sessions.  Calls    *)
(* run concurrently; each may find the provider not ready and join the     *)
(* start under way, or find the session stale, open a new one and post     *)
(* again.  Every await lets the others run.                                *)
(*                                                                         *)
(* A requester is a call, or Boot, the start attempt under way; calls and  *)
(* timers that ask for a start while there is one share it.  Which tools   *)
(* there are, and who owns their names, is the subject of ToolNames.       *)
(***************************************************************************)
EXTENDS Naturals, FiniteSets

CONSTANTS Calls,      \* tool calls, each made at most once
          Boot,       \* the start attempt
          MaxFaults   \* bound: outages, forgotten sessions, lost answers

ASSUME HttpAssumption ==
    /\ IsFiniteSet(Calls) /\ MaxFaults \in Nat
    /\ Calls \intersect {Boot, "startup", "timer"} = {}
    /\ Boot \notin {"startup", "timer"}

Requesters == Calls \union {Boot}
Sessions   == 1..(2 * Cardinality(Requesters) + 3)
NoSession  == 0

VARIABLES
    state,       \* this.state
    timer,       \* this.reconnectTimer is armed
    session,     \* this.sessionId
    stopping,    \* this.stopping
    killed,      \* this.killed
    registered,  \* this.firstRegistrationDone: its tools can be called
    late,        \* this.startDeadline has passed
    joined,      \* who awaits startPromise
    pc,          \* per requester, what it awaits
    sent,        \* per requester, the session its request carries
    server,      \* how the server answers
    live,        \* sessions the server knows
    faults,      \* faults so far
    executed,    \* history: how often a call was executed
    hurt         \* history: calls with a reason to fail

this    == <<state, timer, session, stopping, killed, registered, late, joined>>
world   == <<server, live, faults>>
history == <<executed, hurt>>
vars    == <<this, pc, sent, world, history>>

Joiners == Calls \union {"startup", "timer"}

Init ==
    /\ state = "configured" /\ timer = FALSE /\ session = NoSession
    /\ stopping = FALSE /\ killed = FALSE /\ registered = FALSE
    /\ late = FALSE /\ joined = {}
    /\ pc = [x \in Requesters |-> "idle"]
    /\ sent = [x \in Requesters |-> NoSession]
    /\ server \in {"up", "down"} /\ live = {} /\ faults = 0
    /\ executed = [c \in Calls |-> 0] /\ hurt = {}

Settled  == {"idle", "done", "failed"}
UnderWay == {c \in Calls : pc[c] \notin Settled}
Posted   == {x \in Requesters : pc[x] \in {"posted", "reposted"}}
Telling  == {x \in Requesters : pc[x] \in {"notify", "renotify"}}

-----------------------------------------------------------------------------
(***************************************************************************)
(* The server and the network.                                             *)
(***************************************************************************)
Fault == faults < MaxFaults /\ faults' = faults + 1

Outage ==
    /\ Fault
    /\ server = "up"
    /\ server' \in {"down", "sick"}
    /\ hurt' = hurt \union UnderWay
    /\ UNCHANGED <<this, pc, sent, live, executed>>

Repair ==
    /\ server # "up"
    /\ server' = "up"
    /\ UNCHANGED <<this, pc, sent, live, faults, history>>

Forget ==
    /\ Fault
    /\ live # {}
    /\ live' = {}
    /\ UNCHANGED <<this, pc, sent, server, history>>

DeadlinePasses ==
    /\ state # "configured" /\ ~late
    /\ late' = TRUE
    /\ UNCHANGED <<state, timer, session, stopping, killed, registered, joined,
                   pc, sent, world, history>>

(* A session no request and no provider holds is as good as forgotten.     *)
Fresh == CHOOSE s \in Sessions : /\ s \notin live /\ s # session
                                 /\ \A x \in Posted \union Telling : s # sent[x]

-----------------------------------------------------------------------------
(***************************************************************************)
(* Reconnecting.                                                           *)
(***************************************************************************)
scheduleReconnect ==
    IF killed \/ stopping THEN UNCHANGED <<state, timer>>
    ELSE state' = "reconnecting" /\ timer' = TRUE

(* What follows for one requester when its request ends in an error of the *)
(* given kind: "unreachable", "timeout", "status", or "terminal".  An      *)
(* error without a code, a terminal one included, counts as unreachable    *)
(* once it passes through postMessage; one with a status does not.         *)
CallFails(c, kind) ==
    /\ pc' = [pc EXCEPT ![c] = "failed"]
    /\ IF kind \in {"unreachable", "terminal"} THEN scheduleReconnect
                                               ELSE UNCHANGED <<state, timer>>
    /\ UNCHANGED <<stopping, joined>>

TimerForgets(kind) ==                                              \* mutant
    /\ pc' = [x \in Requesters |-> IF x = Boot THEN "idle"
                                   ELSE IF x \in joined THEN "failed" ELSE pc[x]]
    /\ joined' = {}
    /\ IF kind \in {"unreachable", "timeout"} /\ joined # {"timer"}
       THEN scheduleReconnect
       ELSE UNCHANGED <<state, timer>>
    /\ UNCHANGED stopping

TellsNobody(kind) ==                                               \* mutant
    /\ pc' = [pc EXCEPT ![Boot] = "idle"]
    /\ joined' = {}
    /\ scheduleReconnect
    /\ UNCHANGED stopping

(* Everyone who awaits the start is told, and each that made it handles    *)
(* the failure: startOne, the timer's catch, or call's.                    *)
BootFails(kind) ==
    /\ pc' = [x \in Requesters |-> IF x = Boot THEN "idle"
                                   ELSE IF x \in joined THEN "failed" ELSE pc[x]]
    /\ joined' = {}
    /\ IF kind \in {"unreachable", "timeout"}
       THEN scheduleReconnect /\ UNCHANGED stopping
       ELSE /\ state' = "failed"
            /\ stopping' = (stopping \/ "startup" \in joined)
            /\ timer' = (timer /\ "startup" \notin joined)

Fails(x, kind) == IF x = Boot THEN BootFails(kind) ELSE CallFails(x, kind)

-----------------------------------------------------------------------------
(***************************************************************************)
(* Starting.                                                               *)
(***************************************************************************)
(* start, asked for by j: a revoked provider refuses, a start under way is *)
(* shared, and otherwise startNow begins one.                              *)
start(j) ==
    /\ ~killed
    /\ joined' = joined \union {j}
    /\ timer' = FALSE
    /\ pc' = [x \in Requesters |-> IF x = Boot /\ pc[x] = "idle" THEN "init"
                                   ELSE IF x = j THEN "starting" ELSE pc[x]]
    /\ IF pc[Boot] = "idle"
       THEN /\ stopping' = FALSE /\ state' = "starting" /\ late' = FALSE
            /\ session' = NoSession
       ELSE UNCHANGED <<stopping, state, late, session>>

(* startOne, once.                                                         *)
Startup ==
    /\ state = "configured"
    /\ start("startup")
    /\ UNCHANGED <<killed, registered, sent, world, history>>

TimerFires ==
    /\ timer
    /\ IF killed
       THEN /\ timer' = FALSE /\ state' = "failed"
            /\ UNCHANGED <<stopping, late, session, pc, joined>>
       ELSE start("timer")
    /\ UNCHANGED <<killed, registered, sent, world, history>>

(* The last await of a start is over: tools are registered, and those who  *)
(* awaited it go on.                                                       *)
BootReady ==
    /\ pc[Boot] = "gate"
    /\ registered' = TRUE
    /\ state' = "ready"
    /\ joined' = {}
    /\ pc' = [x \in Requesters |-> IF x = Boot THEN "idle"
                                   ELSE IF x \in joined THEN "posted" ELSE pc[x]]
    /\ sent' = [x \in Requesters |-> IF x \in joined THEN session ELSE sent[x]]
    /\ UNCHANGED <<timer, session, stopping, killed, late, world, history>>

(* registerTools throws, for a name it may not have, say: terminal.        *)
BootRefused ==
    /\ pc[Boot] = "gate"
    /\ BootFails("terminal")
    /\ hurt' = hurt \union UnderWay
    /\ UNCHANGED <<session, killed, registered, late, sent, world, executed>>

-----------------------------------------------------------------------------
(***************************************************************************)
(* Calls.                                                                  *)
(***************************************************************************)
Call(c) ==
    /\ registered /\ pc[c] = "idle"
    /\ \/ /\ state = "ready"
          /\ pc' = [pc EXCEPT ![c] = "posted"]
          /\ sent' = [sent EXCEPT ![c] = session]
          /\ UNCHANGED this
       \/ /\ state # "ready" /\ ~killed
          /\ start(c)
          /\ UNCHANGED <<killed, registered, sent>>
       \/ /\ state # "ready" /\ killed
          /\ pc' = [pc EXCEPT ![c] = "failed"]
          /\ state' = "failed"
          /\ UNCHANGED <<timer, session, stopping, killed, registered, late,
                         joined, sent>>
    /\ hurt' = IF server = "up" THEN hurt ELSE hurt \union {c}
    /\ UNCHANGED <<world, executed>>

-----------------------------------------------------------------------------
(***************************************************************************)
(* postMessage.                                                            *)
(***************************************************************************)
Executes(x) ==
    executed' = IF x \in Calls THEN [executed EXCEPT ![x] = @ + 1] ELSE executed

(* The server accepts the session, and may name it in the answer.          *)
Answered(x) ==
    /\ x \in Posted /\ server = "up" /\ sent[x] \in live
    /\ Executes(x)
    /\ pc' = [pc EXCEPT ![x] = IF x = Boot THEN "gate" ELSE "done"]
    /\ session' \in {session, sent[x]}
    /\ UNCHANGED <<state, timer, stopping, killed, registered, late, joined,
                   sent, world, hurt>>

PostAgain(x) ==                                                    \* mutant
    /\ Fault
    /\ x \in Posted /\ server = "up" /\ sent[x] \in live
    /\ Executes(x)
    /\ hurt' = hurt \union UnderWay
    /\ UNCHANGED <<this, pc, sent, server, live>>

AnswerLost(x) ==
    /\ Fault
    /\ x \in Posted /\ server = "up" /\ sent[x] \in live
    /\ Executes(x)
    /\ Fails(x, "unreachable")
    /\ hurt' = hurt \union UnderWay
    /\ UNCHANGED <<session, killed, registered, late, sent, server, live>>

(* 404 to a request, or a notification, with a session: drop it, open      *)
(* another, post again -- once.  Opening one is charged against the        *)
(* deadline of the last start.                                             *)
StaleSession(x) ==
    /\ x \in Posted \union Telling /\ server = "up"
    /\ sent[x] \notin live /\ sent[x] # NoSession
    /\ IF pc[x] = "reposted"
       THEN Fails(x, "status") /\ UNCHANGED session
       ELSE /\ session' = NoSession
            /\ IF late THEN Fails(x, "terminal")
               ELSE /\ pc' = [pc EXCEPT ![x] = IF @ = "notify" THEN "init" ELSE "reinit"]
                    /\ UNCHANGED <<state, timer, stopping, joined>>
    /\ hurt' = IF late \/ pc[x] = "reposted" THEN hurt \union UnderWay ELSE hurt
    /\ UNCHANGED <<killed, registered, late, sent, world, executed>>

(* A request without a session, which this server wants: it was made while *)
(* another was replacing the session, or after it failed to.               *)
Sessionless(x) ==
    /\ x \in Posted /\ server = "up" /\ sent[x] = NoSession
    /\ Fails(x, "status")
    /\ hurt' = IF x = Boot THEN hurt \union UnderWay ELSE hurt \union {x}
    /\ UNCHANGED <<session, killed, registered, late, sent, world, executed>>

(* initialize: by a start, or to replace a stale session.                  *)
Initialized(x) ==
    /\ pc[x] \in {"init", "reinit"} /\ server = "up"
    /\ session' = Fresh
    /\ live' = {s \in live : \E y \in Posted \union Telling : s = sent[y]}
               \union {Fresh}
    /\ sent' = [sent EXCEPT ![x] = Fresh]
    /\ pc' = [pc EXCEPT ![x] = IF @ = "init" THEN "notify" ELSE "renotify"]
    /\ UNCHANGED <<state, timer, stopping, killed, registered, late, joined,
                   server, faults, history>>

(* notifications/initialized was accepted: a start asks for the tools, a   *)
(* call posts again, with the session the provider has by then.            *)
Notified(x) ==
    /\ x \in Telling /\ server = "up" /\ sent[x] \in live
    /\ IF pc[x] = "notify" /\ late
       THEN Fails(x, "terminal") /\ UNCHANGED sent
       ELSE /\ pc' = [pc EXCEPT ![x] = IF @ = "notify" THEN "posted" ELSE "reposted"]
            /\ sent' = [sent EXCEPT ![x] = session]
            /\ UNCHANGED <<state, timer, stopping, joined>>
    /\ hurt' = IF late THEN hurt \union UnderWay ELSE hurt
    /\ UNCHANGED <<session, killed, registered, late, world, executed>>

Waiting == {"init", "notify", "posted", "reinit", "renotify", "reposted"}

Unserved(x) ==
    /\ pc[x] \in Waiting /\ server # "up"
    /\ Fails(x, IF server = "down" THEN "unreachable" ELSE "status")
    /\ UNCHANGED <<session, killed, registered, late, sent, world, history>>

(* The abort timer of the request.                                         *)
TimedOut(x) ==
    /\ Fault
    /\ pc[x] \in Waiting
    /\ Fails(x, "timeout")
    /\ hurt' = hurt \union UnderWay
    /\ UNCHANGED <<session, killed, registered, late, sent, server, live, executed>>

killNow ==
    /\ ~killed
    /\ killed' = TRUE /\ stopping' = TRUE /\ state' = "stopped"
    /\ UNCHANGED <<timer, session, registered, late, joined,
                   pc, sent, world, history>>

Progress(x) == \/ Answered(x) \/ StaleSession(x) \/ Sessionless(x)
               \/ Initialized(x) \/ Notified(x) \/ Unserved(x)

Next ==
    \/ Outage \/ Repair \/ Forget \/ DeadlinePasses \/ killNow
    \/ Startup \/ TimerFires \/ BootReady \/ BootRefused
    \/ \E c \in Calls : Call(c)
    \/ \E x \in Requesters : Progress(x) \/ AnswerLost(x) \/ TimedOut(x)

Spec == Init /\ [][Next]_vars

(* Timers fire, requests are answered or fail, a settled start resumes its *)
(* callers.  The server need not come back, nobody need call.              *)
Fairness ==
    /\ WF_vars(Startup) /\ WF_vars(TimerFires)
    /\ WF_vars(BootReady \/ BootRefused)
    /\ \A x \in Requesters : WF_vars(Progress(x))

FairSpec == Spec /\ Fairness

-----------------------------------------------------------------------------
(* Every variable has its type; the sessions never run out.                *)
TypeOK ==
    /\ state \in {"configured", "starting", "ready", "reconnecting", "failed",
                  "stopped"}
    /\ {timer, stopping, killed, registered, late} \subseteq BOOLEAN
    /\ session \in {NoSession} \union Sessions /\ live \subseteq Sessions
    /\ joined \subseteq Joiners
    /\ pc \in [Requesters -> Waiting \union Settled \union {"starting", "gate"}]
    /\ sent \in [Requesters -> {NoSession} \union Sessions]
    /\ server \in {"up", "down", "sick"} /\ faults \in 0..MaxFaults
    /\ executed \in [Calls -> Nat] /\ hurt \subseteq Calls

(* A tool call has side effects, so recovering a session or reconnecting   *)
(* never executes it twice; and a session the server forgot is replaced    *)
(* behind the call's back: a call fails only for a fault of the server, a  *)
(* late or refused start, a session forgotten twice, or one another call   *)
(* has taken away, while it was under way, or by revocation (postMessage,  *)
(* call).                                                                  *)
CallsAreServed ==
    /\ TypeOK
    /\ \A c \in Calls : executed[c] <= 1
    /\ \A c \in Calls : pc[c] = "failed" => c \in hurt \/ killed

(* A late requester's failure never undoes readiness without arming the    *)
(* timer, and whoever waits for one has armed it: once the server stays    *)
(* reachable, the provider is ready again and again, unless it gave up or  *)
(* was stopped (scheduleReconnect, handleReconnectFailure, start).         *)
Reconnects ==
    <>[](server = "up") => []<>(state \in {"ready", "failed", "stopped"})

(* Every call ends, whatever happened to the start or session it awaited.  *)
CallsSettle == \A c \in Calls : c \in UnderWay ~> pc[c] \in {"done", "failed"}

=============================================================================
