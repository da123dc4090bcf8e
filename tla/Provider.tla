------------------------------ MODULE Provider ------------------------------
(***************************************************************************)
(* The life of one federated MCP provider: class Provider and startOne of  *)
(* src/lib/federation.mjs.                                                 *)
(*                                                                         *)
(* start() awaits the file system, the operator's approval, a flag probe,  *)
(* the spawn, the metadata write, the handshake and, on the first start,   *)
(* the registrations of earlier providers.  Between any two of these the   *)
(* child may exit, the grant may run out, a ping may fail, a restart timer *)
(* may fire or the operator may revoke everything.  The grant of a         *)
(* personal-profile provider is single-use and expires.                    *)
(*                                                                         *)
(* `this` is the Provider object.  The handlers that run in one turn of    *)
(* the event loop are functions from object to object, composed as the     *)
(* code calls them; signals to process groups are collected beside them.   *)
(* Start attempt s spawns at most one child, which is also named s.  The   *)
(* flag probe it may run before is a process of its own, which is neither  *)
(* this.child nor in a group of its own: only the probe's timer signals it,*)
(* and that timer goes with the bridge.                                    *)
(***************************************************************************)
EXTENDS Naturals

CONSTANTS Modes,        \* configurations considered, out of isolated and personal
          MaxStarts,    \* bound: start attempts
          RestartMax,   \* RESTART_MAX_ATTEMPTS
          PromptDisk,   \* a metadata write ends before a restart's backoff does
          MaxApprovals  \* bound: grants the operator writes

ASSUME ProviderAssumption ==
    /\ Modes \subseteq {"isolated", "personal"}
    /\ MaxStarts \in Nat \ {0}
    /\ RestartMax \in Nat \ {0}
    /\ PromptDisk \in BOOLEAN
    /\ MaxApprovals \in Nat

Starts == 1..MaxStarts
None   == 0             \* null: no child, no process group

VARIABLES
    mode,       \* config.mode
    flagCheck,  \* whether the config has a flagCheck
    this,       \* the Provider object
    pc,         \* per start attempt, where it awaits
    os,         \* per process, what the system knows of it
    signal,     \* per process, the strongest signal its group was sent
    heard,      \* per process, whether the 'exit' listener is attached
    probe,      \* per start attempt, its flag probe; "none" once sent SIGKILL
    up,         \* whether the bridge is alive
    gate,       \* whether registrationGate has resolved
    approval,   \* whether an approval file is there
    approved,   \* approvals the operator has written
    consumed,   \* approvals consumed
    lapsed      \* history: the grant ran out before the child was spawned

procs == <<os, signal, heard>>
world == <<gate, approval, approved, consumed>>
vars  == <<mode, flagCheck, this, pc, procs, probe, up, world, lapsed>>

NewProvider ==
    [state |-> "configured", child |-> None, pgid |-> None,
     killed |-> FALSE, stopping |-> FALSE, failedTerminally |-> FALSE,
     everSpawned |-> FALSE, registered |-> FALSE,
     grant |-> "null", grantTimer |-> FALSE, restartTimer |-> FALSE,
     graceTimer |-> FALSE, attempts |-> 0]

Init ==
    /\ mode \in Modes /\ flagCheck \in BOOLEAN
    /\ this = NewProvider
    /\ pc = [s \in Starts |-> "idle"]
    /\ os = [s \in Starts |-> "none"]
    /\ signal = [s \in Starts |-> "none"]
    /\ heard = [s \in Starts |-> FALSE]
    /\ probe = [s \in Starts |-> "none"] /\ up = TRUE
    /\ gate \in BOOLEAN
    /\ approval = FALSE /\ approved = 0 /\ consumed = 0
    /\ lapsed = FALSE

(* A settled promise resumes before the next event is delivered.           *)
Drained == \A s \in Starts : pc[s] # "rejected"

Turn == up /\ Drained

-----------------------------------------------------------------------------
(***************************************************************************)
(* Process groups.                                                         *)
(***************************************************************************)
killGroup(g, sig, sent) ==
    [p \in Starts |->
        IF p = g /\ os[p] = "alive" /\ sent[p] # "KILL" THEN sig ELSE sent[p]]

(***************************************************************************)
(* stop, scheduleRestart, and the two catch blocks of a failed start.      *)
(***************************************************************************)
stop(T) == [T EXCEPT !.stopping = TRUE, !.grantTimer = FALSE, !.restartTimer = FALSE,
                     !.graceTimer = @ \/ T.child # None]

RestartPersonal(T) ==                                             \* mutant
    IF T.attempts >= RestartMax
    THEN [T EXCEPT !.state = "failed"]
    ELSE [T EXCEPT !.state = "restarting", !.restartTimer = TRUE]

scheduleRestart(T) ==
    IF mode = "personal"
    THEN [T EXCEPT !.state = "failed", !.grant = "null", !.grantTimer = FALSE]
    ELSE IF T.attempts >= RestartMax
         THEN [T EXCEPT !.state = "failed"]
         ELSE [T EXCEPT !.state = "restarting", !.restartTimer = TRUE]

crashed(T) == T.everSpawned /\ T.child = None

startOneCatch(T, terminal) ==
    IF crashed(T) /\ ~terminal
    THEN scheduleRestart(T)
    ELSE stop([T EXCEPT !.state = "failed", !.failedTerminally = TRUE])

RestartOverChild(T, terminal) ==                                  \* mutant
    IF terminal THEN [T EXCEPT !.state = "failed"] ELSE scheduleRestart(T)

RestartOnce(T, terminal) ==                                       \* mutant
    IF terminal THEN [T EXCEPT !.state = "failed"] ELSE T

restartCatch(T, terminal) ==
    IF T.child # None THEN T        \* killed; onExit decides what happens next
    ELSE IF terminal THEN [T EXCEPT !.state = "failed"]
         ELSE scheduleRestart(T)

(* Start attempt s throws, the object being T and the signals sent `sent`.  *)
Throw(s, T, sent, terminal) ==
    /\ pc' = [pc EXCEPT ![s] = "failed"]
    /\ IF s = 1
       THEN /\ this' = startOneCatch(T, terminal)
            /\ signal' = IF T.child = None THEN sent ELSE killGroup(T.pgid, "TERM", sent)
       ELSE /\ this' = restartCatch(T, terminal)
            /\ signal' = IF T.child = None THEN sent ELSE killGroup(T.pgid, "KILL", sent)

-----------------------------------------------------------------------------
(***************************************************************************)
(* start(), one action per await.                                          *)
(***************************************************************************)
Begin(s, T) ==
    IF T.killed
    THEN Throw(s, T, signal, TRUE)
    ELSE /\ this' = [T EXCEPT !.state = "starting", !.stopping = FALSE]
         /\ pc' = [pc EXCEPT ![s] = "mkdir"]
         /\ UNCHANGED signal

FirstStart ==
    /\ pc[1] = "idle" /\ Turn
    /\ Begin(1, this)
    /\ UNCHANGED <<mode, flagCheck, os, heard, probe, up, world, lapsed>>

RestartTimerFires ==
    /\ this.restartTimer /\ Turn
    /\ \E s \in Starts \ {1} :
         /\ pc[s] = "idle" /\ \A r \in 1..(s-1) : pc[r] # "idle"
         /\ PromptDisk => \A r \in Starts : pc[r] # "metadata"
         /\ Begin(s, [this EXCEPT !.restartTimer = FALSE, !.attempts = @ + 1])
    /\ UNCHANGED <<mode, flagCheck, os, heard, probe, up, world, lapsed>>

ProbeUngated(T) == T = T                                          \* mutant

ProbeGate(T) == ~T.killed

(* The synchronous part of verifyFlags: deadline, latch and spawn().        *)
BeginProbe(s, T) ==
    \/ /\ ProbeGate(T)
       /\ \E outcome \in {"running", "none"} : probe' = [probe EXCEPT ![s] = outcome]
       /\ this' = T
       /\ pc' = [pc EXCEPT ![s] = "probe"]
       /\ UNCHANGED signal
    \/ /\ \E terminal \in BOOLEAN :
            (~terminal => ProbeGate(T)) /\ Throw(s, T, signal, terminal)
       /\ UNCHANGED probe

SpawnUngated(T) == T = T                                          \* mutant

SpawnGate(T) == ~T.killed

(* The last gate, and spawn().  An unspawnable command still yields a       *)
(* ChildProcess object, without a pid; some errors are thrown.              *)
Spawn(s, T) ==
    IF ~SpawnGate(T)
    THEN Throw(s, T, signal, TRUE) /\ UNCHANGED os
    ELSE \/ Throw(s, T, signal, FALSE) /\ UNCHANGED os
         \/ \E outcome \in {"alive", "unspawnable"} :
           /\ os' = [os EXCEPT ![s] = outcome]
           /\ this' = [T EXCEPT !.child = s, !.everSpawned = TRUE,
                                !.pgid = IF outcome = "alive" THEN s ELSE None]
           /\ pc' = [pc EXCEPT ![s] = "spawning"]
           /\ UNCHANGED signal

AfterMkdir(s) ==
    /\ pc[s] = "mkdir" /\ Turn
    /\ \/ /\ mode = "personal"
          /\ pc' = [pc EXCEPT ![s] = "approval"]
          /\ UNCHANGED <<this, signal, os, probe>>
       \/ mode = "isolated" /\ flagCheck /\ BeginProbe(s, this) /\ UNCHANGED os
       \/ mode = "isolated" /\ ~flagCheck /\ Spawn(s, this) /\ UNCHANGED probe
    /\ UNCHANGED <<mode, flagCheck, heard, up, world, lapsed>>

(* consumePersonalApproval: read, validated and unlinked, or refused; the   *)
(* expiry timer is armed at consumption.                                    *)
takeGrant(T) == [T EXCEPT !.grant = "live", !.grantTimer = TRUE]

ConsumeApproval(s) ==
    /\ pc[s] = "approval" /\ Turn
    /\ \/ /\ approval
          /\ approval' = FALSE /\ consumed' = consumed + 1
          /\ LET T == takeGrant(this)
             IN  \/ flagCheck /\ BeginProbe(s, T)
                 \/ ~flagCheck /\ Throw(s, T, signal, TRUE) /\ UNCHANGED probe
       \/ /\ Throw(s, this, signal, TRUE)       \* absent, malformed or expired
          /\ UNCHANGED <<approval, consumed, probe>>
    /\ UNCHANGED <<mode, flagCheck, os, heard, up, gate, approved, lapsed>>

(* 'close', with every required flag in the output.  Or a flag is missing,  *)
(* or 'error', or the timeout, which sends the probe SIGKILL.               *)
ProbeEnds(s) ==
    /\ pc[s] = "probe" /\ Turn
    /\ \/ probe[s] = "exited" /\ Spawn(s, this)
       \/ \E terminal \in BOOLEAN : Throw(s, this, signal, terminal) /\ UNCHANGED os
    /\ probe' = [probe EXCEPT ![s] = "none"]
    /\ UNCHANGED <<mode, flagCheck, heard, up, world, lapsed>>

(* 'spawn': the listeners are attached.  'error': the start fails, and      *)
(* this.child keeps the object that never became a process.                 *)
Spawned(s) ==
    /\ pc[s] = "spawning" /\ Turn
    /\ \/ /\ os[s] # "unspawnable"
          /\ heard' = [heard EXCEPT ![s] = TRUE]
          /\ pc' = [pc EXCEPT ![s] = "metadata"]
          /\ UNCHANGED <<this, signal>>
       \/ /\ os[s] = "unspawnable"
          /\ Throw(s, this, signal, FALSE)
          /\ UNCHANGED heard
    /\ UNCHANGED <<mode, flagCheck, os, probe, up, world, lapsed>>

(* writeJobMetadata fails closed.  The handshake's first send throws when   *)
(* the child is already gone.                                               *)
MetadataWritten(s) ==
    /\ pc[s] = "metadata" /\ Turn
    /\ \/ Throw(s, this, killGroup(this.pgid, "KILL", signal), TRUE)
       \/ /\ this.child # None
          /\ pc' = [pc EXCEPT ![s] = "handshake"]
          /\ UNCHANGED <<this, signal>>
       \/ /\ this.child = None
          /\ \E terminal \in BOOLEAN : Throw(s, this, signal, terminal)
    /\ UNCHANGED <<mode, flagCheck, os, heard, probe, up, world, lapsed>>

(* registerTools: a name that is not portable or already claimed refuses    *)
(* the start.                                                               *)
Register(s) ==
    \/ /\ this' = [this EXCEPT !.state = "ready", !.registered = TRUE]
       /\ pc' = [pc EXCEPT ![s] = "done"]
       /\ UNCHANGED signal
    \/ Throw(s, this, signal, TRUE)

HandshakeDone(s) ==
    /\ pc[s] = "handshake" /\ Turn
    /\ this.child # None
    /\ IF s = 1 /\ ~gate
       THEN pc' = [pc EXCEPT ![s] = "gate"] /\ UNCHANGED <<this, signal>>
       ELSE Register(s)
    /\ UNCHANGED <<mode, flagCheck, os, heard, probe, up, world, lapsed>>

(* A refusal, a request timeout, or the start deadline.                     *)
HandshakeFails(s) ==
    /\ pc[s] = "handshake" /\ Turn
    /\ \E terminal \in BOOLEAN : Throw(s, this, signal, terminal)
    /\ UNCHANGED <<mode, flagCheck, os, heard, probe, up, world, lapsed>>

(* onExit has rejected the handshake's request.                             *)
Rejected(s) ==
    /\ pc[s] = "rejected" /\ up
    /\ \E terminal \in BOOLEAN : Throw(s, this, signal, terminal)
    /\ UNCHANGED <<mode, flagCheck, os, heard, probe, up, world, lapsed>>

GateOpens ==
    /\ ~gate /\ Turn
    /\ gate' = TRUE
    /\ UNCHANGED <<mode, flagCheck, this, pc, procs, probe, up,
                   approval, approved, consumed, lapsed>>

GateResume ==
    /\ pc[1] = "gate" /\ gate /\ Turn
    /\ Register(1)
    /\ UNCHANGED <<mode, flagCheck, os, heard, probe, up, world, lapsed>>

-----------------------------------------------------------------------------
(***************************************************************************)
(* What happens to a provider between the steps of start().                *)
(***************************************************************************)
(* A crash, or the effect of a signal.                                      *)
Dies(p) ==
    /\ os[p] = "alive" /\ Drained
    /\ os' = [os EXCEPT ![p] = "dead"]
    /\ UNCHANGED <<mode, flagCheck, this, pc, signal, heard, probe, up, world, lapsed>>

(* The probe prints its help and exits, or crashes, or meets a closed pipe. *)
ProbeExits(s) ==
    /\ probe[s] = "running"
    /\ probe' = [probe EXCEPT ![s] = "exited"]
    /\ UNCHANGED <<mode, flagCheck, this, pc, procs, up, world, lapsed>>

AfterExit(T) ==
    IF T.stopping
    THEN [T EXCEPT !.state = IF T.failedTerminally THEN "failed" ELSE "stopped"]
    ELSE scheduleRestart(T)

(* onExit.  It does not ask which child exited.                             *)
Exit(p) ==
    /\ os[p] = "dead" /\ heard[p] /\ Turn
    /\ os' = [os EXCEPT ![p] = "reaped"]
    /\ signal' = killGroup(this.pgid, "KILL", signal)
    /\ this' = AfterExit([this EXCEPT !.child = None, !.pgid = None])
    /\ pc' = [s \in Starts |-> IF pc[s] = "handshake" THEN "rejected" ELSE pc[s]]
    /\ UNCHANGED <<mode, flagCheck, heard, probe, up, world, lapsed>>

(* armPing: the child left a ping unanswered.                               *)
PingKills ==
    /\ this.state = "ready" /\ this.pgid # None /\ Turn
    /\ signal' = killGroup(this.pgid, "KILL", signal)
    /\ UNCHANGED <<mode, flagCheck, this, pc, os, heard, probe, up, world, lapsed>>

GrantRunsOut ==
    /\ this.grant = "live" /\ Turn
    /\ this' = [this EXCEPT !.grant = "past"]
    /\ UNCHANGED <<mode, flagCheck, pc, procs, probe, up, world, lapsed>>

(* The part shared by the expiry timer and assertPersonalGrantLive.         *)
endSession(T) == stop([T EXCEPT !.grant = "null", !.failedTerminally = TRUE])

GrantTimerFires ==
    /\ this.grantTimer /\ this.grant = "past" /\ Turn
    /\ this' = [endSession(this) EXCEPT !.state = "failed"]
    /\ signal' = killGroup(this.pgid, "TERM", signal)
    /\ lapsed' = (lapsed \/ this.child = None)
    /\ UNCHANGED <<mode, flagCheck, pc, os, heard, probe, up, world>>

(* A call or a resource read meets the expiry before the timer does.        *)
CallNoticesExpiry ==
    /\ this.state = "ready" /\ this.grant = "past" /\ Turn
    /\ this' = endSession(this)
    /\ signal' = killGroup(this.pgid, "TERM", signal)
    /\ UNCHANGED <<mode, flagCheck, pc, os, heard, probe, up, world, lapsed>>

(* SHUTDOWN_GRACE_MS after stop(): this.pgid as it is by then.              *)
GraceFires ==
    /\ this.graceTimer /\ Turn
    /\ this' = [this EXCEPT !.graceTimer = FALSE]
    /\ signal' = killGroup(this.pgid, "KILL", signal)
    /\ UNCHANGED <<mode, flagCheck, pc, os, heard, probe, up, world, lapsed>>

KillNow ==
    /\ Turn
    /\ this' = [this EXCEPT !.killed = TRUE, !.stopping = TRUE, !.state = "stopped",
                            !.grantTimer = FALSE, !.restartTimer = FALSE]
    /\ signal' = killGroup(this.pgid, "KILL", signal)
    /\ UNCHANGED <<mode, flagCheck, pc, os, heard, probe, up, world, lapsed>>

(* Every caller of killAll exits next; turns may pass while the last answer *)
(* is flushed (exitAfterFlush).                                             *)
BridgeExits ==
    /\ this.killed /\ Turn
    /\ up' = FALSE
    /\ UNCHANGED <<mode, flagCheck, this, pc, procs, probe, world, lapsed>>

(* A restart attempt falls out of RESTART_WINDOW_MS.                        *)
AttemptAges ==
    /\ this.attempts > 0 /\ Turn
    /\ this' = [this EXCEPT !.attempts = @ - 1]
    /\ UNCHANGED <<mode, flagCheck, pc, procs, probe, up, world, lapsed>>

(* scripts/approve-personal-browser.sh.                                     *)
OperatorApproves ==
    /\ mode = "personal" /\ approved < MaxApprovals /\ Turn
    /\ approval' = TRUE /\ approved' = approved + 1
    /\ UNCHANGED <<mode, flagCheck, this, pc, procs, probe, up, gate, consumed, lapsed>>

-----------------------------------------------------------------------------
StartStep(s) ==
    \/ AfterMkdir(s) \/ ConsumeApproval(s) \/ ProbeEnds(s) \/ Spawned(s)
    \/ MetadataWritten(s) \/ HandshakeDone(s) \/ HandshakeFails(s) \/ Rejected(s)

Next ==
    \/ FirstStart \/ RestartTimerFires \/ GateOpens \/ GateResume
    \/ \E s \in Starts : StartStep(s) \/ Dies(s) \/ Exit(s) \/ ProbeExits(s)
    \/ PingKills \/ GrantRunsOut \/ GrantTimerFires \/ CallNoticesExpiry
    \/ GraceFires \/ KillNow \/ BridgeExits \/ AttemptAges \/ OperatorApproves

Spec == Init /\ [][Next]_vars

(* Awaits end (the probe and the handshake have timeouts, earlier           *)
(* registrations a deadline), timers fire, exits are delivered and SIGKILL  *)
(* kills.  Nothing obliges a child to crash or the operator to act.         *)
Fairness ==
    /\ WF_vars(FirstStart) /\ WF_vars(GateOpens) /\ WF_vars(GateResume)
    /\ WF_vars(RestartTimerFires) /\ WF_vars(GrantRunsOut)
    /\ WF_vars(GrantTimerFires) /\ WF_vars(GraceFires)
    /\ \A s \in Starts :
         /\ WF_vars(StartStep(s))
         /\ WF_vars(Exit(s))
         /\ WF_vars(signal[s] = "KILL" /\ Dies(s))

FairSpec == Spec /\ Fairness

-----------------------------------------------------------------------------
(***************************************************************************)
(* Properties.                                                             *)
(***************************************************************************)
(* Every variable has its type; the object's restart attempts never exceed  *)
(* RESTART_MAX_ATTEMPTS within the window (scheduleRestart).                *)
ObjectTypeOK ==
    /\ mode \in Modes /\ flagCheck \in BOOLEAN
    /\ this \in
        [state : {"configured", "starting", "ready", "restarting", "failed", "stopped"},
         child : 0..MaxStarts, pgid : 0..MaxStarts,
         killed : BOOLEAN, stopping : BOOLEAN, failedTerminally : BOOLEAN,
         everSpawned : BOOLEAN, registered : BOOLEAN,
         grant : {"null", "live", "past"}, grantTimer : BOOLEAN,
         restartTimer : BOOLEAN, graceTimer : BOOLEAN, attempts : 0..RestartMax]
    /\ pc \in [Starts -> {"idle", "mkdir", "approval", "probe", "spawning", "metadata",
                          "handshake", "rejected", "gate", "done", "failed"}]
    /\ os \in [Starts -> {"none", "unspawnable", "alive", "dead", "reaped"}]
    /\ signal \in [Starts -> {"none", "TERM", "KILL"}]
    /\ heard \in [Starts -> BOOLEAN]
    /\ gate \in BOOLEAN /\ approval \in BOOLEAN /\ lapsed \in BOOLEAN
    /\ approved \in 0..MaxApprovals /\ consumed \in 0..MaxApprovals

TypeOK ==
    /\ ObjectTypeOK
    /\ probe \in [Starts -> {"none", "running", "exited"}] /\ up \in BOOLEAN

(* A living process that was not sent SIGKILL is the one this.pgid names:   *)
(* no start ever overwrites the group of a running child, which no kill     *)
(* path could reach any more.                                               *)
NoOrphan ==
    /\ TypeOK
    /\ \A p \in Starts : os[p] = "alive" /\ signal[p] # "KILL" => this.pgid = p

ChildrenContained ==
    this.killed => \A p \in Starts : os[p] = "alive" => signal[p] = "KILL"

(* Once killNow has run, whatever was being awaited then, every living      *)
(* child has been sent SIGKILL.  The one process that need not have been is *)
(* a flag probe: while the bridge lives, its attempt is still awaiting it,  *)
(* with the timer that kills it; a bridge that exits leaves the probe,      *)
(* which nothing will signal, and there is at most one.                     *)
RevokedIsContained ==
    /\ ChildrenContained
    /\ \A s \in Starts : probe[s] = "running" =>
          /\ pc[s] = "probe"
          /\ \A r \in Starts \ {s} : probe[r] # "running"

(* Once killNow has run no process begins, child or probe: an attempt that  *)
(* was awaiting anything meets the latch before its next spawn().           *)
RevocationStartsNothing ==
    [][this.killed => \A s \in Starts :
          /\ os'[s] = "alive" => os[s] = "alive"
          /\ probe'[s] = "running" => probe[s] = "running"]_vars

(* A personal-profile provider consumes one approval in its life: a crash   *)
(* never spends the one the operator writes for a later session.  And a     *)
(* child nobody has signalled runs under a grant whose expiry timer is      *)
(* armed, unless the grant ran out before the spawn.                        *)
OneGrantPerSession ==
    mode = "personal" =>
        /\ consumed <= 1
        /\ \A p \in Starts :
              os[p] = "alive" /\ signal[p] = "none" =>
                  lapsed \/ (this.grant # "null" /\ this.grantTimer)

(* The grant is a deadline: SECURITY.md says the timer shuts the child down *)
(* at expiresAt.  A grant that runs out during the flag probe does not.     *)
ShutDownAtExpiry ==
    mode = "personal" =>
        \A p \in Starts :
            os[p] = "alive" /\ signal[p] = "none" => this.grant # "null" /\ this.grantTimer

(* A restart whose spawn failed asynchronously: this.child is an object     *)
(* without a process, which will never exit.                                *)
Phantom == this.child # None /\ os[this.child] = "unspawnable"

(* A start is not left unfinished, whatever dies or times out on the way,   *)
(* except by a phantom child.                                               *)
StartsFinish == (this.state = "starting") ~> (this.state # "starting" \/ Phantom)

=============================================================================
