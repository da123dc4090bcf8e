------------------------------- MODULE Bridge -------------------------------
(***************************************************************************)
(* The revocation latch of src/bridge.mjs and what it must reach: the      *)
(* shell_exec commands and shell_start jobs modelled here, and the         *)
(* sessions of PtySessions.                                                *)
(*                                                                         *)
(* Every tool call reads the unlock file before it does anything, and an   *)
(* interval reads it while the client is silent, unless the bridge was     *)
(* started with the acknowledgement in its environment.  Reading the file, *)
(* appending to the audit log and flushing stdout all await, so a call     *)
(* admitted earlier may go on between the sweep of a revocation and the    *)
(* exit of the process.                                                    *)
(***************************************************************************)
EXTENDS PtySessions

CONSTANTS Commands,     \* shell_exec calls
          Jobs,         \* shell_start calls
          Transient     \* whether a read of the unlock file may fail transiently

Shells == Commands \cup Jobs
Calls  == Shells \cup Sessions

ASSUME BridgeAssumption == /\ IsFiniteSet(Calls)
                           /\ Commands \cap Jobs = {} /\ Shells \cap Sessions = {}
                           /\ Transient \in BOOLEAN

VARIABLES
    latch,        \* the unlock file: present, removed
    ackFromEnv,   \* whether FULL_ACCESS_ACK_FROM_ENV holds the acknowledgement
    call,         \* where each tool call stands
    shell,        \* the process group of a command or job
    inFlight,     \* inFlightCommands
    recorded,     \* jobs whose metadata file is in place
    ending,       \* audit: recheckUnlock awaits; flush: exitAfterFlush was called
    late,         \* history: commands spawned after a revocation's sweep
    crashed       \* history: the bridge was killed

gate    == <<latch, ackFromEnv>>
ownVars == <<gate, call, shell, inFlight, recorded, ending, late, crashed>>
vars    == <<ptyVars, ownVars>>

Init ==
    /\ PtyInit
    /\ ackFromEnv \in BOOLEAN
    /\ latch = "present" \/ (ackFromEnv /\ latch = "removed")
    /\ call = [c \in Calls |-> "idle"]
    /\ shell = [c \in Shells |-> "none"] /\ inFlight = {} /\ recorded = {}
    /\ ending = {} /\ late = {} /\ crashed = FALSE

Goes(c, from, to) == call[c] = from /\ call' = [call EXCEPT ![c] = to]

-----------------------------------------------------------------------------
(***************************************************************************)
(* The latch.                                                              *)
(***************************************************************************)
RemoveLatch ==
    /\ latch = "present" /\ latch' = "removed"
    /\ UNCHANGED <<ptyVars, ackFromEnv, call, shell, inFlight, recorded, ending, late, crashed>>

(* What readUnlockLatch may answer: a transient error leaves the current   *)
(* state in place.                                                         *)
readUnlockLatch ==
    (IF latch = "present" THEN {"passed"} ELSE {"refused"})
        \cup (IF Transient THEN {"passed"} ELSE {})

(* A bridge acknowledged through its environment never reads the file.     *)
Check(c) ==
    /\ phase # "gone"
    /\ \E verdict \in IF ackFromEnv THEN {"passed"} ELSE readUnlockLatch :
          Goes(c, "idle", verdict)
    /\ UNCHANGED <<ptyVars, gate, shell, inFlight, recorded, ending, late, crashed>>

killInFlightCommands ==
    /\ shell' = [c \in Shells |-> IF c \in inFlight THEN "dead" ELSE shell[c]]
    /\ inFlight' = {}

RefuseWithoutSweep(c) ==                                          \* mutant
    /\ phase # "gone" /\ Goes(c, "refused", "over")
    /\ killInFlightCommands
    /\ phase' = "leaving" /\ UNCHANGED <<slots, flags, os, past>>
    /\ ending' = ending \cup {"flush"}
    /\ UNCHANGED <<gate, recorded, late, crashed>>

(* assertStillUnlocked, once the audit append is over.                     *)
Refuse(c) ==
    /\ phase # "gone" /\ Goes(c, "refused", "over")
    /\ killInFlightCommands /\ Revoke
    /\ ending' = ending \cup {"flush"}
    /\ UNCHANGED <<gate, recorded, late, crashed>>

RecheckWhileLive ==                                               \* mutant
    /\ phase # "gone" /\ ~ackFromEnv /\ latch = "removed" /\ "audit" \notin ending
    /\ sweeper
    /\ Revoke /\ killInFlightCommands
    /\ ending' = ending \cup {"audit"}
    /\ UNCHANGED <<gate, call, recorded, late, crashed>>

recheckUnlock ==
    /\ phase # "gone" /\ ~ackFromEnv /\ latch = "removed" /\ "audit" \notin ending
    /\ Revoke /\ killInFlightCommands
    /\ ending' = ending \cup {"audit"}
    /\ UNCHANGED <<gate, call, recorded, late, crashed>>

AuditWritten ==
    /\ phase # "gone" /\ "audit" \in ending
    /\ ending' = (ending \ {"audit"}) \cup {"flush"}
    /\ UNCHANGED <<ptyVars, gate, call, shell, inFlight, recorded, late, crashed>>

Flushed ==
    /\ "flush" \in ending /\ Exit
    /\ UNCHANGED ownVars

teardownAll ==                   \* SIGTERM, SIGINT, transport closed
    /\ Terminate /\ killInFlightCommands
    /\ UNCHANGED <<gate, call, recorded, ending, late, crashed>>

Killed ==
    /\ Crash /\ crashed' = TRUE
    /\ UNCHANGED <<gate, call, shell, inFlight, recorded, ending, late>>

-----------------------------------------------------------------------------
(***************************************************************************)
(* shell_exec: the operator's settings are awaited, then runCommand.       *)
(***************************************************************************)
RunUnregistered(c) ==                                             \* mutant
    /\ phase # "gone" /\ Goes(c, "passed", "over")
    /\ shell' = [shell EXCEPT ![c] = "alive"]
    /\ late' = IF phase = "leaving" THEN late \cup {c} ELSE late
    /\ UNCHANGED <<ptyVars, gate, inFlight, recorded, ending, crashed>>

runCommand(c) ==
    /\ phase # "gone" /\ Goes(c, "passed", "over")
    /\ shell' = [shell EXCEPT ![c] = "alive"]
    /\ inFlight' = inFlight \cup {c}
    /\ late' = IF phase = "leaving" THEN late \cup {c} ELSE late
    /\ UNCHANGED <<ptyVars, gate, recorded, ending, crashed>>

(* Blocked by a routing or approval rule, or the spawn failed.             *)
ShellFails(c) ==
    /\ phase # "gone" /\ Goes(c, "passed", "over")
    /\ UNCHANGED <<ptyVars, gate, shell, inFlight, recorded, ending, late, crashed>>

(* By itself, or because its timeout killed it; 'close' forgets it.        *)
ShellEnds(c) ==
    /\ shell[c] = "alive"
    /\ shell' = [shell EXCEPT ![c] = "dead"]
    /\ inFlight' = IF phase = "gone" THEN inFlight ELSE inFlight \ {c}
    /\ UNCHANGED <<ptyVars, gate, call, recorded, ending, late, crashed>>

(***************************************************************************)
(* shell_start: spawn, then write the metadata and rename it into place.   *)
(***************************************************************************)
JobSpawns(j) ==
    /\ phase # "gone" /\ Goes(j, "passed", "recording")
    /\ shell' = [shell EXCEPT ![j] = "alive"]
    /\ UNCHANGED <<ptyVars, gate, inFlight, recorded, ending, late, crashed>>

JobRecorded(j) ==
    /\ phase # "gone" /\ Goes(j, "recording", "over")
    /\ recorded' = recorded \cup {j}
    /\ UNCHANGED <<ptyVars, gate, shell, inFlight, ending, late, crashed>>

JobLeftUnrecorded(j) ==                                           \* mutant
    /\ phase # "gone" /\ Goes(j, "recording", "over")
    /\ UNCHANGED <<ptyVars, gate, shell, inFlight, recorded, ending, late, crashed>>

JobMetadataFails(j) ==
    /\ phase # "gone" /\ Goes(j, "recording", "over")
    /\ shell' = [shell EXCEPT ![j] = "dead"]
    /\ UNCHANGED <<ptyVars, gate, inFlight, recorded, ending, late, crashed>>

-----------------------------------------------------------------------------
(***************************************************************************)
(* pty_start reserves its slot in the turn that passed the latch; every    *)
(* other step of a session is as in PtySessions.                           *)
(***************************************************************************)
PtyStart(s) ==
    /\ Goes(s, "passed", "over")
    /\ Reserve(s) \/ Reject(s)
    /\ UNCHANGED <<gate, shell, inFlight, recorded, ending, late, crashed>>

PtyStep(s) ==
    /\ \/ StatFails(s) \/ Spawn(s) \/ PollReady(s) \/ PollFails(s)
       \/ Drained(s) \/ MetadataFails(s) \/ Record(s)
       \/ TerminalStep(s) \/ EventStep(s)
    /\ UNCHANGED ownVars

Next ==
    \/ RemoveLatch \/ recheckUnlock \/ AuditWritten \/ Flushed \/ teardownAll \/ Killed
    \/ \E c \in Calls : Check(c) \/ Refuse(c)
    \/ \E c \in Commands : runCommand(c)
    \/ \E j \in Jobs : JobSpawns(j) \/ JobRecorded(j) \/ JobMetadataFails(j)
    \/ \E c \in Shells : ShellFails(c) \/ ShellEnds(c)
    \/ \E s \in Sessions : PtyStart(s) \/ PtyStep(s)

Spec == Init /\ [][Next]_vars

(* The interval ticks and a transient read error passes; the audit append  *)
(* ends; exitAfterFlush has a backstop; helpers run their loops.           *)
Fairness ==
    /\ WF_vars(recheckUnlock) /\ WF_vars(AuditWritten) /\ WF_vars(Flushed)
    /\ \A s \in Sessions : WF_vars(HelperReaps(s) /\ UNCHANGED ownVars)
                           /\ WF_vars(HelperTeardown(s) /\ UNCHANGED ownVars)

FairSpec == Spec /\ Fairness

-----------------------------------------------------------------------------
(* Type invariant of the latch, the calls and the shell processes.         *)
BridgeTypeOK ==
    /\ TypeOK
    /\ latch \in {"present", "removed"} /\ ackFromEnv \in BOOLEAN
    /\ call \in [Calls -> {"idle", "passed", "refused", "recording", "over"}]
    /\ shell \in [Shells -> {"none", "alive", "dead"}]
    /\ inFlight \subseteq Commands /\ recorded \subseteq Jobs /\ late \subseteq Commands
    /\ ending \subseteq {"audit", "flush"} /\ crashed \in BOOLEAN

(* What the shell tools leave running is known.  A bridge that leaves by   *)
(* itself leaves no command behind but those spawned between a             *)
(* revocation's sweep and its exit.  And a job whose shell_start call has  *)
(* settled is one scripts/disable.sh can find, whatever happened to its    *)
(* metadata write; one whose call the exit cut short may not be.           *)
SurvivorsAreKnown ==
    /\ BridgeTypeOK
    /\ phase = "gone" /\ ~crashed
         => \A c \in Commands : shell[c] = "alive" => c \in late
    /\ \A j \in Jobs : shell[j] = "alive" /\ call[j] = "over" => j \in recorded

(* Once the unlock file is removed the bridge goes, even if no client ever *)
(* calls again, and no session's program is left running behind it: unless *)
(* the bridge was started with the acknowledgement in its environment, for *)
(* which SECURITY.md says that removing the file changes nothing, and but  *)
(* for the sessions NoOrphan names: one killed before leaderPid was known, *)
(* and one whose helper somebody else killed, if the bridge went before    *)
(* its listeners ran.                                                      *)
RevocationReachesSessions ==
    latch = "removed" /\ ~ackFromEnv ~>
        /\ phase = "gone"
        /\ \A s \in Sessions : program[s] = "alive" => s \in blind \/ s \in struck

(* The bridge drives its sessions only as PtySessions allows.              *)
PtySessionsImplemented == PtySpec
=============================================================================
