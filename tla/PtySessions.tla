----------------------------- MODULE PtySessions -----------------------------
(***************************************************************************)
(* The pseudo-terminal sessions of src/bridge.mjs and the Perl helper,     *)
(* src/lib/ptyhelper.pl, that owns each terminal.                          *)
(*                                                                         *)
(* A pty_start call reserves a slot, awaits a stat, spawns a helper, polls *)
(* until the helper reports its program's pid, and awaits the write of the *)
(* metadata scripts/disable.sh reads.  Meanwhile the helper and its        *)
(* program live on their own: the status lines and the 'exit' and 'close'  *)
(* events they cause reach the bridge later, and the bridge may be leaving *)
(* by then.  A session is named after the call that starts it.             *)
(*                                                                         *)
(* SIGKILL acts at once.  `program` stands for the session's leader and    *)
(* its process group; `job` for one background job which job control put   *)
(* in a group of its own.                                                  *)
(***************************************************************************)
EXTENDS Naturals, Sequences, FiniteSets

CONSTANTS Sessions,      \* pty_start calls, and the sessions they start
          MaxSessions,   \* PTY_MAX_SESSIONS
          Eventful       \* bound: sessions that see a background job, or whose
                         \* helper someone else kills

ASSUME PtyAssumption == /\ IsFiniteSet(Sessions)
                        /\ MaxSessions \in Nat \ {0}
                        /\ Eventful \subseteq Sessions

VARIABLES
    phase,            \* the bridge process: running, leaving, gone
    start,            \* where each pty_start call stands
    startsInFlight,   \* ptyStartsInFlight
    table,            \* ptySessions
    exited, closed,   \* sessions with these flags set
    known,            \* sessions whose leaderPid and pts are set
    closing,          \* sessions in the grace period of a pty_close
    sweeper,          \* whether the ptySweeper interval is armed
    fallback,         \* sessions whose helperCloseFallback timer is armed
    helper,           \* helper process: dead until 'exit', seen until 'close'
    lines,            \* status lines the bridge has not read yet
    program,          \* the leader's process group
    job,              \* background job: loose until ttyTargets lists it
    blind,            \* history: sessions killed before leaderPid was known
    struck            \* history: sessions whose helper somebody else killed

slots  == <<start, startsInFlight, table>>
flags  == <<exited, closed, known, closing, sweeper, fallback>>
os     == <<helper, lines, program, job>>
past   == <<blind, struck>>
ptyVars == <<phase, slots, flags, os, past>>

Starting == {"stat", "ready", "draining", "recording"}

PtyInit ==
    /\ phase = "running"
    /\ start = [s \in Sessions |-> "idle"] /\ startsInFlight = 0 /\ table = {}
    /\ exited = {} /\ closed = {} /\ known = {} /\ closing = {}
    /\ sweeper = FALSE /\ fallback = {}
    /\ helper = [s \in Sessions |-> "none"]
    /\ lines = [s \in Sessions |-> <<>>]
    /\ program = [s \in Sessions |-> "none"]
    /\ job = [s \in Sessions |-> "none"]
    /\ blind = {} /\ struck = {}

Set(f, S, v) == [s \in DOMAIN f |-> IF s \in S THEN v ELSE f[s]]
Running(S)   == {s \in S : program[s] = "alive"}
Live(t, x)   == t \ x

-----------------------------------------------------------------------------
(***************************************************************************)
(* Slots: reservePtySlot takes one before the first suspension, evicting   *)
(* ended sessions (the oldest in the code, any of them here) for as long   *)
(* as there is no room.  Every way out of startPtySession gives it back.   *)
(***************************************************************************)
Room(t) == Cardinality(t) + startsInFlight < MaxSessions

evictClosedPtySessions(evicted) ==
    /\ Room(table \ evicted)
    /\ evicted # {} => Cardinality(table \ evicted) + startsInFlight = MaxSessions - 1

ReserveByCheckOnly ==                                             \* mutant
    /\ Room(Live(table, exited))
    /\ \E evicted \in SUBSET (table \cap exited) :
          /\ evictClosedPtySessions(evicted)
          /\ table' = table \ evicted
    /\ UNCHANGED startsInFlight

reservePtySlot ==
    /\ Room(Live(table, exited))
    /\ \E evicted \in SUBSET (table \cap exited) :
          /\ evictClosedPtySessions(evicted)
          /\ table' = table \ evicted
    /\ startsInFlight' = startsInFlight + 1

releasePtySlot ==
    startsInFlight' = IF startsInFlight > 0 THEN startsInFlight - 1 ELSE 0

syncPtyTimers(t) == sweeper' = (Live(t, exited') # {})

(* markPtyExited.                                                          *)
MarkExited(S) == exited' = exited \cup S

-----------------------------------------------------------------------------
(***************************************************************************)
(* Reclaiming sessions.                                                    *)
(***************************************************************************)

(* What `ps -t` can still see: the helper owns the terminal, and the       *)
(* leader whose exit revokes it is alive.                                  *)
Scannable(s) == s \in known /\ helper[s] = "up" /\ program[s] = "alive"

(* Without a leaderPid only the helper is killed (NO_LEADER): the program  *)
(* may survive the hangup.                                                 *)
killPtySession(K) ==
    LET unreached == Running(K \ known)
        listed    == {s \in K : job[s] = "listed" \/ (job[s] = "loose" /\ Scannable(s))}
    IN \E immune \in SUBSET unreached :
         /\ program' = Set(program, Running(K) \ immune, "dead")
         /\ job' = Set(job, listed, "dead")
         /\ helper' = Set(helper, {s \in K : helper[s] = "up"}, "dead")
         /\ closed' = closed \cup K
         /\ MarkExited(K)
         /\ blind' = blind \cup (K \ known)

killPtySessions ==
    killPtySession({s \in table : ~(s \in closed /\ s \in exited)})

(* reclaimLeaderGroup, in the 'exit' and 'close' listeners.                *)
reclaimLeaderGroup(s) ==
    program' = IF s \in known \ closed
               THEN Set(program, Running({s}), "dead") ELSE program

sweepPtyTtyOnClose(s) ==
    job' = IF job[s] = "listed" THEN [job EXCEPT ![s] = "dead"] ELSE job

refreshPtyTtyTargets(s) ==
    job' = IF job[s] = "loose" /\ Scannable(s) /\ s \notin exited \cup closed
           THEN [job EXCEPT ![s] = "listed"] ELSE job

-----------------------------------------------------------------------------
(***************************************************************************)
(* A pty_start call.                                                       *)
(***************************************************************************)
Moves(s, from, to) == start[s] = from /\ start' = [start EXCEPT ![s] = to]

Reserve(s) ==
    /\ phase # "gone" /\ Moves(s, "idle", "stat")
    /\ reservePtySlot
    /\ UNCHANGED <<phase, flags, os, past>>

Reject(s) ==                     \* PTY_SESSION_LIMIT
    /\ phase # "gone" /\ Moves(s, "idle", "failed")
    /\ ~Room(Live(table, exited))
    /\ UNCHANGED <<phase, startsInFlight, table, flags, os, past>>

StatFails(s) ==                  \* PTY_BAD_CWD, ENOENT
    /\ phase # "gone" /\ Moves(s, "stat", "failed")
    /\ releasePtySlot
    /\ UNCHANGED <<phase, table, flags, os, past>>

Spawn(s) ==
    /\ phase # "gone" /\ Moves(s, "stat", "ready")
    /\ table' = table \cup {s}
    /\ helper' = [helper EXCEPT ![s] = "up"]
    /\ UNCHANGED exited /\ syncPtyTimers(table')
    /\ UNCHANGED <<phase, startsInFlight, closed, known, closing, fallback,
                   lines, program, job, past>>

PollReady(s) ==
    /\ phase # "gone" /\ s \in known /\ Moves(s, "ready", "recording")
    /\ UNCHANGED <<phase, startsInFlight, table, flags, os, past>>

PollMissesExit(s) ==                                              \* mutant
    /\ phase # "gone" /\ s \notin exited /\ Moves(s, "ready", "draining")
    /\ UNCHANGED <<phase, startsInFlight, table, flags, os, past>>

(* The poll finds the session ended, or PTY_START_TIMEOUT_MS is over.      *)
PollFails(s) ==
    /\ phase # "gone" /\ Moves(s, "ready", "draining")
    /\ UNCHANGED <<phase, startsInFlight, table, flags, os, past>>

AbortLeaking(s, from) ==                                          \* mutant
    /\ phase # "gone" /\ Moves(s, from, "failed")
    /\ killPtySession({s})
    /\ table' = table \ {s}
    /\ syncPtyTimers(table')
    /\ UNCHANGED <<phase, startsInFlight, known, closing, fallback, lines, struck>>

(* The catch blocks: killPtySession, then the session leaves the table.    *)
Abort(s, from) ==
    /\ phase # "gone" /\ Moves(s, from, "failed")
    /\ killPtySession({s})
    /\ table' = table \ {s}
    /\ syncPtyTimers(table') /\ releasePtySlot
    /\ UNCHANGED <<phase, known, closing, fallback, lines, struck>>

Drained(s)       == Abort(s, "draining")      \* helper gone, or 2 s are over
MetadataFails(s) == Abort(s, "recording")

Record(s) ==
    /\ phase # "gone" /\ Moves(s, "recording", "done")
    /\ releasePtySlot /\ refreshPtyTtyTargets(s)
    /\ UNCHANGED <<phase, table, flags, helper, lines, program, past>>

-----------------------------------------------------------------------------
(***************************************************************************)
(* A helper and what runs in its terminal.                                 *)
(***************************************************************************)
HelperForks(s) ==
    /\ helper[s] = "up" /\ program[s] = "none"
    /\ program' = [program EXCEPT ![s] = "alive"]
    /\ lines' = [lines EXCEPT ![s] = Append(@, "started")]
    /\ UNCHANGED <<phase, slots, flags, helper, job, past>>

HelperFatal(s) ==
    /\ helper[s] = "up" /\ program[s] = "none"
    /\ helper' = [helper EXCEPT ![s] = "dead"]
    /\ lines' = [lines EXCEPT ![s] = Append(@, "fatal")]
    /\ UNCHANGED <<phase, slots, flags, program, job, past>>

StartJob(s) ==
    /\ s \in Eventful /\ program[s] = "alive" /\ job[s] = "none"
    /\ job' = [job EXCEPT ![s] = "loose"]
    /\ UNCHANGED <<phase, slots, flags, helper, lines, program, past>>

ProgramExits(s) ==
    /\ program[s] = "alive"
    /\ program' = [program EXCEPT ![s] = "dead"]
    /\ UNCHANGED <<phase, slots, flags, helper, lines, job, past>>

HelperReaps(s) ==
    /\ helper[s] = "up" /\ program[s] = "dead"
    /\ helper' = [helper EXCEPT ![s] = "dead"]
    /\ lines' = [lines EXCEPT ![s] = Append(@, "exited")]
    /\ UNCHANGED <<phase, slots, flags, program, job, past>>

(* teardown, on the end of stdin: the bridge is gone, or has ended the     *)
(* stream because the start failed.                                        *)
Eof(s) == phase = "gone" \/ start[s] = "draining"

HelperTeardown(s) ==
    /\ helper[s] = "up" /\ program[s] # "none" /\ Eof(s)
    /\ helper' = [helper EXCEPT ![s] = "dead"]
    /\ program' = [program EXCEPT ![s] = "dead"]
    /\ job' = IF program[s] = "alive" /\ job[s] \in {"loose", "listed"}
              THEN [job EXCEPT ![s] = "dead"] ELSE job
    /\ UNCHANGED <<phase, slots, flags, lines, past>>

(* Someone else kills the helper; the leader may survive the hangup.       *)
HelperKilled(s) ==
    /\ s \in Eventful /\ helper[s] = "up"
    /\ helper' = [helper EXCEPT ![s] = "dead"]
    /\ program' \in {program, Set(program, Running({s}), "dead")}
    /\ struck' = struck \cup {s}
    /\ UNCHANGED <<phase, slots, flags, lines, job, blind>>

-----------------------------------------------------------------------------
(***************************************************************************)
(* What reaches the bridge.                                                *)
(***************************************************************************)
ReadLine(s) ==
    /\ phase # "gone" /\ lines[s] # <<>>
    /\ lines' = [lines EXCEPT ![s] = Tail(@)]
    /\ IF Head(lines[s]) = "started"
       THEN known' = known \cup {s} /\ UNCHANGED <<exited, sweeper>>
       ELSE MarkExited({s}) /\ syncPtyTimers(table) /\ UNCHANGED known
    /\ UNCHANGED <<phase, slots, closed, closing, fallback, helper, program, job, past>>

HelperExit(s) ==
    /\ phase # "gone" /\ helper[s] = "dead"
    /\ helper' = [helper EXCEPT ![s] = "seen"]
    /\ reclaimLeaderGroup(s)
    /\ fallback' = IF s \in exited THEN fallback ELSE fallback \cup {s}
    /\ UNCHANGED <<phase, slots, exited, closed, known, closing, sweeper, lines, job, past>>

HelperCloseFallback(s) ==
    /\ phase # "gone" /\ s \in fallback
    /\ fallback' = fallback \ {s}
    /\ sweepPtyTtyOnClose(s) /\ MarkExited({s}) /\ syncPtyTimers(table)
    /\ UNCHANGED <<phase, slots, closed, known, closing, helper, lines, program, past>>

CloseWithoutReclaim(s) ==                                         \* mutant
    /\ phase # "gone" /\ helper[s] = "seen" /\ lines[s] = <<>>
    /\ helper' = [helper EXCEPT ![s] = "closed"]
    /\ fallback' = fallback \ {s}
    /\ sweepPtyTtyOnClose(s) /\ MarkExited({s}) /\ syncPtyTimers(table)
    /\ UNCHANGED <<phase, slots, closed, known, closing, lines, program, past>>

CloseWithoutSweep(s) ==                                           \* mutant
    /\ phase # "gone" /\ helper[s] = "seen" /\ lines[s] = <<>>
    /\ helper' = [helper EXCEPT ![s] = "closed"]
    /\ fallback' = fallback \ {s}
    /\ reclaimLeaderGroup(s)
    /\ MarkExited({s}) /\ syncPtyTimers(table)
    /\ UNCHANGED <<phase, slots, closed, known, closing, lines, job, past>>

(* 'close' follows 'exit' and the end of every stream.                     *)
HelperClose(s) ==
    /\ phase # "gone" /\ helper[s] = "seen" /\ lines[s] = <<>>
    /\ helper' = [helper EXCEPT ![s] = "closed"]
    /\ fallback' = fallback \ {s}
    /\ reclaimLeaderGroup(s)
    /\ sweepPtyTtyOnClose(s) /\ MarkExited({s}) /\ syncPtyTimers(table)
    /\ UNCHANGED <<phase, slots, closed, known, closing, lines, past>>

-----------------------------------------------------------------------------
(***************************************************************************)
(* pty_read, pty_write, pty_close and the sweeper's ticks.                 *)
(***************************************************************************)
Refresh(s) ==
    /\ phase # "gone" /\ s \in table /\ refreshPtyTtyTargets(s)
    /\ UNCHANGED <<phase, slots, flags, helper, lines, program, past>>

CloseBegins(s) ==
    /\ phase # "gone" /\ s \in table \ closing /\ start[s] = "done"
    /\ closing' = closing \cup {s}
    /\ job' = IF job[s] = "loose" /\ Scannable(s) THEN [job EXCEPT ![s] = "listed"] ELSE job
    /\ UNCHANGED <<phase, slots, exited, closed, known, sweeper, fallback,
                   helper, lines, program, past>>

CloseEnds(s) ==
    /\ phase # "gone" /\ s \in closing
    /\ closing' = closing \ {s}
    /\ killPtySession({s}) /\ syncPtyTimers(table)
    /\ UNCHANGED <<phase, slots, known, fallback, lines, struck>>

(* An idle session, or one past PTY_MAX_LIFETIME_MS.                       *)
SweepReclaims(s) ==
    /\ phase # "gone" /\ sweeper /\ s \in Live(table, exited)
    /\ killPtySession({s}) /\ syncPtyTimers(table)
    /\ UNCHANGED <<phase, slots, known, closing, fallback, lines, struck>>

-----------------------------------------------------------------------------
(***************************************************************************)
(* The bridge goes.  A revocation reclaims the sessions, then awaits the   *)
(* audit append or the flush of stdout before it exits: the calls that are *)
(* already under way go on meanwhile.  A signal, or the end of the         *)
(* transport, reclaims and exits in one turn.                              *)
(***************************************************************************)
Reclaim ==
    /\ killPtySessions /\ syncPtyTimers(table)
    /\ UNCHANGED <<slots, known, closing, fallback, lines, struck>>

Revoke ==
    /\ phase \in {"running", "leaving"} /\ phase' = "leaving"
    /\ Reclaim

Exit ==
    /\ phase = "leaving" /\ phase' = "gone"
    /\ UNCHANGED <<slots, flags, os, past>>

Terminate ==                     \* teardownAll, process.exit
    /\ phase # "gone" /\ phase' = "gone"
    /\ Reclaim

Crash ==                         \* SIGKILL
    /\ phase # "gone" /\ phase' = "gone"
    /\ UNCHANGED <<slots, flags, os, past>>

-----------------------------------------------------------------------------
StartStep(s) ==
    \/ Reserve(s) \/ Reject(s) \/ StatFails(s) \/ Spawn(s) \/ PollReady(s) \/ PollFails(s)
    \/ Drained(s) \/ MetadataFails(s) \/ Record(s)

TerminalStep(s) ==
    \/ HelperForks(s) \/ HelperFatal(s) \/ StartJob(s) \/ ProgramExits(s)
    \/ HelperReaps(s) \/ HelperTeardown(s) \/ HelperKilled(s)

EventStep(s) ==
    \/ ReadLine(s) \/ HelperExit(s) \/ HelperCloseFallback(s) \/ HelperClose(s)
    \/ Refresh(s) \/ CloseBegins(s) \/ CloseEnds(s) \/ SweepReclaims(s)

SessionStep(s) == StartStep(s) \/ TerminalStep(s) \/ EventStep(s)

PtyNext ==
    \/ \E s \in Sessions : SessionStep(s)
    \/ Revoke \/ Exit \/ Terminate \/ Crash

PtySpec == PtyInit /\ [][PtyNext]_ptyVars

(* Timers fire and awaited input/output ends, as long as the bridge runs;  *)
(* a helper that has forked runs its loop.  The lifetime ceiling makes every live session  *)
(* one the sweeper reclaims.                                               *)
PtyFairness ==
    \A s \in Sessions :
        /\ WF_ptyVars(StatFails(s) \/ Spawn(s))
        /\ WF_ptyVars(PollReady(s) \/ PollFails(s))
        /\ WF_ptyVars(Drained(s)) /\ WF_ptyVars(MetadataFails(s) \/ Record(s))
        /\ WF_ptyVars(HelperReaps(s)) /\ WF_ptyVars(HelperTeardown(s))
        /\ WF_ptyVars(ReadLine(s)) /\ WF_ptyVars(HelperExit(s)) /\ WF_ptyVars(HelperClose(s))
        /\ WF_ptyVars(CloseEnds(s)) /\ WF_ptyVars(SweepReclaims(s))

FairPtySpec == PtySpec /\ PtyFairness

-----------------------------------------------------------------------------
(* Type invariant of the session table, the session flags and the          *)
(* operating system's view.                                                *)
TypeOK ==
    /\ phase \in {"running", "leaving", "gone"}
    /\ start \in [Sessions -> Starting \cup {"idle", "done", "failed"}]
    /\ startsInFlight \in Nat
    /\ table \subseteq Sessions /\ exited \subseteq Sessions /\ closed \subseteq exited
    /\ known \subseteq Sessions /\ closing \subseteq Sessions /\ fallback \subseteq Sessions
    /\ sweeper \in BOOLEAN
    /\ helper \in [Sessions -> {"none", "up", "dead", "seen", "closed"}]
    /\ lines \in [Sessions -> Seq({"started", "exited", "fatal"})]
    /\ program \in [Sessions -> {"none", "alive", "dead"}]
    /\ job \in [Sessions -> {"none", "loose", "listed", "dead"}]
    /\ blind \subseteq Sessions /\ struck \subseteq Sessions

(* The cap is taken, not merely checked: sessions in the table, ended ones *)
(* included, and calls still on their way into it never exceed             *)
(* PTY_MAX_SESSIONS, however many pty_start calls overlap.                 *)
AtStat  == {s \in Sessions : start[s] = "stat"}
SlotCap == Cardinality(table) + Cardinality(AtStat) <= MaxSessions

(* A reserved slot is given back once on every way out of                  *)
(* startPtySession, so the counter is the number of calls inside it.       *)
InFlight == {s \in Sessions : start[s] \in Starting}
SlotsAccounted == startsInFlight = Cardinality(InFlight)

(* A running program has a helper that watches its stdin, also once the    *)
(* bridge is gone, unless it is one of two sessions.  One whose helper     *)
(* somebody else killed has, as long as the bridge is there, the listeners *)
(* of 'exit' and 'close', which know or are about to read the leader's     *)
(* pid; were the bridge to go before they run, nothing would end it.  And  *)
(* one killed before leaderPid was known lost its helper and nothing else  *)
(* (NO_LEADER), though a comment says that the failed start "still         *)
(* SIGKILLs whatever the helper did not reclaim".                          *)
Listening(s) ==
    /\ s \notin closed /\ helper[s] \in {"dead", "seen"}
    /\ s \in known \/ \E i \in DOMAIN lines[s] : lines[s][i] = "started"

Reclaimable(s) ==
    \/ helper[s] = "up"
    \/ s \in struck /\ (phase # "gone" => Listening(s))
    \/ s \in blind

NoOrphan ==
    /\ TypeOK
    /\ \A s \in Sessions : program[s] = "alive" => Reclaimable(s)

(* Every pty_start call settles unless the bridge goes first: the poll,    *)
(* the drain of a failed start and the metadata write all end.             *)
StartsSettle ==
    \A s \in Sessions :
        start[s] \in Starting ~> (start[s] \in {"done", "failed"} \/ phase = "gone")

(* No program outlives its session's lifetime ceiling or its bridge, were  *)
(* it never to exit by itself, but for the sessions NoOrphan names: one    *)
(* killed before leaderPid was known, and one whose helper somebody else   *)
(* killed, if the bridge goes.  A background job that ttyTargets lists is  *)
(* killed when its session ends, however it ends, unless the bridge goes   *)
(* first: the sweeper, the listeners of 'exit' and 'close' or the helper's *)
(* teardown end them.                                                      *)
SessionsEnd ==
    \A s \in Sessions :
        /\ program[s] = "alive" ~> \/ program[s] = "dead"
                                   \/ s \in blind
                                   \/ s \in struck /\ phase = "gone"
        /\ job[s] = "listed" ~> (job[s] = "dead" \/ phase = "gone")
=============================================================================
