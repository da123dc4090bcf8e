---------------------------- MODULE Bridge_proofs ----------------------------
(***************************************************************************)
(* The sessions of the bridge, the bridge around them, and one terminal.   *)
(*                                                                         *)
(* The cap on pseudo-terminal sessions, and that every program of one is   *)
(* in somebody's hands, for any number of pty_start calls and any          *)
(* PTY_MAX_SESSIONS.  SlotCap is not inductive: a call may enter the table *)
(* at any time, so the test made when its slot was reserved must still     *)
(* hold then.  What makes it hold is that startsInFlight counts every call *)
(* that has not settled, AtStat among them.                                *)
(*                                                                         *)
(* The bridge, latch and shell tools included, drives its sessions only as *)
(* PtySessions allows, so that what holds of every behaviour of            *)
(* PtySessions holds in the bridge.  And the same of its shells: an exit   *)
(* leaves behind only commands that were spawned after its sweep, and a    *)
(* background job is on record for as long as it runs.                     *)
(*                                                                         *)
(* Last, what a client does with one terminal: its answers are its own,    *)
(* nothing it is told was written is dropped, and its transcript is whole. *)
(* None of the three is inductive.  They rest on where each operation is   *)
(* between call and answer, on what pty_write takes the open line to be    *)
(* while writes are under way, and on which slot of the ring holds which   *)
(* unit of the output.                                                     *)
(***************************************************************************)
EXTENDS Bridge, PtyTerminal, FiniteSetTheorems, SequenceTheorems, WellFoundedInduction,
        TLAPS

Stages == Starting \cup {"idle", "done", "failed"}

SlotInv ==
    /\ start \in [Sessions -> Stages]
    /\ startsInFlight \in Nat
    /\ table \subseteq Sessions
    /\ SlotsAccounted
    /\ SlotCap

-----------------------------------------------------------------------------
(* The sets that the invariant counts are finite, and every call that      *)
(* awaits its stat is counted by startsInFlight (reservePtySlot).          *)
LEMMA Counted ==
    ASSUME table \subseteq Sessions
    PROVE  /\ IsFiniteSet(table) /\ IsFiniteSet(AtStat) /\ IsFiniteSet(InFlight)
           /\ Cardinality(table) \in Nat /\ Cardinality(AtStat) \in Nat
           /\ Cardinality(InFlight) \in Nat
           /\ Cardinality(AtStat) <= Cardinality(InFlight)
<1>1. AtStat \subseteq InFlight /\ InFlight \subseteq Sessions
  BY DEF AtStat, InFlight, Starting
<1>2. IsFiniteSet(table) /\ IsFiniteSet(InFlight)
  BY <1>1, FS_Subset, PtyAssumption
<1>3. IsFiniteSet(AtStat) /\ Cardinality(AtStat) <= Cardinality(InFlight)
  BY <1>1, <1>2, FS_Subset
<1> QED
  BY <1>2, <1>3, FS_CardinalityType

(* The calls that are counted after one of them moves on.                  *)
LEMMA Moved ==
    ASSUME start \in [Sessions -> Stages], NEW s \in Sessions,
           NEW from \in Stages, NEW to \in Stages, Moves(s, from, to)
    PROVE  /\ start' \in [Sessions -> Stages]
           /\ InFlight' = IF to \in Starting THEN InFlight \cup {s} ELSE InFlight \ {s}
           /\ AtStat' = IF to = "stat" THEN AtStat \cup {s} ELSE AtStat \ {s}
           /\ s \in InFlight <=> from \in Starting
           /\ s \in AtStat <=> from = "stat"
<1>1. start[s] = from /\ start' = [start EXCEPT ![s] = to]
  BY DEF Moves
<1>2. \A r \in Sessions : start'[r] = IF r = s THEN to ELSE start[r]
  BY <1>1
<1>3. start' \in [Sessions -> Stages]
  BY <1>1
<1>4. InFlight' = IF to \in Starting THEN InFlight \cup {s} ELSE InFlight \ {s}
  BY <1>2 DEF InFlight, Starting
<1>5. AtStat' = IF to = "stat" THEN AtStat \cup {s} ELSE AtStat \ {s}
  BY <1>2 DEF AtStat
<1> QED
  BY <1>1, <1>3, <1>4, <1>5 DEF InFlight, AtStat

-----------------------------------------------------------------------------
LEMMA SlotInit == PtyInit => SlotInv
<1> SUFFICES ASSUME PtyInit PROVE SlotInv
  OBVIOUS
<1>1. AtStat = {} /\ InFlight = {}
  BY DEF PtyInit, AtStat, InFlight, Starting
<1>2. Cardinality({}) = 0
  BY FS_EmptySet
<1> QED
  BY <1>1, <1>2, PtyAssumption
  DEF PtyInit, SlotInv, Stages, SlotsAccounted, SlotCap

(* Taking a slot: there is room for one more before it, and the new call   *)
(* is counted both as in flight and as on its way into the table.          *)
LEMMA ReserveKeeps ==
    ASSUME SlotInv, NEW s \in Sessions, Reserve(s)
    PROVE  SlotInv'
<1> USE DEF SlotInv
<1>1. Moves(s, "idle", "stat") /\ startsInFlight' = startsInFlight + 1
  BY DEF Reserve, reservePtySlot
<1>2. PICK evicted \in SUBSET (table \cap exited) :
         Room(table \ evicted) /\ table' = table \ evicted
  BY DEF Reserve, reservePtySlot, evictClosedPtySessions
<1>3. table' \subseteq Sessions /\ Cardinality(table') + startsInFlight < MaxSessions
  BY <1>2 DEF Room
<1>4. /\ IsFiniteSet(table') /\ Cardinality(table') \in Nat
  <2>1. table' \in SUBSET table
    BY <1>2
  <2> QED
    BY <2>1, Counted, FS_Subset, FS_CardinalityType
<1>5. /\ start' \in [Sessions -> Stages]
      /\ InFlight' = InFlight \cup {s} /\ s \notin InFlight
      /\ AtStat' = AtStat \cup {s} /\ s \notin AtStat
  BY <1>1, Moved DEF Stages, Starting
<1>6. /\ Cardinality(InFlight') = Cardinality(InFlight) + 1
      /\ Cardinality(AtStat') = Cardinality(AtStat) + 1
  BY <1>5, Counted, FS_AddElement
<1>7. Cardinality(AtStat) <= startsInFlight /\ Cardinality(AtStat) \in Nat
  BY Counted DEF SlotsAccounted
<1>8. SlotsAccounted'
  BY <1>1, <1>6 DEF SlotsAccounted
<1>9. SlotCap'
  BY <1>3, <1>4, <1>6, <1>7, PtyAssumption DEF SlotCap
<1> QED
  BY <1>1, <1>3, <1>5, <1>8, <1>9

(* Giving a slot back, on the way out of a call that did not enter the     *)
(* table, left it, or stays in it.                                         *)
LEMMA ReleaseKeeps ==
    ASSUME SlotInv, NEW s \in Sessions, NEW from \in Starting, NEW to \in {"done", "failed"},
           Moves(s, from, to), releasePtySlot, table' \in SUBSET table
    PROVE  SlotInv'
<1> USE DEF SlotInv
<1>1. /\ start' \in [Sessions -> Stages]
      /\ InFlight' = InFlight \ {s} /\ s \in InFlight
      /\ AtStat' = AtStat \ {s}
  BY Moved DEF Stages, Starting
<1>2. Cardinality(InFlight') = Cardinality(InFlight) - 1
  BY <1>1, Counted, FS_RemoveElement
<1>3. Cardinality(InFlight) # 0
  BY <1>1, Counted, FS_EmptySet
<1>4. startsInFlight' = startsInFlight - 1 /\ startsInFlight' \in Nat
  BY <1>3 DEF releasePtySlot, SlotsAccounted
<1>5. Cardinality(AtStat') <= Cardinality(AtStat) /\ Cardinality(AtStat') \in Nat
  <2>1. AtStat' \in SUBSET AtStat
    BY <1>1
  <2> QED
    BY <2>1, Counted, FS_Subset, FS_CardinalityType
<1>6. Cardinality(table') <= Cardinality(table) /\ Cardinality(table') \in Nat
  BY Counted, FS_Subset, FS_CardinalityType
<1>7. SlotCap'
  BY <1>5, <1>6, Counted, PtyAssumption DEF SlotCap
<1>8. SlotsAccounted'
  BY <1>2, <1>4 DEF SlotsAccounted
<1> QED
  BY <1>1, <1>4, <1>7, <1>8

(* Entering the table trades the place on the way for a place in it.       *)
LEMMA SpawnKeeps ==
    ASSUME SlotInv, NEW s \in Sessions, Spawn(s)
    PROVE  SlotInv'
<1> USE DEF SlotInv
<1>1. /\ Moves(s, "stat", "ready") /\ table' = table \cup {s}
      /\ startsInFlight' = startsInFlight
  BY DEF Spawn
<1>2. /\ start' \in [Sessions -> Stages]
      /\ InFlight' = InFlight \cup {s} /\ s \in InFlight
      /\ AtStat' = AtStat \ {s} /\ s \in AtStat
  BY <1>1, Moved DEF Stages, Starting
<1>3. Cardinality(AtStat') = Cardinality(AtStat) - 1
  BY <1>2, Counted, FS_RemoveElement
<1>4. Cardinality(table') <= Cardinality(table) + 1 /\ Cardinality(table') \in Nat
  <2>1. /\ IsFiniteSet(table \cup {s})
        /\ Cardinality(table \cup {s}) = IF s \in table THEN Cardinality(table)
                                                       ELSE Cardinality(table) + 1
    BY Counted, FS_AddElement
  <2> QED
    BY <1>1, <2>1, Counted
<1>5. SlotCap'
  BY <1>3, <1>4, Counted, PtyAssumption DEF SlotCap
<1>6. InFlight' = InFlight
  BY <1>2
<1> QED
  BY <1>1, <1>2, <1>5, <1>6 DEF SlotsAccounted

(* The other steps of a call stay among the counted ones, or never were.   *)
LEMMA OtherMoveKeeps ==
    ASSUME SlotInv, NEW s \in Sessions, NEW from \in Stages, NEW to \in Stages,
           Moves(s, from, to), from # "stat", to # "stat",
           from \in Starting <=> to \in Starting,
           UNCHANGED <<startsInFlight, table>>
    PROVE  SlotInv'
<1> USE DEF SlotInv
<1>1. start' \in [Sessions -> Stages] /\ InFlight' = InFlight /\ AtStat' = AtStat
  BY Moved
<1> QED
  BY <1>1 DEF SlotsAccounted, SlotCap

LEMMA UnchangedKeeps == SlotInv /\ UNCHANGED slots => SlotInv'
  BY DEF SlotInv, slots, SlotsAccounted, SlotCap, InFlight, AtStat

LEMMA SlotNext == SlotInv /\ [PtyNext]_ptyVars => SlotInv'
<1> SUFFICES ASSUME SlotInv, [PtyNext]_ptyVars PROVE SlotInv'
  OBVIOUS
<1>1. ASSUME NEW s \in Sessions, StartStep(s) PROVE SlotInv'
  <2>1. CASE Reserve(s)
    BY <2>1, ReserveKeeps
  <2>2. CASE Reject(s)
    BY <2>2, OtherMoveKeeps DEF Reject, Stages, Starting
  <2>3. CASE StatFails(s)
    BY <2>3, ReleaseKeeps DEF StatFails, Starting
  <2>4. CASE Spawn(s)
    BY <2>4, SpawnKeeps
  <2>5. CASE PollReady(s)
    BY <2>5, OtherMoveKeeps DEF PollReady, Stages, Starting
  <2>6. CASE PollFails(s)
    BY <2>6, OtherMoveKeeps DEF PollFails, Stages, Starting
  <2>7. CASE Drained(s)
    BY <2>7, ReleaseKeeps DEF Drained, Abort, Starting
  <2>8. CASE MetadataFails(s)
    BY <2>8, ReleaseKeeps DEF MetadataFails, Abort, Starting
  <2>9. CASE Record(s)
    BY <2>9, ReleaseKeeps DEF Record, Starting
  <2> QED
    BY <1>1, <2>1, <2>2, <2>3, <2>4, <2>5, <2>6, <2>7, <2>8, <2>9 DEF StartStep
<1>2. ASSUME NEW s \in Sessions, TerminalStep(s) PROVE UNCHANGED slots
  BY <1>2 DEF TerminalStep, HelperForks, HelperFatal, StartJob, ProgramExits, HelperReaps,
              HelperTeardown, HelperKilled
<1>3. ASSUME NEW s \in Sessions, EventStep(s) PROVE UNCHANGED slots
  BY <1>3 DEF EventStep, ReadLine, HelperExit, HelperCloseFallback, HelperClose, Refresh,
              CloseBegins, CloseEnds, SweepReclaims
<1>4. ASSUME Revoke \/ Exit \/ Terminate \/ Crash PROVE UNCHANGED slots
  BY <1>4 DEF Revoke, Exit, Terminate, Crash, Reclaim
<1>5. CASE UNCHANGED ptyVars
  BY <1>5, UnchangedKeeps DEF ptyVars
<1> QED
  BY <1>1, <1>2, <1>3, <1>4, <1>5, UnchangedKeeps DEF PtyNext, SessionStep

-----------------------------------------------------------------------------
(* However many pty_start calls overlap, PTY_MAX_SESSIONS bounds the       *)
(* sessions in the table and the calls on their way into it.               *)
THEOREM CapHolds == PtySpec => []SlotCap
<1>1. PtyInit => SlotInv
  BY SlotInit
<1>2. SlotInv /\ [PtyNext]_ptyVars => SlotInv'
  BY SlotNext
<1>3. SlotInv => SlotCap
  BY DEF SlotInv
<1> QED
  BY <1>1, <1>2, <1>3, PTL DEF PtySpec

(* ptyStartsInFlight neither leaks nor is given back twice.                *)
THEOREM SlotsAreAccounted == PtySpec => []SlotsAccounted
<1>1. PtyInit => SlotInv
  BY SlotInit
<1>2. SlotInv /\ [PtyNext]_ptyVars => SlotInv'
  BY SlotNext
<1>3. SlotInv => SlotsAccounted
  BY DEF SlotInv
<1> QED
  BY <1>1, <1>2, <1>3, PTL DEF PtySpec

-----------------------------------------------------------------------------
(***************************************************************************)
(* No program is left with nothing to end it.                              *)
(*                                                                         *)
(* NoOrphan is not inductive: when a helper is killed, the listeners of    *)
(* 'exit' and 'close' reclaim its program only if the bridge has read, or  *)
(* has yet to read, the line with the leader's pid, and if nothing marked  *)
(* the session closed before.  Announced and the conjunct on closed record *)
(* both; Born, that a session nobody has spawned yet is in no collection.  *)
(***************************************************************************)
Announced(s) == s \in known \/ \E i \in DOMAIN lines[s] : lines[s][i] = "started"

Born(s) ==
    /\ helper[s] = "none" => /\ start[s] \in {"idle", "stat", "failed"}
                             /\ s \notin table /\ s \notin closing
    /\ start[s] \in {"idle", "stat"} => helper[s] = "none"

Watched(s) ==
    /\ helper[s] = "none" => program[s] = "none" /\ s \notin closed
    /\ helper[s] = "up" => s \notin closed
    /\ program[s] # "none" => Announced(s)
    /\ program[s] = "alive" => Reclaimable(s)

OrphanInv == TypeOK /\ \A s \in Sessions : Born(s) /\ Watched(s)

HelperStates  == {"none", "up", "dead", "seen", "closed"}
ProgramStates == {"none", "alive", "dead"}
JobStates     == {"none", "loose", "listed", "dead"}
StatusLines   == {"started", "exited", "fatal"}

LEMMA OrphanInit == PtyInit => OrphanInv
<1> SUFFICES ASSUME PtyInit PROVE OrphanInv
  OBVIOUS
<1>1. TypeOK
  <2>1. <<>> \in Seq({"started", "exited", "fatal"})
    OBVIOUS
  <2>2. lines \in [Sessions -> Seq({"started", "exited", "fatal"})]
    BY <2>1, Zenon DEF PtyInit
  <2> QED
    BY <2>2 DEF PtyInit, TypeOK, past
<1>2. ASSUME NEW s \in Sessions PROVE Born(s) /\ Watched(s)
  BY DEF PtyInit, Born, Watched
<1> QED
  BY <1>1, <1>2 DEF OrphanInv

(* What killPtySession does to the sessions of K, and leaves alone in the  *)
(* others: no program of K runs on, except one it could not reach.         *)
LEMMA KillReaches ==
    ASSUME TypeOK, NEW K \in SUBSET Sessions, killPtySession(K)
    PROVE  /\ program' \in [Sessions -> ProgramStates] /\ helper' \in [Sessions -> HelperStates]
           /\ job' \in [Sessions -> JobStates]
           /\ exited' = exited \cup K /\ closed' = closed \cup K
           /\ blind' \in SUBSET Sessions /\ blind \subseteq blind'
           /\ \A r \in Sessions \ K : program'[r] = program[r] /\ helper'[r] = helper[r]
           /\ \A r \in K : /\ helper'[r] = IF helper[r] = "up" THEN "dead" ELSE helper[r]
                           /\ program'[r] = "none" <=> program[r] = "none"
                           /\ program'[r] = "alive" => r \in blind'
<1> DEFINE unreached == Running(K \ known)
           listed == {s \in K : job[s] = "listed" \/ (job[s] = "loose" /\ Scannable(s))}
<1>1. PICK immune \in SUBSET unreached :
         /\ program' = Set(program, Running(K) \ immune, "dead")
         /\ job' = Set(job, listed, "dead")
         /\ helper' = Set(helper, {s \in K : helper[s] = "up"}, "dead")
         /\ closed' = closed \cup K
         /\ MarkExited(K)
         /\ blind' = blind \cup (K \ known)
  BY DEF killPtySession
<1>2. immune \subseteq K \ known
  BY DEF Running
<1> HIDE DEF unreached, listed
<1>3. /\ program \in [Sessions -> ProgramStates] /\ helper \in [Sessions -> HelperStates]
      /\ job \in [Sessions -> JobStates] /\ blind \in SUBSET Sessions
  BY DEF TypeOK, past, ProgramStates, HelperStates, JobStates
<1>4. /\ program' \in [Sessions -> ProgramStates]
      /\ \A r \in Sessions : program'[r] = IF r \in Running(K) \ immune THEN "dead" ELSE program[r]
  BY <1>1, <1>3 DEF Set, ProgramStates
<1>5. /\ helper' \in [Sessions -> HelperStates]
      /\ \A r \in Sessions :
            helper'[r] = IF r \in {s \in K : helper[s] = "up"} THEN "dead" ELSE helper[r]
  BY <1>1, <1>3 DEF Set, HelperStates
<1>6. job' \in [Sessions -> JobStates]
  BY <1>1, <1>3 DEF Set, JobStates
<1>7. exited' = exited \cup K /\ closed' = closed \cup K
  BY <1>1 DEF MarkExited
<1>8. blind' \in SUBSET Sessions /\ blind \subseteq blind'
  BY <1>1, <1>2, <1>3
<1>9. \A r \in Sessions \ K : program'[r] = program[r] /\ helper'[r] = helper[r]
  BY <1>4, <1>5 DEF Running
<1>10. ASSUME NEW r \in K
       PROVE  /\ helper'[r] = IF helper[r] = "up" THEN "dead" ELSE helper[r]
              /\ program'[r] = "none" <=> program[r] = "none"
              /\ program'[r] = "alive" => r \in blind'
  BY <1>1, <1>2, <1>3, <1>4, <1>5, <1>10 DEF Running, ProgramStates
<1> QED
  BY <1>4, <1>5, <1>6, <1>7, <1>8, <1>9, <1>10

(* Killing spawned sessions keeps every program watched, even as the       *)
(* bridge leaves or goes.                                                  *)
LEMMA KillKeeps ==
    ASSUME OrphanInv, NEW K \in SUBSET Sessions,
           \A r \in K : helper[r] # "none",
           killPtySession(K), UNCHANGED <<known, lines, struck>>, phase # "gone"
    PROVE  \A s \in Sessions : Watched(s)' /\ (helper'[s] = "none" <=> helper[s] = "none")
<1> USE DEF OrphanInv
<1> DEFINE After(r) == /\ helper'[r] = IF helper[r] = "up" THEN "dead" ELSE helper[r]
                       /\ program'[r] = "none" <=> program[r] = "none"
                       /\ program'[r] = "alive" => r \in blind'
<1>1. /\ closed' = closed \cup K /\ blind \subseteq blind'
      /\ \A r \in Sessions \ K : program'[r] = program[r] /\ helper'[r] = helper[r]
      /\ \A r \in K : After(r)
  BY KillReaches
<1>2. ASSUME NEW s \in Sessions PROVE Announced(s)' <=> Announced(s)
  BY DEF Announced
<1>3. ASSUME NEW s \in K PROVE Watched(s)' /\ (helper'[s] = "none" <=> helper[s] = "none")
  <2> HIDE DEF After
  <2>1. s \in Sessions /\ Watched(s) /\ After(s) /\ helper[s] # "none"
    BY <1>1, <1>3
  <2>2. helper'[s] # "none" /\ helper'[s] # "up"
    BY <2>1 DEF After
  <2>3. program'[s] # "none" => Announced(s)'
    BY <1>2, <2>1 DEF After, Watched
  <2>4. program'[s] = "alive" => Reclaimable(s)'
    BY <2>1 DEF After, Reclaimable, Listening, past
  <2> QED
    BY <2>1, <2>2, <2>3, <2>4 DEF Watched
<1>4. ASSUME NEW s \in Sessions \ K
      PROVE  Watched(s)' /\ (helper'[s] = "none" <=> helper[s] = "none")
  <2>1. s \in Sessions /\ Watched(s) /\ program'[s] = program[s] /\ helper'[s] = helper[s]
    BY <1>1, <1>4
  <2>2. s \in closed' <=> s \in closed
    BY <1>1, <1>4
  <2>3. program'[s] # "none" => Announced(s)'
    BY <1>2, <2>1 DEF Watched
  <2>4. program'[s] = "alive" => Reclaimable(s)'
    BY <1>1, <1>4, <2>1, <2>2 DEF Watched, Reclaimable, Listening
  <2> QED
    BY <2>1, <2>2, <2>3, <2>4 DEF Watched
<1> QED
  BY <1>3, <1>4

-----------------------------------------------------------------------------
(* The three kinds of step that kill one session: a start that fails, the  *)
(* end of a pty_close's grace period, and the sweeper's tick.              *)
LEMMA KillOneKeeps ==
    ASSUME OrphanInv, NEW s \in Sessions, helper[s] # "none",
           killPtySession({s}), phase # "gone",
           UNCHANGED <<phase, known, fallback, lines, struck>>,
           closing' \in SUBSET closing, table' \in SUBSET table,
           startsInFlight' \in Nat, sweeper' \in BOOLEAN,
           start' = start \/ (start' = [start EXCEPT ![s] = "failed"])
    PROVE  OrphanInv'
<1> USE DEF OrphanInv
<1>1. TypeOK'
  <2>1. /\ program' \in [Sessions -> ProgramStates] /\ helper' \in [Sessions -> HelperStates]
        /\ job' \in [Sessions -> JobStates]
        /\ exited' = exited \cup {s} /\ closed' = closed \cup {s}
        /\ blind' \in SUBSET Sessions
    BY KillReaches
  <2>2. start' \in [Sessions -> Stages]
    BY DEF TypeOK, past, Stages
  <2> QED
    BY <2>1, <2>2 DEF TypeOK, past, ProgramStates, HelperStates, JobStates, Stages
<1>2. \A r \in Sessions : Watched(r)' /\ (helper'[r] = "none" <=> helper[r] = "none")
  BY KillKeeps
<1>3. ASSUME NEW r \in Sessions PROVE Born(r)'
  <2>1. start'[r] = start[r] \/ (r = s /\ start'[r] = "failed")
    BY DEF TypeOK, past
  <2> QED
    BY <1>2, <1>3, <2>1 DEF Born
<1> QED
  BY <1>1, <1>2, <1>3

LEMMA AbortKeeps ==
    ASSUME OrphanInv, NEW s \in Sessions, NEW from \in {"draining", "recording"}, Abort(s, from)
    PROVE  OrphanInv'
<1>1. /\ phase # "gone" /\ start[s] = from /\ start' = [start EXCEPT ![s] = "failed"]
      /\ killPtySession({s}) /\ table' = table \ {s}
      /\ syncPtyTimers(table') /\ releasePtySlot
      /\ UNCHANGED <<phase, known, closing, fallback, lines, struck>>
  BY DEF Abort, Moves
<1>2. helper[s] # "none"
  BY <1>1 DEF OrphanInv, Born
<1>3. startsInFlight' \in Nat /\ sweeper' \in BOOLEAN
  BY <1>1 DEF OrphanInv, TypeOK, past, releasePtySlot, syncPtyTimers
<1> QED
  BY <1>1, <1>2, <1>3, KillOneKeeps

LEMMA CloseEndsKeeps == ASSUME OrphanInv, NEW s \in Sessions, CloseEnds(s) PROVE OrphanInv'
<1>1. helper[s] # "none"
  BY DEF OrphanInv, Born, CloseEnds
<1>2. startsInFlight' \in Nat /\ sweeper' \in BOOLEAN
  BY DEF OrphanInv, TypeOK, past, CloseEnds, syncPtyTimers, slots
<1> QED
  BY <1>1, <1>2, KillOneKeeps DEF CloseEnds, slots

LEMMA SweepKeeps == ASSUME OrphanInv, NEW s \in Sessions, SweepReclaims(s) PROVE OrphanInv'
<1>1. helper[s] # "none"
  BY DEF OrphanInv, Born, SweepReclaims, Live
<1>2. startsInFlight' \in Nat /\ sweeper' \in BOOLEAN
  BY DEF OrphanInv, TypeOK, past, SweepReclaims, syncPtyTimers, slots
<1> QED
  BY <1>1, <1>2, KillOneKeeps DEF SweepReclaims, slots

(* Revocation and Terminate reclaim every session of the table that is not *)
(* closed yet; one they pass over keeps its helper, or was struck or       *)
(* killed before.                                                          *)
LEMMA ReclaimKeeps ==
    ASSUME OrphanInv, Reclaim, phase # "gone", phase' \in {"leaving", "gone"}
    PROVE  OrphanInv'
<1> USE DEF OrphanInv
<1> DEFINE K == {s \in table : ~(s \in closed /\ s \in exited)}
<1>1. /\ killPtySession(K) /\ syncPtyTimers(table)
      /\ UNCHANGED <<start, startsInFlight, table, known, closing, fallback, lines, struck>>
  BY DEF Reclaim, killPtySessions, slots
<1>2. K \in SUBSET Sessions /\ \A r \in K : helper[r] # "none"
  BY DEF TypeOK, past, Born
<1>3. /\ program' \in [Sessions -> ProgramStates] /\ helper' \in [Sessions -> HelperStates]
      /\ job' \in [Sessions -> JobStates]
      /\ exited' = exited \cup K /\ closed' = closed \cup K
      /\ blind' \in SUBSET Sessions
  BY <1>1, <1>2, KillReaches
<1>5. \A r \in Sessions : Watched(r)' /\ (helper'[r] = "none" <=> helper[r] = "none")
  BY <1>1, <1>2, KillKeeps
<1>6. TypeOK'
  <2>1. sweeper' \in BOOLEAN /\ phase' \in {"running", "leaving", "gone"}
    BY <1>1 DEF syncPtyTimers
  <2> QED
    BY <1>1, <1>2, <1>3, <2>1 DEF TypeOK, past, ProgramStates, HelperStates, JobStates
<1>7. ASSUME NEW r \in Sessions PROVE Born(r)'
  BY <1>1, <1>5, <1>7 DEF Born
<1> QED
  BY <1>5, <1>6, <1>7

-----------------------------------------------------------------------------
(* The other steps of a pty_start call leave what runs alone, and put only *)
(* a session that nobody spawned before under a helper.                    *)
LEMMA StartKeeps ==
    ASSUME OrphanInv, NEW s \in Sessions,
           \/ Reserve(s) \/ Reject(s) \/ StatFails(s) \/ PollReady(s) \/ PollFails(s)
           \/ Record(s)
    PROVE  OrphanInv'
<1> USE DEF OrphanInv
<1>1. PICK from \in {"idle", "stat", "ready", "recording"},
           to \in {"stat", "ready", "recording", "draining", "done", "failed"} :
         /\ start[s] = from /\ start' = [start EXCEPT ![s] = to]
         /\ from \in {"idle", "stat"} => to \in {"stat", "failed"}
         /\ from \in {"ready", "recording"} => to \in {"recording", "draining", "done"}
  <2>1. CASE Reserve(s)
    BY <2>1, Zenon DEF Reserve, Moves
  <2>2. CASE Reject(s)
    BY <2>2, Zenon DEF Reject, Moves
  <2>3. CASE StatFails(s)
    BY <2>3, Zenon DEF StatFails, Moves
  <2>4. CASE PollReady(s)
    BY <2>4, Zenon DEF PollReady, Moves
  <2>5. CASE PollFails(s)
    BY <2>5, Zenon DEF PollFails, Moves
  <2>6. CASE Record(s)
    BY <2>6, Zenon DEF Record, Moves
  <2> QED
    BY <2>1, <2>2, <2>3, <2>4, <2>5, <2>6
<1>2. /\ table' \in SUBSET table /\ startsInFlight' \in Nat
      /\ UNCHANGED <<phase, flags, helper, lines, program, past>>
      /\ job' \in [Sessions -> JobStates]
  <2>1. startsInFlight \in Nat /\ job \in [Sessions -> JobStates]
    BY DEF TypeOK, past, JobStates
  <2>2. CASE Reserve(s)
    BY <2>1, <2>2 DEF Reserve, reservePtySlot, flags, os
  <2>3. CASE Reject(s) \/ PollReady(s) \/ PollFails(s)
    BY <2>1, <2>3 DEF Reject, PollReady, PollFails, flags, os
  <2>4. CASE StatFails(s)
    BY <2>1, <2>4 DEF StatFails, releasePtySlot, flags, os
  <2>5. CASE Record(s)
    BY <2>1, <2>5 DEF Record, releasePtySlot, refreshPtyTtyTargets, flags, JobStates
  <2> QED
    BY <2>2, <2>3, <2>4, <2>5
<1>3. TypeOK'
  <2>1. start' \in [Sessions -> Stages]
    BY <1>1 DEF TypeOK, past, Stages, Starting
  <2> QED
    BY <1>2, <2>1 DEF TypeOK, past, flags, JobStates, Stages
<1>4. ASSUME NEW r \in Sessions PROVE Born(r)' /\ Watched(r)'
  <2>1. Watched(r)'
    BY <1>2, <1>4 DEF Watched, Reclaimable, Listening, past, Announced, flags
  <2>2. start'[r] = IF r = s THEN to ELSE start[r]
    BY <1>1, <1>4 DEF TypeOK, past
  <2>3. Born(r)'
    BY <1>1, <1>2, <1>4, <2>2 DEF Born, flags
  <2> QED
    BY <2>1, <2>3
<1> QED
  BY <1>3, <1>4

LEMMA SpawnWatches == ASSUME OrphanInv, NEW s \in Sessions, Spawn(s) PROVE OrphanInv'
<1> USE DEF OrphanInv
<1>1. /\ start[s] = "stat" /\ start' = [start EXCEPT ![s] = "ready"]
      /\ table' = table \cup {s} /\ helper' = [helper EXCEPT ![s] = "up"]
      /\ UNCHANGED <<phase, startsInFlight, exited, closed, known, closing, fallback,
                     lines, program, job, past>>
  BY DEF Spawn, Moves
<1>2. TypeOK'
  <2>1. sweeper' \in BOOLEAN
    BY DEF Spawn, syncPtyTimers
  <2> QED
    BY <1>1, <2>1 DEF TypeOK, past, Starting
<1>3. ASSUME NEW r \in Sessions PROVE Born(r)' /\ Watched(r)'
  <2>1. /\ start'[r] = IF r = s THEN "ready" ELSE start[r]
        /\ helper'[r] = IF r = s THEN "up" ELSE helper[r]
    BY <1>1 DEF TypeOK, past
  <2>2. Born(r)'
    BY <1>1, <1>3, <2>1 DEF Born
  <2>3. Watched(r)'
    BY <1>1, <1>3, <2>1 DEF Born, Watched, Reclaimable, Listening, past, Announced
  <2> QED
    BY <2>2, <2>3
<1> QED
  BY <1>2, <1>3

-----------------------------------------------------------------------------
(* What a session's own line says is never unsaid: it stays in the stream  *)
(* behind what is appended.                                                *)
LEMMA AppendKeepsNotes ==
    ASSUME NEW q \in Seq(StatusLines), NEW n \in StatusLines
    PROVE  /\ Append(q, n) \in Seq(StatusLines)
           /\ \A i \in DOMAIN q : i \in DOMAIN Append(q, n) /\ Append(q, n)[i] = q[i]
           /\ Len(q) + 1 \in DOMAIN Append(q, n) /\ Append(q, n)[Len(q) + 1] = n
  OBVIOUS

LEMMA TailKeepsNotes ==
    ASSUME NEW q \in Seq(StatusLines), q # <<>>
    PROVE  /\ Head(q) \in StatusLines /\ Tail(q) \in Seq(StatusLines)
           /\ \A i \in DOMAIN q : q[i] = Head(q) \/ \E j \in DOMAIN Tail(q) : Tail(q)[j] = q[i]
<1>1. ASSUME NEW i \in DOMAIN q, i # 1
      PROVE  \E j \in DOMAIN Tail(q) : Tail(q)[j] = q[i]
  <2>1. i - 1 \in DOMAIN Tail(q) /\ Tail(q)[i - 1] = q[i]
    BY <1>1
  <2> QED
    BY <2>1
<1> QED
  BY <1>1

(* A helper's steps that change its streams.                               *)
LEMMA HelperForksKeeps == ASSUME OrphanInv, NEW s \in Sessions, HelperForks(s) PROVE OrphanInv'
<1> USE DEF OrphanInv
<1>1. /\ helper[s] = "up" /\ program[s] = "none"
      /\ program' = [program EXCEPT ![s] = "alive"]
      /\ lines' = [lines EXCEPT ![s] = Append(@, "started")]
      /\ UNCHANGED <<phase, slots, flags, helper, job, past>>
  BY DEF HelperForks
<1>2. lines \in [Sessions -> Seq(StatusLines)] /\ Append(lines[s], "started") \in Seq(StatusLines)
  BY AppendKeepsNotes DEF TypeOK, past, StatusLines
<1>3. TypeOK'
  BY <1>1, <1>2 DEF TypeOK, past, StatusLines, slots, flags
<1>4. ASSUME NEW r \in Sessions PROVE Born(r)' /\ Watched(r)'
  <2>1. Born(r)'
    BY <1>1, <1>4 DEF Born, slots, flags
  <2>2. CASE r = s
    <3>1. Announced(s)'
      BY <1>1, <1>2, AppendKeepsNotes DEF Announced, StatusLines
    <3>2. helper'[s] = "up" /\ s \notin closed'
      BY <1>1 DEF Watched, flags
    <3> QED
      BY <2>1, <2>2, <3>1, <3>2 DEF Watched, Reclaimable, Listening, past
  <2>3. CASE r # s
    <3>1. program'[r] = program[r] /\ lines'[r] = lines[r]
      BY <1>1, <1>2, <2>3 DEF TypeOK, past
    <3>2. UNCHANGED <<phase, known, closed, helper, past>>
      BY <1>1, Zenon DEF flags
    <3> QED
      BY <1>4, <2>1, <3>1, <3>2 DEF Watched, Reclaimable, Listening, past, Announced
  <2> QED
    BY <2>1, <2>2, <2>3
<1> QED
  BY <1>3, <1>4

LEMMA HelperEndsKeeps ==
    ASSUME OrphanInv, NEW s \in Sessions, HelperFatal(s) \/ HelperReaps(s)
    PROVE  OrphanInv'
<1> USE DEF OrphanInv
<1>1. PICK note \in StatusLines : lines' = [lines EXCEPT ![s] = Append(@, note)]
  BY DEF HelperFatal, HelperReaps, StatusLines
<1>2. /\ helper[s] = "up" /\ program[s] # "alive"
      /\ helper' = [helper EXCEPT ![s] = "dead"]
      /\ UNCHANGED <<phase, slots, flags, program, job, past>>
  BY DEF HelperFatal, HelperReaps
<1>3. lines \in [Sessions -> Seq(StatusLines)] /\ Append(lines[s], note) \in Seq(StatusLines)
  BY AppendKeepsNotes DEF TypeOK, past, StatusLines
<1>4. TypeOK'
  BY <1>1, <1>2, <1>3 DEF TypeOK, past, StatusLines, slots, flags
<1>5. ASSUME NEW r \in Sessions PROVE Born(r)' /\ Watched(r)'
  <2>1. /\ helper'[r] = IF r = s THEN "dead" ELSE helper[r]
        /\ lines'[r] = IF r = s THEN Append(lines[s], note) ELSE lines[r]
    BY <1>1, <1>2, <1>3 DEF TypeOK, past
  <2>2. Born(r)'
    BY <1>2, <1>5, <2>1 DEF Born, slots, flags
  <2>3. Announced(r) => Announced(r)'
    <3>1. CASE r = s
      <4>1. lines[r] \in Seq(StatusLines) /\ lines'[r] = Append(lines[r], note)
        BY <1>3, <2>1, <3>1
      <4> QED
        BY <1>2, <4>1, AppendKeepsNotes DEF Announced, flags
    <3>2. CASE r # s
      BY <1>2, <2>1, <3>2 DEF Announced, flags
    <3> QED
      BY <3>1, <3>2
  <2>4. Watched(r)'
    <3>1. CASE r = s
      BY <1>2, <2>1, <2>3, <3>1 DEF Watched, flags
    <3>2. CASE r # s
      BY <1>2, <1>5, <2>1, <3>2 DEF Watched, Reclaimable, Listening, past, Announced, flags
    <3> QED
      BY <3>1, <3>2
  <2> QED
    BY <2>2, <2>4
<1> QED
  BY <1>4, <1>5

(* The steps that end a program, or run beside it.                         *)
LEMMA StartJobKeeps ==
    ASSUME OrphanInv, NEW s \in Sessions, StartJob(s) \/ Refresh(s) \/ CloseBegins(s)
    PROVE  OrphanInv'
<1> USE DEF OrphanInv
<1>1. /\ UNCHANGED <<phase, slots, exited, closed, known, sweeper, fallback, helper, lines,
                     program, past>>
      /\ closing' = closing \/ (closing' = closing \cup {s} /\ s \in table)
  BY DEF StartJob, Refresh, CloseBegins, flags
<1>2. job' \in [Sessions -> JobStates]
  <2>1. job \in [Sessions -> JobStates]
    BY DEF TypeOK, past, JobStates
  <2>2. CASE StartJob(s)
    BY <2>1, <2>2 DEF StartJob, JobStates
  <2>3. CASE Refresh(s)
    BY <2>1, <2>3 DEF Refresh, refreshPtyTtyTargets, JobStates
  <2>4. CASE CloseBegins(s)
    BY <2>1, <2>4 DEF CloseBegins, JobStates
  <2> QED
    BY <2>2, <2>3, <2>4
<1>3. TypeOK'
  BY <1>1, <1>2 DEF TypeOK, past, JobStates, slots
<1>4. ASSUME NEW r \in Sessions PROVE Born(r)' /\ Watched(r)'
  <2>1. Born(r)'
    BY <1>1, <1>4 DEF Born, slots
  <2>2. Watched(r)'
    BY <1>1, <1>4 DEF Watched, Reclaimable, Listening, past, Announced
  <2> QED
    BY <2>1, <2>2
<1> QED
  BY <1>3, <1>4

LEMMA ProgramEndsKeeps ==
    ASSUME OrphanInv, NEW s \in Sessions, ProgramExits(s) \/ HelperTeardown(s)
    PROVE  OrphanInv'
<1> USE DEF OrphanInv
<1>1. /\ program[s] # "none" /\ program' = [program EXCEPT ![s] = "dead"]
      /\ helper' = helper \/ (helper[s] = "up" /\ helper' = [helper EXCEPT ![s] = "dead"])
      /\ UNCHANGED <<phase, slots, flags, lines, past>>
  BY DEF ProgramExits, HelperTeardown
<1>2. job' \in [Sessions -> JobStates]
  BY DEF ProgramExits, HelperTeardown, TypeOK, past, JobStates
<1>3. TypeOK'
  BY <1>1, <1>2 DEF TypeOK, past, JobStates, slots, flags
<1>4. ASSUME NEW r \in Sessions PROVE Born(r)' /\ Watched(r)'
  <2>1. /\ program'[r] = IF r = s THEN "dead" ELSE program[r]
        /\ helper'[r] = helper[r] \/ (r = s /\ helper[r] = "up" /\ helper'[r] = "dead")
    BY <1>1 DEF TypeOK, past
  <2>2. Born(r)'
    BY <1>1, <1>4, <2>1 DEF Born, slots, flags
  <2>3. Announced(r)' <=> Announced(r)
    BY <1>1 DEF Announced, flags
  <2>4. CASE r = s
    BY <1>1, <2>1, <2>2, <2>3, <2>4 DEF Watched, flags
  <2>5. CASE r # s
    <3>1. Reclaimable(r)' <=> Reclaimable(r)
      BY <1>1, <2>1, <2>5 DEF Reclaimable, Listening, past, flags
    <3> QED
      BY <1>1, <1>4, <2>1, <2>2, <2>3, <2>5, <3>1 DEF Watched, flags
  <2> QED
    BY <2>4, <2>5
<1> QED
  BY <1>3, <1>4

(* A helper killed from outside leaves its program to the listeners, or,   *)
(* with the bridge gone, to nobody.                                        *)
LEMMA HelperKilledKeeps == ASSUME OrphanInv, NEW s \in Sessions, HelperKilled(s) PROVE OrphanInv'
<1> USE DEF OrphanInv
<1>1. /\ helper[s] = "up" /\ helper' = [helper EXCEPT ![s] = "dead"]
      /\ program' \in {program, Set(program, Running({s}), "dead")}
      /\ struck' = struck \cup {s}
      /\ UNCHANGED <<phase, slots, flags, lines, job, blind>>
  BY DEF HelperKilled
<1>2. /\ program' \in [Sessions -> ProgramStates]
      /\ \A r \in Sessions : \/ program'[r] = program[r]
                             \/ r = s /\ program[r] = "alive" /\ program'[r] = "dead"
  BY <1>1 DEF TypeOK, past, ProgramStates, Set, Running
<1>3. TypeOK'
  BY <1>1, <1>2 DEF TypeOK, past, ProgramStates, slots, flags
<1>4. ASSUME NEW r \in Sessions PROVE Born(r)' /\ Watched(r)'
  <2>1. helper'[r] = IF r = s THEN "dead" ELSE helper[r]
    BY <1>1 DEF TypeOK, past
  <2>2. Born(r)'
    BY <1>1, <1>4, <2>1 DEF Born, slots, flags
  <2>3. Announced(r)' <=> Announced(r)
    BY <1>1 DEF Announced, flags
  <2>4. program'[r] = "none" <=> program[r] = "none"
    BY <1>2
  <2>5. CASE r = s
    <3>1. program'[r] # "none" => Announced(r)'
      BY <1>4, <2>3, <2>4 DEF Watched
    <3>2. program'[r] = "alive" => Reclaimable(r)' 
      BY <1>1, <2>1, <2>5, <3>1 DEF Watched, Reclaimable, Listening, past, Announced, flags
    <3> QED
      BY <2>1, <2>2, <2>5, <3>1, <3>2 DEF Watched
  <2>6. CASE r # s
    <3>1. program'[r] = program[r] /\ (Reclaimable(r)' <=> Reclaimable(r))
      BY <1>1, <1>2, <2>1, <2>6 DEF Reclaimable, Listening, past, flags
    <3> QED
      BY <1>1, <1>4, <2>1, <2>2, <2>3, <2>6, <3>1 DEF Watched, flags
  <2> QED
    BY <2>5, <2>6
<1> QED
  BY <1>3, <1>4

-----------------------------------------------------------------------------
(* What reaches the bridge.  The line with the leader's pid leaves the     *)
(* stream as the pid becomes known.                                        *)
LEMMA ReadLineKeeps == ASSUME OrphanInv, NEW s \in Sessions, ReadLine(s) PROVE OrphanInv'
<1> USE DEF OrphanInv
<1>1. /\ lines[s] # <<>> /\ lines' = [lines EXCEPT ![s] = Tail(@)]
      /\ \/ Head(lines[s]) = "started" /\ known' = known \cup {s} /\ UNCHANGED <<exited, sweeper>>
         \/ /\ Head(lines[s]) # "started" /\ exited' = exited \cup {s}
            /\ sweeper' \in BOOLEAN /\ UNCHANGED known
      /\ UNCHANGED <<phase, slots, closed, closing, fallback, helper, program, job, past>>
  BY DEF ReadLine, MarkExited, syncPtyTimers
<1>2. /\ lines \in [Sessions -> Seq(StatusLines)] /\ Tail(lines[s]) \in Seq(StatusLines)
      /\ \A i \in DOMAIN lines[s] :
            lines[s][i] = Head(lines[s]) \/ \E j \in DOMAIN Tail(lines[s]) : Tail(lines[s])[j] = lines[s][i]
  BY <1>1, TailKeepsNotes DEF TypeOK, past, StatusLines
<1>3. known \subseteq known' /\ known' \subseteq Sessions /\ exited \subseteq exited'
      /\ exited' \subseteq Sessions /\ sweeper' \in BOOLEAN
  BY <1>1 DEF TypeOK, past
<1>4. TypeOK'
  <2>1. lines' \in [Sessions -> Seq(StatusLines)]
    BY <1>1, <1>2
  <2> QED
    BY <1>1, <1>3, <2>1 DEF TypeOK, past, StatusLines, slots
<1>5. ASSUME NEW r \in Sessions PROVE Born(r)' /\ Watched(r)'
  <2>1. lines'[r] = IF r = s THEN Tail(lines[s]) ELSE lines[r]
    BY <1>1, <1>2
  <2>2. Born(r)'
    BY <1>1, <1>5 DEF Born, slots
  <2>3. Announced(r) => Announced(r)'
    <3>1. CASE r = s
      BY <1>1, <1>2, <1>3, <2>1, <3>1 DEF Announced
    <3>2. CASE r # s
      BY <1>3, <2>1, <3>2 DEF Announced
    <3> QED
      BY <3>1, <3>2
  <2>4. Reclaimable(r) => Reclaimable(r)'
    BY <1>1, <2>3 DEF Reclaimable, Listening, past, Announced
  <2> QED
    BY <1>1, <1>5, <2>2, <2>3, <2>4 DEF Watched
<1> QED
  BY <1>4, <1>5

(* The listeners of 'exit' and 'close' reclaim the leader's group as soon  *)
(* as they know it; until the stream has ended they may not.               *)
LEMMA HelperExitKeeps ==
    ASSUME OrphanInv, NEW s \in Sessions, HelperExit(s) \/ HelperClose(s)
    PROVE  OrphanInv'
<1> USE DEF OrphanInv
<1>1. PICK h \in {"seen", "closed"} :
         /\ helper[s] \in {"dead", "seen"} /\ helper' = [helper EXCEPT ![s] = h]
         /\ h = "closed" => lines[s] = <<>>
         /\ exited \subseteq exited' /\ exited' \subseteq Sessions
         /\ fallback' \subseteq Sessions /\ sweeper' \in BOOLEAN
  BY DEF HelperExit, HelperClose, MarkExited, syncPtyTimers, TypeOK, past
<1>2. /\ reclaimLeaderGroup(s)
      /\ UNCHANGED <<phase, slots, closed, known, closing, lines, past>>
  BY DEF HelperExit, HelperClose
<1>3. /\ program' \in [Sessions -> ProgramStates]
      /\ \A r \in Sessions \ {s} : program'[r] = program[r]
      /\ program'[s] = "none" <=> program[s] = "none"
      /\ program'[s] = "alive" => program[s] = "alive" /\ s \notin known \ closed
  <2>1. program \in [Sessions -> ProgramStates]
    BY DEF TypeOK, past, ProgramStates
  <2>2. CASE s \in known \ closed
    BY <1>2, <2>1, <2>2 DEF reclaimLeaderGroup, Set, Running, ProgramStates
  <2>3. CASE s \notin known \ closed
    BY <1>2, <2>1, <2>3 DEF reclaimLeaderGroup
  <2> QED
    BY <2>2, <2>3
<1>4. job' \in [Sessions -> JobStates]
  BY DEF HelperExit, HelperClose, sweepPtyTtyOnClose, TypeOK, past, JobStates
<1>5. TypeOK'
  BY <1>1, <1>2, <1>3, <1>4 DEF TypeOK, past, ProgramStates, JobStates, slots
<1>6. ASSUME NEW r \in Sessions PROVE Born(r)' /\ Watched(r)'
  <2>1. helper'[r] = IF r = s THEN h ELSE helper[r]
    BY <1>1 DEF TypeOK, past
  <2>2. Born(r)'
    BY <1>1, <1>2, <1>6, <2>1 DEF Born, slots
  <2>3. Announced(r)' <=> Announced(r)
    BY <1>2 DEF Announced
  <2>4. CASE r = s
    <3>1. program'[r] # "none" => Announced(r)'
      BY <1>3, <1>6, <2>3, <2>4 DEF Watched
    <3>2. program'[r] = "alive" => Reclaimable(r)' 
      BY <1>1, <1>2, <1>3, <2>1, <2>4, <3>1 DEF Watched, Reclaimable, Listening, past, Announced
    <3> QED
      BY <1>1, <2>1, <2>2, <2>4, <3>1, <3>2 DEF Watched
  <2>5. CASE r # s
    <3>1. program'[r] = program[r] /\ (Reclaimable(r)' <=> Reclaimable(r))
      BY <1>2, <1>3, <1>6, <2>1, <2>5 DEF Reclaimable, Listening, past
    <3> QED
      BY <1>2, <1>6, <2>1, <2>2, <2>3, <2>5, <3>1 DEF Watched
  <2> QED
    BY <2>4, <2>5
<1> QED
  BY <1>5, <1>6

LEMMA FallbackKeeps ==
    ASSUME OrphanInv, NEW s \in Sessions, HelperCloseFallback(s)
    PROVE  OrphanInv'
<1> USE DEF OrphanInv
<1>1. /\ fallback' \subseteq Sessions /\ exited \subseteq exited' /\ exited' \subseteq Sessions
      /\ sweeper' \in BOOLEAN
      /\ UNCHANGED <<phase, slots, closed, known, closing, helper, lines, program, past>>
  BY DEF HelperCloseFallback, MarkExited, syncPtyTimers, TypeOK, past
<1>2. job' \in [Sessions -> JobStates]
  BY DEF HelperCloseFallback, sweepPtyTtyOnClose, TypeOK, past, JobStates
<1>3. TypeOK'
  BY <1>1, <1>2 DEF TypeOK, past, JobStates, slots
<1>4. ASSUME NEW r \in Sessions PROVE Born(r)' /\ Watched(r)'
  BY <1>1, <1>4 DEF Born, Watched, Reclaimable, Listening, past, Announced, slots
<1> QED
  BY <1>3, <1>4

(* The bridge goes: what only it could still end has lost its helper to    *)
(* somebody else, or to a kill that did not know the leader.               *)
LEMMA GoneKeeps == ASSUME OrphanInv, Exit \/ Crash PROVE OrphanInv'
<1> USE DEF OrphanInv
<1>1. phase' = "gone" /\ UNCHANGED <<slots, flags, os, past>>
  BY DEF Exit, Crash
<1>2. TypeOK'
  BY <1>1 DEF TypeOK, past, slots, flags, os
<1>3. ASSUME NEW r \in Sessions PROVE Born(r)' /\ Watched(r)'
  <2>1. Born(r)'
    BY <1>1, <1>3 DEF Born, slots, flags, os
  <2>2. Reclaimable(r) => Reclaimable(r)'
    BY <1>1 DEF Reclaimable, Listening, past, os
  <2> QED
    BY <1>1, <1>3, <2>1, <2>2 DEF Watched, Announced, flags, os
<1> QED
  BY <1>2, <1>3

-----------------------------------------------------------------------------
LEMMA OrphanNext == OrphanInv /\ [PtyNext]_ptyVars => OrphanInv'
<1> SUFFICES ASSUME OrphanInv, [PtyNext]_ptyVars PROVE OrphanInv'
  OBVIOUS
<1>1. ASSUME NEW s \in Sessions, StartStep(s) PROVE OrphanInv'
  BY <1>1, StartKeeps, SpawnWatches, AbortKeeps DEF StartStep, Drained, MetadataFails
<1>2. ASSUME NEW s \in Sessions, TerminalStep(s) PROVE OrphanInv'
  BY <1>2, HelperForksKeeps, HelperEndsKeeps, StartJobKeeps, ProgramEndsKeeps, HelperKilledKeeps
  DEF TerminalStep
<1>3. ASSUME NEW s \in Sessions, EventStep(s) PROVE OrphanInv'
  BY <1>3, ReadLineKeeps, HelperExitKeeps, FallbackKeeps, StartJobKeeps, CloseEndsKeeps,
     SweepKeeps DEF EventStep
<1>4. CASE Revoke
  BY <1>4, ReclaimKeeps DEF Revoke
<1>5. CASE Terminate
  BY <1>5, ReclaimKeeps DEF Terminate
<1>6. CASE Exit \/ Crash
  BY <1>6, GoneKeeps
<1>7. CASE UNCHANGED ptyVars
  <2>1. TypeOK'
    BY <1>7 DEF OrphanInv, TypeOK, past, ptyVars, slots, flags, os
  <2>2. ASSUME NEW r \in Sessions PROVE Born(r)' /\ Watched(r)'
    BY <1>7, <2>2
    DEF OrphanInv, Born, Watched, Reclaimable, Listening, past, Announced, ptyVars, slots, flags, os
  <2> QED
    BY <2>1, <2>2 DEF OrphanInv
<1> QED
  BY <1>1, <1>2, <1>3, <1>4, <1>5, <1>6, <1>7 DEF PtyNext, SessionStep

(* As long as a session's program runs, a helper watches its stdin, or a   *)
(* bridge that knows or will read the leader's pid awaits the end of a     *)
(* helper somebody else killed.  The two sessions left out are those whose *)
(* helper was killed by the bridge before it knew the leader, or by        *)
(* somebody else with the bridge gone.                                     *)
THEOREM ProgramsAreWatched == PtySpec => []NoOrphan
<1>1. OrphanInv => NoOrphan
  BY DEF OrphanInv, NoOrphan, Watched
<1> QED
  BY <1>1, OrphanInit, OrphanNext, PTL DEF PtySpec

-----------------------------------------------------------------------------
(***************************************************************************)
(* The bridge.                                                             *)
(***************************************************************************)
LEMMA InitImplements == Init => PtyInit
  BY DEF Init

(* A step of the bridge is a step of its sessions or leaves them alone.    *)
LEMMA NextImplements == [Next]_vars => [PtyNext]_ptyVars
<1> SUFFICES ASSUME [Next]_vars PROVE [PtyNext]_ptyVars
  OBVIOUS
<1>1. ASSUME RemoveLatch \/ AuditWritten PROVE UNCHANGED ptyVars
  BY <1>1 DEF RemoveLatch, AuditWritten
<1>2. ASSUME recheckUnlock \/ Flushed \/ teardownAll \/ Killed PROVE PtyNext
  BY <1>2 DEF recheckUnlock, Flushed, teardownAll, Killed, PtyNext
<1>3. ASSUME NEW c \in Calls, Check(c) PROVE UNCHANGED ptyVars
  BY <1>3 DEF Check
<1>4. ASSUME NEW c \in Calls, Refuse(c) PROVE PtyNext
  BY <1>4 DEF Refuse, PtyNext
<1>5. ASSUME NEW c \in Shells,
             runCommand(c) \/ JobSpawns(c) \/ JobRecorded(c) \/ JobMetadataFails(c)
                \/ ShellFails(c) \/ ShellEnds(c)
      PROVE  UNCHANGED ptyVars
  BY <1>5 DEF runCommand, JobSpawns, JobRecorded, JobMetadataFails, ShellFails, ShellEnds
<1>6. ASSUME NEW s \in Sessions, PtyStart(s) \/ PtyStep(s) PROVE PtyNext
  <2>1. SessionStep(s)
    BY <1>6 DEF PtyStart, PtyStep, SessionStep, StartStep
  <2> QED
    BY <2>1 DEF PtyNext
<1>7. CASE UNCHANGED vars
  BY <1>7 DEF vars
<1> QED
  BY <1>1, <1>2, <1>3, <1>4, <1>5, <1>6, <1>7 DEF Next, Shells

(* The bridge implements PtySessions, whatever its calls, its latch and    *)
(* its exits do.                                                           *)
THEOREM ImplementsPtySessions == Spec => PtySessionsImplemented
<1> QED
  BY InitImplements, NextImplements, PTL DEF Spec, PtySpec, PtySessionsImplemented

(* Hence the cap on sessions holds in the whole bridge.                    *)
THEOREM BridgeCap == Spec => []SlotCap
<1> QED
  BY ImplementsPtySessions, CapHolds, PTL DEF PtySessionsImplemented

(* The same holds in the whole bridge, whatever its calls, its latch and   *)
(* its exits do.                                                           *)
THEOREM BridgeWatches == Spec => []NoOrphan
<1> QED
  BY ImplementsPtySessions, ProgramsAreWatched, PTL DEF PtySessionsImplemented

-----------------------------------------------------------------------------
(***************************************************************************)
(* Commands and jobs.  SurvivorsAreKnown speaks of the bridge after its    *)
(* exit; what makes it hold is that a running command is one that the next *)
(* sweep of inFlightCommands finds, and that after the first sweep only    *)
(* late ones run; and that a running job is on its way to the record or in *)
(* it.                                                                     *)
(***************************************************************************)
OwnTypeOK ==
    /\ latch \in {"present", "removed"} /\ ackFromEnv \in BOOLEAN
    /\ call \in [Calls -> {"idle", "passed", "refused", "recording", "over"}]
    /\ shell \in [Shells -> {"none", "alive", "dead"}]
    /\ inFlight \subseteq Commands /\ recorded \subseteq Jobs /\ late \subseteq Commands
    /\ ending \subseteq {"audit", "flush"} /\ crashed \in BOOLEAN

CommandSwept(c) ==
    shell[c] = "alive" => /\ phase = "gone" \/ c \in inFlight
                          /\ phase = "running" \/ crashed \/ c \in late

JobOnItsWay(j) ==
    shell[j] = "alive" => call[j] = "recording" \/ (call[j] = "over" /\ j \in recorded)

ShellInv ==
    /\ OwnTypeOK
    /\ \A c \in Commands : CommandSwept(c)
    /\ \A j \in Jobs : JobOnItsWay(j)

LEMMA ShellInit == Init => ShellInv
  BY DEF Init, ShellInv, OwnTypeOK, gate, CommandSwept, JobOnItsWay, Shells

(* killInFlightCommands: a command that runs on is not registered, and     *)
(* jobs are left alone.                                                    *)
LEMMA SweepShells ==
    ASSUME ShellInv, killInFlightCommands
    PROVE  /\ shell' \in [Shells -> {"none", "alive", "dead"}] /\ inFlight' = {}
           /\ \A c \in Commands : shell'[c] = "alive" => shell[c] = "alive" /\ c \notin inFlight
           /\ \A j \in Jobs : shell'[j] = shell[j]
<1>1. \A c \in Shells : shell'[c] = IF c \in inFlight THEN "dead" ELSE shell[c]
  BY DEF killInFlightCommands
<1>2. \A j \in Jobs : j \notin inFlight
  BY BridgeAssumption DEF ShellInv, OwnTypeOK, gate
<1> QED
  BY <1>1, <1>2 DEF killInFlightCommands, Shells, ShellInv, OwnTypeOK, gate

(* The steps of the latch.  Revoke leaves the bridge running or leaving,   *)
(* and every command that ran before is dead; Exit, Terminate and Crash    *)
(* make no command late.                                                   *)
LEMMA LatchKeeps ==
    ASSUME ShellInv, phase \in {"running", "leaving", "gone"},
           \/ RemoveLatch \/ recheckUnlock \/ AuditWritten \/ Flushed \/ teardownAll \/ Killed
           \/ \E c \in Calls : Check(c) \/ Refuse(c)
    PROVE  ShellInv'
<1> USE DEF ShellInv
<1>1. CASE \/ RemoveLatch \/ AuditWritten
  <2>1. /\ UNCHANGED <<phase, call, shell, inFlight, recorded, late, crashed>>
        /\ latch' \in {"present", "removed"} /\ UNCHANGED ackFromEnv /\ ending' \subseteq {"audit", "flush"}
    BY <1>1 DEF RemoveLatch, AuditWritten, ptyVars, gate, OwnTypeOK
  <2> QED
    BY <2>1 DEF OwnTypeOK, gate, CommandSwept, JobOnItsWay
<1>2. ASSUME NEW c \in Calls, Check(c) PROVE ShellInv'
  <2>1. /\ UNCHANGED <<phase, gate, shell, inFlight, recorded, ending, late, crashed>>
        /\ call[c] = "idle"
    BY <1>2 DEF Check, Goes, ptyVars, gate
  <2>2. PICK verdict \in {"passed", "refused"} : call' = [call EXCEPT ![c] = verdict]
    BY <1>2 DEF Check, Goes, readUnlockLatch
  <2>3. \A d \in Calls \ {c} : call'[d] = call[d]
    BY <2>2 DEF OwnTypeOK, gate
  <2>4. ASSUME NEW j \in Jobs PROVE JobOnItsWay(j)'
    BY <2>1, <2>3, <2>4 DEF JobOnItsWay, Calls, Shells
  <2> QED
    BY <2>1, <2>2, <2>4 DEF OwnTypeOK, gate, CommandSwept
<1>3. CASE recheckUnlock \/ teardownAll \/ \E c \in Calls : Refuse(c)
  <2>1. /\ killInFlightCommands /\ UNCHANGED <<gate, recorded, late, crashed>>
        /\ ending' \subseteq {"audit", "flush"} /\ phase # "gone"
    BY <1>3 DEF recheckUnlock, teardownAll, Refuse, Terminate, OwnTypeOK, gate
  <2>2. /\ shell' \in [Shells -> {"none", "alive", "dead"}] /\ inFlight' = {}
        /\ \A c \in Commands : shell'[c] # "alive"
        /\ \A j \in Jobs : shell'[j] = shell[j]
    BY <2>1, SweepShells DEF CommandSwept
  <2>3. /\ call' \in [Calls -> {"idle", "passed", "refused", "recording", "over"}]
        /\ \A j \in Jobs : call'[j] = call[j] \/ call[j] = "refused"
    <3>1. CASE recheckUnlock \/ teardownAll
      BY <3>1 DEF recheckUnlock, teardownAll, OwnTypeOK, gate
    <3>2. ASSUME NEW c \in Calls, Refuse(c)
          PROVE /\ call' \in [Calls -> {"idle", "passed", "refused", "recording", "over"}]
                /\ \A j \in Jobs : call'[j] = call[j] \/ call[j] = "refused"
      BY <3>2 DEF Refuse, Goes, OwnTypeOK, gate, Calls, Shells
    <3> QED
      BY <1>3, <3>1, <3>2
  <2>4. OwnTypeOK'
    BY <2>1, <2>2, <2>3 DEF OwnTypeOK, gate
  <2>5. \A j \in Jobs : JobOnItsWay(j)'
    BY <2>1, <2>2, <2>3 DEF JobOnItsWay
  <2> QED
    BY <2>2, <2>4, <2>5 DEF CommandSwept
<1>4. CASE Flushed \/ Killed
  <2>1. /\ phase' = "gone" /\ UNCHANGED <<gate, call, shell, inFlight, recorded, ending, late>>
        /\ crashed' \in BOOLEAN
        /\ crashed' \/ (phase = "leaving" /\ crashed' = crashed)
    BY <1>4 DEF Flushed, Killed, Exit, Crash, ownVars, OwnTypeOK, gate
  <2>2. \A c \in Commands : CommandSwept(c)'
    BY <2>1 DEF CommandSwept
  <2> QED
    BY <2>1, <2>2 DEF OwnTypeOK, gate, JobOnItsWay
<1> QED
  BY <1>1, <1>2, <1>3, <1>4

(* The steps of the shell tools.                                           *)
LEMMA RunKeeps == ASSUME ShellInv, phase \in {"running", "leaving", "gone"},
                         NEW c \in Commands, runCommand(c)
                  PROVE  ShellInv'
<1> USE DEF ShellInv
<1>1. /\ phase # "gone" /\ call' = [call EXCEPT ![c] = "over"]
      /\ shell' = [shell EXCEPT ![c] = "alive"] /\ inFlight' = inFlight \cup {c}
      /\ late' = IF phase = "leaving" THEN late \cup {c} ELSE late
      /\ UNCHANGED <<phase, gate, recorded, ending, crashed>>
  BY DEF runCommand, Goes, ptyVars, gate
<1>2. OwnTypeOK'
  BY <1>1 DEF OwnTypeOK, gate
<1>3. \A d \in Shells \ {c} : shell'[d] = shell[d] /\ call'[d] = call[d]
  BY <1>1 DEF OwnTypeOK, gate, Calls
<1>4. ASSUME NEW d \in Commands PROVE CommandSwept(d)'
  BY <1>1, <1>3, <1>4 DEF CommandSwept, Shells
<1>5. ASSUME NEW j \in Jobs PROVE JobOnItsWay(j)'
  <2>1. j \in Shells \ {c}
    BY BridgeAssumption DEF Shells
  <2> QED
    BY <1>1, <1>3, <1>5, <2>1 DEF JobOnItsWay
<1> QED
  BY <1>2, <1>4, <1>5

LEMMA JobKeeps ==
    ASSUME ShellInv, NEW j \in Jobs, JobSpawns(j) \/ JobRecorded(j) \/ JobMetadataFails(j)
    PROVE  ShellInv'
<1> USE DEF ShellInv
<1>1. PICK to \in {"recording", "over"}, v \in {"alive", "dead"} :
         /\ call' = [call EXCEPT ![j] = to]
         /\ shell' = shell \/ shell' = [shell EXCEPT ![j] = v]
         /\ recorded \subseteq recorded' /\ recorded' \subseteq Jobs
         /\ to = "over" => j \in recorded' \/ (shell' = [shell EXCEPT ![j] = v] /\ v = "dead")
  BY DEF JobSpawns, JobRecorded, JobMetadataFails, Goes, OwnTypeOK, gate
<1>2. UNCHANGED <<phase, gate, inFlight, ending, late, crashed>>
  BY DEF JobSpawns, JobRecorded, JobMetadataFails, ptyVars, gate
<1>3. OwnTypeOK'
  BY <1>1, <1>2 DEF OwnTypeOK, gate
<1>4. \A d \in Shells \ {j} : shell'[d] = shell[d] /\ call'[d] = call[d]
  BY <1>1 DEF OwnTypeOK, gate, Calls
<1>5. ASSUME NEW c \in Commands PROVE CommandSwept(c)'
  <2>1. c \in Shells \ {j}
    BY BridgeAssumption DEF Shells
  <2> QED
    BY <1>2, <1>4, <1>5, <2>1 DEF CommandSwept
<1>6. ASSUME NEW k \in Jobs PROVE JobOnItsWay(k)'
  <2>1. CASE k = j
    <3>1. call'[j] = to
      BY <1>1 DEF OwnTypeOK, gate, Calls, Shells
    <3>2. to = "over" => j \in recorded' \/ shell'[j] = "dead"
      BY <1>1 DEF OwnTypeOK, gate, Shells
    <3> QED
      BY <1>1, <2>1, <3>1, <3>2 DEF JobOnItsWay
  <2>2. CASE k # j
    BY <1>1, <1>4, <1>6, <2>2 DEF JobOnItsWay, Shells
  <2> QED
    BY <2>1, <2>2
<1> QED
  BY <1>3, <1>5, <1>6

LEMMA ShellStepKeeps ==
    ASSUME ShellInv, NEW c \in Shells, ShellFails(c) \/ ShellEnds(c)
    PROVE  ShellInv'
<1> USE DEF ShellInv
<1>1. /\ \/ shell' = shell /\ call[c] = "passed" /\ call' = [call EXCEPT ![c] = "over"]
            /\ inFlight' = inFlight
         \/ /\ shell' = [shell EXCEPT ![c] = "dead"] /\ call' = call
            /\ inFlight \ {c} \subseteq inFlight' /\ inFlight' \subseteq inFlight
      /\ UNCHANGED <<phase, gate, recorded, ending, late, crashed>>
  BY DEF ShellFails, ShellEnds, Goes, ptyVars, gate
<1>2. OwnTypeOK'
  BY <1>1 DEF OwnTypeOK, gate, Calls
<1>3. ASSUME NEW d \in Shells
      PROVE  /\ shell'[d] = "alive" => shell[d] = "alive" /\ (d \in inFlight => d \in inFlight')
             /\ call'[d] = call[d] \/ call[d] = "passed"
  BY <1>1 DEF OwnTypeOK, gate, Calls
<1>4. ASSUME NEW d \in Commands PROVE CommandSwept(d)'
  BY <1>1, <1>3, <1>4 DEF CommandSwept, Shells
<1>5. ASSUME NEW j \in Jobs PROVE JobOnItsWay(j)'
  BY <1>1, <1>3, <1>5 DEF JobOnItsWay, Shells
<1> QED
  BY <1>2, <1>4, <1>5

(* The steps of the sessions leave the shells alone, and the bridge where  *)
(* it is.                                                                  *)
LEMMA PtyKeeps ==
    ASSUME ShellInv, NEW s \in Sessions, PtyStart(s) \/ PtyStep(s)
    PROVE  ShellInv'
<1> USE DEF ShellInv
<1>1. /\ phase' = phase
      /\ call' = call \/ call' = [call EXCEPT ![s] = "over"]
      /\ UNCHANGED <<gate, shell, inFlight, recorded, ending, late, crashed>>
  <2>1. CASE PtyStart(s)
    BY <2>1 DEF PtyStart, Goes, Reserve, Reject
  <2>2. CASE PtyStep(s)
    <3>1. UNCHANGED ownVars
      BY <2>2 DEF PtyStep
    <3>2. CASE \/ StatFails(s) \/ Spawn(s) \/ PollReady(s) \/ PollFails(s)
               \/ Drained(s) \/ MetadataFails(s) \/ Record(s)
      BY <3>1, <3>2 DEF ownVars, StatFails, Spawn, PollReady, PollFails, Drained, MetadataFails,
                        Abort, Record
    <3>3. CASE TerminalStep(s)
      BY <3>1, <3>3 DEF ownVars, TerminalStep, HelperForks, HelperFatal, StartJob, ProgramExits,
                        HelperReaps, HelperTeardown, HelperKilled
    <3>4. CASE EventStep(s)
      BY <3>1, <3>4 DEF ownVars, EventStep, ReadLine, HelperExit, HelperCloseFallback,
                        HelperClose, Refresh, CloseBegins, CloseEnds, SweepReclaims
    <3> QED
      BY <2>2, <3>2, <3>3, <3>4 DEF PtyStep
  <2> QED
    BY <2>1, <2>2
<1>2. OwnTypeOK' /\ \A j \in Jobs : call'[j] = call[j]
  BY <1>1, BridgeAssumption DEF OwnTypeOK, gate, Shells, Calls
<1> QED
  BY <1>1, <1>2 DEF CommandSwept, JobOnItsWay

LEMMA ShellNext == TypeOK /\ ShellInv /\ [Next]_vars => ShellInv'
<1> SUFFICES ASSUME TypeOK, ShellInv, [Next]_vars PROVE ShellInv'
  OBVIOUS
<1>1. phase \in {"running", "leaving", "gone"}
  BY DEF TypeOK
<1>2. CASE UNCHANGED vars
  BY <1>2 DEF vars, ownVars, ptyVars, gate, ShellInv, OwnTypeOK, CommandSwept, JobOnItsWay
<1> QED
  BY <1>1, <1>2, LatchKeeps, RunKeeps, JobKeeps, ShellStepKeeps, PtyKeeps DEF Next

LEMMA ShellInvariant == Spec => [](TypeOK /\ ShellInv)
<1>1. NoOrphan => TypeOK
  BY DEF NoOrphan
<1>2. Spec => []TypeOK
  BY <1>1, BridgeWatches, PTL
<1> QED
  BY <1>2, ShellInit, ShellNext, PTL DEF Spec

(* A bridge that leaves by itself, by a revocation, a signal or the end of *)
(* its transport, leaves only commands behind that were spawned between a  *)
(* revocation's sweep and the exit; a job that runs on after its           *)
(* shell_start call settled is on record.                                  *)
THEOREM ShellsAreKnown == Spec => []SurvivorsAreKnown
<1>1. TypeOK /\ ShellInv => SurvivorsAreKnown
  BY DEF ShellInv, OwnTypeOK, CommandSwept, JobOnItsWay, SurvivorsAreKnown, BridgeTypeOK
<1> QED
  BY <1>1, ShellInvariant, PTL

-----------------------------------------------------------------------------
(***************************************************************************)
(* One terminal: PtyTerminal.                                              *)
(*                                                                         *)
(* Control operations: every call has at most one operation or answer      *)
(* under way, and the answer says what the helper did for it.              *)
(***************************************************************************)
Sizes   == {0} \cup {Op[c].arg : c \in {d \in PtyCalls : Op[d].kind = "resize"}}
Replies == [id : PtyCalls, ok : BOOLEAN, size : Sizes, icanon : BOOLEAN]
Report  == [id |-> "exited"]

(* Nobody has answered yet; the call may have given up.                    *)
Unanswered(c) == status[c] \in {"asking", "unconfirmed", "exited"}

resized(e) == e.id # "exited" /\ Op[e.id].kind = "resize" /\ e.ok

ControlTypes ==
    /\ status \in [PtyCalls -> {"idle", "asking", "ok", "refused", "failed", "unconfirmed", "exited"}]
    /\ did \in [PtyCalls -> {"none", "ok", "refused", "failed"}]
    /\ ctl \in Seq(PtyCalls) /\ events \in Seq(Replies \cup {Report})
    /\ sessionExited \in BOOLEAN /\ leader \in BOOLEAN /\ icanon \in BOOLEAN

OperationsInv ==
    /\ \A i \in 1..Len(ctl) : Unanswered(ctl[i]) /\ did[ctl[i]] = "none"
    /\ \A i, j \in 1..Len(ctl) : i # j => ctl[i] # ctl[j]
    /\ \A c \in PtyCalls : status[c] = "idle" => did[c] = "none"

RepliesInv ==
    /\ \A i \in 1..Len(events) :
          events[i] # Report => /\ Unanswered(events[i].id)
                                /\ did[events[i].id] = Outcome(events[i].id, events[i])
    /\ \A i, j \in 1..Len(events) :
          i # j /\ events[i] # Report => events[i].id # events[j].id

OutcomesInv ==
    /\ \A c \in PtyCalls : status[c] = "failed" => did[c] = "failed"
    /\ \A c \in PtyCalls :
          status[c] = "ok" => did[c] = "ok" \/ (Op[c].kind = "termios" /\ did[c] = "none")

(* The last resize under way is the terminal's size, or the session's if   *)
(* there is none.                                                          *)
SizeInv ==
    /\ \A i \in 1..Len(events) :
          resized(events[i]) /\ (\A j \in i+1..Len(events) : ~resized(events[j]))
             => events[i].size = winsize
    /\ (\A i \in 1..Len(events) : ~resized(events[i])) => cols = winsize

ControlInv ==
    ControlTypes /\ cols \in Sizes /\ winsize \in Sizes
    /\ OperationsInv /\ RepliesInv /\ OutcomesInv /\ SizeInv

-----------------------------------------------------------------------------
(***************************************************************************)
(* Input.  Of a program that has not left raw mode under a probe:          *)
(* canonPendingBytes is never less than the open line will be once the     *)
(* writes under way have arrived, and none of them was let through by a    *)
(* probe if the terminal is canonical.                                     *)
(***************************************************************************)
Writes == {c \in PtyCalls : Op[c].kind = "termios"}

LineAfter(n, p) == IF Breaks(p) # {} THEN trailing(p) ELSE n + Len(p)
Fits(n, p)      == Max({n + first(p), longest(p)}) < MaxCanon

(* What pty_write took the open line to be before each of the writes under *)
(* way, and after the last one.                                            *)
Estimates(est) ==
    /\ est[Len(stdin) + 1] = canonPendingBytes
    /\ \A i \in 1..Len(stdin) :
          ~stdin[i].probed => LET p == Op[stdin[i].id].arg
                              IN Fits(est[i], p) /\ est[i + 1] = LineAfter(est[i], p)
    /\ icanon => line <= est[1]

InputTypes ==
    /\ stdin \in Seq([id : Writes, probed : BOOLEAN])
    /\ canonPendingBytes \in Nat /\ line \in Nat
    /\ switched \in BOOLEAN /\ helperAlive \in BOOLEAN /\ leader \in BOOLEAN /\ icanon \in BOOLEAN

(* What a probe, or its answer on the way back, says of the mode.          *)
Rawness ==
    /\ icanon => \A i \in 1..Len(stdin) : ~stdin[i].probed
    /\ ~icanon => line = 0
    /\ \A i \in 1..Len(events) :
          LET e == events[i]
          IN e # Report => (e.id \in Writes /\ status[e.id] = "asking" /\ Outcome(e.id, e) = "ok"
                               => ~icanon)

InputInv ==
    /\ InputTypes /\ discarded = {}
    /\ leader => helperAlive
    /\ leader /\ ~switched =>
          Rawness /\ \E est \in [1..Len(stdin) + 1 -> Nat] : Estimates(est)

-----------------------------------------------------------------------------
(***************************************************************************)
(* Output.  The ring holds the last of what it was given, each unit in the *)
(* slot its offset selects; what a program prints is whole but at the end; *)
(* and the reader's cursor is where one of its slices ended.               *)
(***************************************************************************)
Closers == {"x", "bel", "st"}

(* The sequence that begins at o is unfinished at p.                       *)
Unfinished(o, p) ==
    /\ o \in 1..p /\ printed[o] = "esc"
    /\ \A q \in o..p : opening[q] = o
    /\ \A q \in o+1..p : printed[q] \notin Closers
    /\ p > o => \/ printed[o+1] = "osc"
                \/ printed[o+1] = "csi" /\ \A q \in o+2..p : printed[q] = "body"

(* It ends at i.                                                           *)
Finished(o, i) ==
    /\ Unfinished(o, i-1)
    /\ \/ i = o+1 /\ printed[i] = "x"
       \/ i > o+1 /\ printed[o+1] = "csi" /\ printed[i] = "x"
       \/ i > o+1 /\ printed[o+1] = "osc" /\ printed[i] = "bel"
       \/ i > o+1 /\ printed[i] = "st"

InPlace(p) ==
    /\ printed[p] = "cont" <=> p > 1 /\ printed[p-1] = "lead"
    /\ printed[p] = "lead" /\ p > 1 => opening[p] = opening[p-1]
    /\ printed[p] = "cr" => opening[p] = 0 /\ (p > 1 => opening[p-1] = 0)
    /\ printed[p] = "esc" =>
          opening[p] = p \/ (p > 1 /\ opening[p] = opening[p-1] /\ opening[p] > 0)
    /\ p > 1 /\ printed[p-1] = "esc" =>
          IF opening[p-1] = p-1 THEN printed[p] \in {"x", "csi", "osc"} ELSE printed[p] = "st"
    /\ printed[p] = "st" => p > 1 /\ printed[p-1] = "esc"
    /\ opening[p] > 0 => Unfinished(opening[p], p)
    /\ \A o \in 1..p : opening[o] = o => opening[p] = o \/ \E i \in o+1..p : Finished(o, i)

Wellformed ==
    /\ printed \in Seq(Units) /\ opening \in Seq(Nat) /\ Len(opening) = Len(printed)
    /\ \A p \in 1..Len(printed) : InPlace(p)

slot(k) == LET i == writePos - retained + k - 1 IN IF i < 0 THEN i + Capacity ELSE i

RingInv ==
    /\ total \in 0..Len(printed) /\ writePos \in 0..Capacity-1
    /\ ring \in [0..Capacity-1 -> Units]
    /\ \A k \in 1..retained : ring[slot(k)] = printed[base + k]

CutIsRight(c) ==
    /\ c.how = "kept" =>
          /\ printed[c.at] \notin {"lead", "esc"}
          /\ \/ opening[c.at] = 0 \/ MaySplit(c.at)
             \/ c.at < Len(printed) /\ printed[c.at + 1] = "esc"
    /\ c.how = "page" =>
          opening[c.at] > 0 /\ c.at - opening[c.at] + 1 >= MaxBytes - 2

ReadInv ==
    /\ cursor \in 0..total /\ log \in Seq(Units \cup {"lost", "skipped"}) /\ Len(log) = cursor
    /\ sessionExited \in BOOLEAN
    /\ \A p \in 1..cursor :
          \/ log[p] \in {printed[p], "lost"}
          \/ log[p] = "skipped" /\ printed[p] = "cont" /\ p > 1 /\ log[p-1] = "lost"
    /\ \A c \in cuts : c.at \in 1..cursor /\ c.how \in {"kept", "page", "last"}
    /\ \A c \in cuts : CutIsRight(c)
    /\ cursor > 0 => \E c \in cuts : c.at = cursor

OutputInv == Wellformed /\ RingInv /\ ReadInv

(* A slice that kept to the rules and began after from ends well at p.     *)
EndsWell(from, p) ==
    /\ printed[p] \notin {"lead", "esc"}
    /\ \/ opening[p] <= from \/ p - opening[p] + 1 > MaxHoldback
       \/ p < Len(printed) /\ printed[p + 1] = "esc"

(* A slice is a piece of the output.                                       *)
SliceIs(from, skip, end) ==
    /\ from \in cursor..total /\ skip \in {0, 1} /\ end \in skip..(total - from)
    /\ ptySliceForCursor.bytes = SubSeq(printed, from + skip + 1, from + end)
    /\ ptySliceForCursor.nextCursor = from + end
    /\ ptySliceForCursor.lostBytes = from - cursor
    /\ skip = 1 => from > cursor /\ printed[from + 1] = "cont"
    /\ ptySliceForCursor.how \in {"kept", "page", "last"}
    /\ ptySliceForCursor.how = "kept" /\ from + end > cursor => EndsWell(from + skip, from + end)
    /\ ptySliceForCursor.how = "page" =>
          /\ opening[from + end] > 0
          /\ from + end - opening[from + end] + 1 >= MaxBytes - 2

SliceFacts ==
    /\ \E from \in 0..total, skip \in {0, 1}, end \in 0..total : SliceIs(from, skip, end)
    /\ total - cursor > Min({MaxHoldback + 2, MaxBytes}) \/ (sessionExited /\ total > cursor)
          => ptySliceForCursor.nextCursor > cursor

-----------------------------------------------------------------------------
LEMMA ControlInit == TerminalInit => ControlInv
<1> SUFFICES ASSUME TerminalInit PROVE ControlInv
  OBVIOUS
<1>1. ControlTypes /\ cols \in Sizes /\ winsize \in Sizes
  <2>1. ctl \in Seq(PtyCalls) /\ events \in Seq(Replies \cup {Report})
    BY DEF TerminalInit
  <2>2. cols \in Sizes /\ winsize \in Sizes
    BY Zenon DEF TerminalInit, Sizes
  <2> QED
    BY <2>1, <2>2 DEF TerminalInit, ControlTypes
<1>2. Len(ctl) = 0 /\ Len(events) = 0
  BY DEF TerminalInit
<1>3. OperationsInv /\ RepliesInv /\ SizeInv
  BY <1>2 DEF TerminalInit, OperationsInv, RepliesInv, SizeInv
<1>4. OutcomesInv
  BY DEF TerminalInit, OutcomesInv
<1> QED
  BY <1>1, <1>3, <1>4 DEF ControlInv

(* A step that moves only the calls' status.                               *)
LEMMA StatusMoves ==
    ASSUME ControlInv, UNCHANGED <<did, ctl, events, cols, winsize>>,
           sessionExited' \in BOOLEAN, leader' \in BOOLEAN, icanon' \in BOOLEAN,
           status' \in [PtyCalls -> {"idle", "asking", "ok", "refused", "failed", "unconfirmed",
                                     "exited"}],
           \A c \in PtyCalls : /\ Unanswered(c) => Unanswered(c)'
                               /\ status'[c] = "idle" => status[c] = "idle"
                               /\ status'[c] = "failed" => status[c] = "failed"
                               /\ status'[c] = "ok" => \/ status[c] = "ok"
                                                       \/ status[c] = "idle" /\ Op[c].kind = "termios"
    PROVE  ControlInv'
<1> USE DEF ControlInv
<1>1. ControlTypes' /\ cols' \in Sizes /\ winsize' \in Sizes
  BY DEF ControlTypes
<1>2. \A i \in 1..Len(ctl) : ctl[i] \in PtyCalls
  BY DEF ControlTypes
<1>3. OperationsInv'
  BY <1>2 DEF OperationsInv
<1>4. \A i \in 1..Len(events) : events[i] # Report => events[i].id \in PtyCalls
  BY DEF ControlTypes, Replies
<1>5. RepliesInv'
  BY <1>4 DEF RepliesInv, Outcome
<1>6. OutcomesInv'
  BY DEF OutcomesInv, OperationsInv
<1>7. SizeInv'
  BY DEF SizeInv, resized
<1> QED
  BY <1>1, <1>3, <1>5, <1>6, <1>7

(* A call sends its operation.                                             *)
LEMMA SendKeeps ==
    ASSUME ControlInv, NEW c \in PtyCalls, status[c] = "idle", sendPtyControl(c),
           UNCHANGED <<did, events, cols, winsize, sessionExited, leader, icanon>>
    PROVE  ControlInv'
<1>1. CASE ctl' = ctl
  <2>1. status' \in [PtyCalls -> {"idle", "asking", "ok", "refused", "failed", "unconfirmed", "exited"}]
    BY DEF sendPtyControl, ControlInv, ControlTypes
  <2>2. \A d \in PtyCalls : status'[d] = status[d] \/ (d = c /\ status'[d] \in {"asking", "exited"})
    BY DEF sendPtyControl, ControlInv, ControlTypes
  <2> QED
    BY <1>1, <2>1, <2>2, StatusMoves DEF Unanswered, ControlInv, ControlTypes
<1>2. CASE ctl' = Append(ctl, c) /\ status' = [status EXCEPT ![c] = "asking"]
  <2> USE <1>2 DEF ControlInv
  <2>1. ControlTypes' /\ cols' \in Sizes /\ winsize' \in Sizes
    BY DEF ControlTypes
  <2>2. \A d \in PtyCalls : status'[d] = IF d = c THEN "asking" ELSE status[d]
    BY DEF ControlTypes
  <2>3. \A i \in 1..Len(ctl) : ctl[i] \in PtyCalls /\ ctl[i] # c
    BY DEF ControlTypes, OperationsInv, Unanswered
  <2>4. Len(ctl') = Len(ctl) + 1 /\ \A i \in 1..Len(ctl') : ctl'[i] = IF i <= Len(ctl) THEN ctl[i] ELSE c
    BY DEF ControlTypes
  <2>5. Len(ctl) \in Nat
    BY DEF ControlTypes
  <2>6. OperationsInv'
    BY <2>2, <2>3, <2>4, <2>5 DEF OperationsInv, Unanswered
  <2>7. \A i \in 1..Len(events) : events[i] # Report => events[i].id \in PtyCalls
    BY DEF ControlTypes, Replies
  <2>8. RepliesInv'
    BY <2>2, <2>7 DEF RepliesInv, Outcome, Unanswered
  <2>9. OutcomesInv'
    BY <2>2 DEF OutcomesInv
  <2>10. SizeInv'
    BY DEF SizeInv, resized
  <2> QED
    BY <2>1, <2>6, <2>8, <2>9, <2>10
<1> QED
  BY <1>1, <1>2 DEF sendPtyControl

(* What an event looks like.                                               *)
LEMMA EventForms ==
    ASSUME ControlTypes
    PROVE  /\ Len(events) \in Nat
           /\ \A i \in 1..Len(events) : events[i] = Report \/ events[i] \in Replies
           /\ Report \notin Replies /\ Report.id = "exited"
           /\ \A e \in Replies : e.id \in PtyCalls /\ e.id # "exited" /\ e # Report
<1>1. Report.id = "exited"
  BY DEF Report
<1>2. \A e \in Replies : e.id \in PtyCalls /\ e.id # "exited"
  BY TerminalAssumption DEF Replies
<1> QED
  BY <1>1, <1>2 DEF ControlTypes

(* The bridge reads a status line: an answer settles its call.             *)
LEMMA ReadEventKeeps ==
    ASSUME ControlInv, ReadEvent
    PROVE  ControlInv'
<1> DEFINE e == Head(events)
<1>1. ControlTypes /\ events # <<>> /\ events' = Tail(events)
      /\ UNCHANGED <<did, ctl, winsize, leader, icanon>>
  BY DEF ControlInv, ReadEvent, terminal, history
<1>2. /\ Len(events) \in Nat /\ Len(events) > 0 /\ Len(events') = Len(events) - 1
      /\ \A i \in 1..Len(events') : events'[i] = events[i + 1]
      /\ e = events[1] /\ events' \in Seq(Replies \cup {Report})
  BY <1>1 DEF ControlTypes
<1>3. e = Report \/ e \in Replies
  BY <1>1, <1>2, EventForms
<1>4. ASSUME e = Report \/ status' = status \/ \E c \in {e.id} \cap PtyCalls :
                 status[c] = "asking" /\ status' = [status EXCEPT ![c] = Outcome(c, e)],
             status' \in [PtyCalls -> {"idle", "asking", "ok", "refused", "failed", "unconfirmed",
                                       "exited"}],
             e = Report => \A c \in PtyCalls : \/ status'[c] = status[c]
                                               \/ status'[c] = "exited" /\ status[c] = "asking",
             sessionExited' \in BOOLEAN,
             cols' = IF resized(e) THEN e.size ELSE cols
      PROVE  ControlInv'
  <2>1. e # Report => e.id \in PtyCalls /\ e.id # "exited" /\ e \in Replies
    BY <1>1, <1>3, EventForms
  <2>2. ControlTypes' /\ cols' \in Sizes /\ winsize' \in Sizes
    <3>1. e \in Replies => e.size \in Sizes
      BY DEF Replies
    <3> QED
      BY <1>1, <1>2, <1>3, <1>4, <2>1, <3>1, EventForms DEF ControlTypes, ControlInv, resized
  <2>3. e # Report => Unanswered(e.id) /\ did[e.id] = Outcome(e.id, e)
    BY <1>2 DEF ControlInv, RepliesInv
  <2>4. e # Report => Outcome(e.id, e) \in {"ok", "failed", "refused"}
    BY DEF Outcome
  <2>5. \A c \in PtyCalls : \/ status'[c] = status[c]
                            \/ status'[c] = "exited" /\ status[c] = "asking"
                            \/ e # Report /\ c = e.id /\ status'[c] = Outcome(c, e)
    BY <1>1, <1>4, <2>1 DEF ControlTypes
  <2>6. \A i \in 1..Len(events') : events'[i] # Report =>
            events'[i].id \in PtyCalls /\ (e # Report => events'[i].id # e.id)
    BY <1>1, <1>2, <2>1, EventForms DEF ControlInv, RepliesInv
  <2>7. \A i \in 1..Len(ctl) : ctl[i] \in PtyCalls /\ did[ctl[i]] = "none" /\ Unanswered(ctl[i])
    BY <1>1 DEF ControlTypes, ControlInv, OperationsInv
  <2>8. OperationsInv'
    BY <1>1, <2>3, <2>4, <2>5, <2>7 DEF OperationsInv, ControlInv, Unanswered
  <2>9. RepliesInv'
    <3>1. ASSUME NEW i \in 1..Len(events'), events'[i] # Report
          PROVE  Unanswered(events[i].id)' /\ did[events'[i].id] = Outcome(events'[i].id, events'[i])
      <4>1. i + 1 \in 1..Len(events) /\ events'[i] = events[i + 1]
        BY <1>2
      <4>2. Unanswered(events[i + 1].id) /\ did[events[i + 1].id] = Outcome(events[i + 1].id, events[i + 1])
        BY <3>1, <4>1 DEF ControlInv, RepliesInv
      <4> QED
        BY <3>1, <4>1, <4>2, <2>5, <2>6 DEF Unanswered
    <3>2. ASSUME NEW i \in 1..Len(events'), NEW j \in 1..Len(events'), i # j, events'[i] # Report
          PROVE  events'[i].id # events'[j].id
      <4>1. i + 1 \in 1..Len(events) /\ j + 1 \in 1..Len(events) /\ i + 1 # j + 1
            /\ events'[i] = events[i + 1] /\ events'[j] = events[j + 1]
        BY <1>2, <3>2
      <4> QED
        BY <3>2, <4>1 DEF ControlInv, RepliesInv
    <3> QED
      BY <1>1, <3>1, <3>2 DEF RepliesInv, Unanswered, Outcome
  <2>10. OutcomesInv'
    BY <1>1, <2>3, <2>5 DEF OutcomesInv, ControlInv
  <2>11. SizeInv'
    <3>1. ASSUME NEW i \in 1..Len(events'), resized(events'[i]),
                 \A j \in i+1..Len(events') : ~resized(events'[j])
          PROVE  events'[i].size = winsize
      <4>1. i + 1 \in 1..Len(events) /\ events'[i] = events[i + 1]
        BY <1>2
      <4>2. ASSUME NEW j \in i+2..Len(events) PROVE ~resized(events[j])
        <5>1. j - 1 \in i+1..Len(events') /\ events'[j - 1] = events[j]
          BY <1>2
        <5> QED
          BY <3>1, <5>1 DEF resized
      <4> QED
        BY <3>1, <4>1, <4>2 DEF ControlInv, SizeInv
    <3>2. ASSUME \A i \in 1..Len(events') : ~resized(events'[i]) PROVE cols' = winsize
      <4>1. ASSUME NEW j \in 2..Len(events) PROVE ~resized(events[j])
        <5>1. j - 1 \in 1..Len(events') /\ events'[j - 1] = events[j]
          BY <1>2
        <5> QED
          BY <3>2, <5>1 DEF resized
      <4>2. CASE resized(e)
        BY <1>2, <1>4, <4>1, <4>2 DEF ControlInv, SizeInv
      <4>3. CASE ~resized(e)
        <5>1. \A i \in 1..Len(events) : ~resized(events[i])
          BY <1>2, <4>1, <4>3
        <5> QED
          BY <1>4, <4>3, <5>1 DEF ControlInv, SizeInv
      <4> QED
        BY <4>2, <4>3
    <3> QED
      BY <1>1, <3>1, <3>2 DEF SizeInv, resized
  <2> QED
    BY <2>2, <2>8, <2>9, <2>10, <2>11 DEF ControlInv
<1>5. CASE e = Report
  <2>1. e.id = "exited"
    BY <1>1, <1>5, EventForms
  <2>2. markPtyExited /\ cols' = cols /\ ~resized(e)
    BY <2>1 DEF ReadEvent, resized
  <2>3. status' \in [PtyCalls -> {"idle", "asking", "ok", "refused", "failed", "unconfirmed", "exited"}]
    BY <1>1, <2>2 DEF markPtyExited, Settle, ControlTypes
  <2>4. \A c \in PtyCalls : \/ status'[c] = status[c]
                            \/ status'[c] = "exited" /\ status[c] = "asking"
    BY <2>2 DEF markPtyExited, Settle, Asking
  <2>5. sessionExited' \in BOOLEAN
    BY <2>2 DEF markPtyExited
  <2> QED
    BY <1>4, <1>5, <2>2, <2>3, <2>4, <2>5
<1>6. CASE e \in Replies
  <2>1. e.id \in PtyCalls /\ e.id # "exited" /\ e # Report
    BY <1>1, <1>6, EventForms
  <2>2. Answered(e) /\ sessionExited' = sessionExited /\ cols' = IF resized(e) THEN e.size ELSE cols
    BY <2>1 DEF ReadEvent, resized
  <2>3. \/ status' = status
        \/ \E c \in {e.id} \cap PtyCalls :
              status[c] = "asking" /\ status' = [status EXCEPT ![c] = Outcome(c, e)]
    BY <2>2 DEF Answered, Waiters, Asking
  <2>4. Outcome(e.id, e) \in {"ok", "failed", "refused"}
    BY DEF Outcome
  <2> QED
    BY <1>1, <1>4, <2>1, <2>2, <2>3, <2>4 DEF ControlTypes
<1> QED
  BY <1>3, <1>5, <1>6

(* A status line is written: the answer of a call that has none yet, with  *)
(* the terminal's size, or the report.                                     *)
LEMMA EventKeeps ==
    ASSUME ControlInv, NEW e \in Replies \cup {Report}, events' = Append(events, e),
           UNCHANGED <<status, cols, sessionExited>>, leader' \in BOOLEAN, icanon' \in BOOLEAN,
           \/ e = Report /\ UNCHANGED <<ctl, did, winsize>>
           \/ /\ e # Report /\ winsize' = e.size /\ (~resized(e) => winsize' = winsize)
              /\ ctl # <<>> /\ e.id = Head(ctl) /\ ctl' = Tail(ctl)
              /\ did' = [did EXCEPT ![e.id] = Outcome(e.id, e)]
    PROVE  ControlInv'
<1> USE DEF ControlInv
<1>1. /\ Len(events) \in Nat /\ Len(events') = Len(events) + 1
      /\ \A i \in 1..Len(events') : events'[i] = IF i <= Len(events) THEN events[i] ELSE e
      /\ events' \in Seq(Replies \cup {Report})
  BY DEF ControlTypes
<1>2. \A i \in 1..Len(ctl) : ctl[i] \in PtyCalls
  BY DEF ControlTypes
<1>3. /\ Report.id = "exited"
      /\ e # Report => e \in Replies /\ e.id \in PtyCalls /\ e.id # "exited" /\ e.size \in Sizes
      /\ \A i \in 1..Len(events) : events[i] # Report => events[i].id \in PtyCalls
      /\ \A i \in 1..Len(events) : events[i] = Report => events[i].id = "exited"
  BY EventForms DEF Replies
<1>4. ~resized(Report)
  BY <1>3 DEF resized
<1>5. CASE e = Report
  <2>1. ControlTypes' /\ cols' \in Sizes /\ winsize' \in Sizes
    BY <1>1, <1>3, <1>5 DEF ControlTypes
  <2>2. OperationsInv' /\ OutcomesInv'
    BY <1>2, <1>3, <1>5 DEF OperationsInv, OutcomesInv, Unanswered
  <2>3. RepliesInv'
    BY <1>1, <1>3, <1>5, TerminalAssumption DEF RepliesInv, Unanswered, Outcome
  <2>4. SizeInv'
    <3>1. ASSUME NEW i \in 1..Len(events'), resized(events'[i]),
                 \A j \in i+1..Len(events') : ~resized(events'[j])
          PROVE  events'[i].size = winsize'
      <4>1. i \in 1..Len(events) /\ events'[i] = events[i]
        BY <1>1, <1>4, <1>5, <3>1
      <4>2. \A j \in i+1..Len(events) : ~resized(events[j])
        BY <1>1, <3>1, <4>1
      <4> QED
        BY <1>3, <1>5, <3>1, <4>1, <4>2 DEF SizeInv
    <3>2. (\A i \in 1..Len(events') : ~resized(events'[i])) => cols' = winsize'
      BY <1>1, <1>3, <1>5 DEF SizeInv
    <3> QED
      BY <3>1, <3>2 DEF SizeInv, resized
  <2> QED
    BY <2>1, <2>2, <2>3, <2>4
<1>6. CASE e # Report
  <2> DEFINE c == e.id
  <2>1. /\ Len(ctl) \in Nat /\ Len(ctl) > 0 /\ c = ctl[1] /\ Len(ctl') = Len(ctl) - 1
        /\ \A i \in 1..Len(ctl') : ctl'[i] = ctl[i + 1]
        /\ ctl' \in Seq(PtyCalls)
    <3>1. ctl # <<>> /\ c = Head(ctl) /\ ctl' = Tail(ctl) /\ ctl \in Seq(PtyCalls)
      BY <1>6 DEF ControlTypes
    <3> QED
      BY <3>1
  <2>2. c \in PtyCalls /\ Unanswered(c) /\ did[c] = "none" /\ Outcome(c, e) \in {"ok", "failed", "refused"}
    BY <1>2, <2>1 DEF OperationsInv, Outcome
  <2>3. \A d \in PtyCalls : did'[d] = IF d = c THEN Outcome(c, e) ELSE did[d]
    BY <1>3, <1>6, <2>2 DEF ControlTypes
  <2>4. ControlTypes' /\ cols' \in Sizes /\ winsize' \in Sizes
    BY <1>1, <1>3, <1>6, <2>1, <2>2 DEF ControlTypes
  <2>5. \A i \in 1..Len(ctl') : ctl'[i] \in PtyCalls /\ ctl'[i] # c /\ i + 1 \in 1..Len(ctl)
    BY <1>2, <2>1 DEF OperationsInv
  <2>6. OperationsInv'
    <3>1. ASSUME NEW i \in 1..Len(ctl') PROVE Unanswered(ctl[i])' /\ did'[ctl'[i]] = "none"
      <4>1. ctl'[i] = ctl[i + 1] /\ Unanswered(ctl[i + 1]) /\ did[ctl[i + 1]] = "none"
        BY <2>1, <2>5 DEF OperationsInv
      <4> QED
        BY <2>3, <2>5, <4>1 DEF Unanswered
    <3>2. ASSUME NEW i \in 1..Len(ctl'), NEW j \in 1..Len(ctl'), i # j PROVE ctl'[i] # ctl'[j]
      <4>1. i + 1 # j + 1 /\ ctl'[i] = ctl[i + 1] /\ ctl'[j] = ctl[j + 1]
        BY <2>1, <3>2
      <4> QED
        BY <2>5, <4>1 DEF OperationsInv
    <3>3. \A d \in PtyCalls : status'[d] = "idle" => did'[d] = "none"
      BY <2>2, <2>3 DEF OperationsInv, Unanswered
    <3> QED
      BY <3>1, <3>2, <3>3 DEF OperationsInv
  <2>7. \A i \in 1..Len(events) : events[i] # Report => events[i].id \in PtyCalls /\ events[i].id # c
    BY <1>3, <2>2 DEF RepliesInv, Outcome
  <2>8. RepliesInv'
    <3>1. ASSUME NEW i \in 1..Len(events'), events'[i] # Report
          PROVE  Unanswered(events[i].id)' /\ did'[events'[i].id] = Outcome(events'[i].id, events'[i])
      <4>1. CASE i <= Len(events)
        <5>1. i \in 1..Len(events) /\ events'[i] = events[i] /\ events[i] # Report
          BY <1>1, <3>1, <4>1
        <5>2. events[i].id \in PtyCalls /\ events[i].id # c
          BY <2>7, <5>1
        <5>3. Unanswered(events[i].id) /\ did[events[i].id] = Outcome(events[i].id, events[i])
          BY <5>1 DEF RepliesInv
        <5> QED
          BY <2>3, <5>1, <5>2, <5>3 DEF Unanswered
      <4>2. CASE i > Len(events)
        BY <1>1, <2>2, <2>3, <4>2 DEF Unanswered
      <4> QED
        BY <1>1, <4>1, <4>2
    <3>2. \A i, j \in 1..Len(events') : i # j /\ events'[i] # Report => events'[i].id # events'[j].id
      BY <1>1, <1>3, <2>2, <2>7, TerminalAssumption DEF RepliesInv
    <3> QED
      BY <1>1, <3>1, <3>2 DEF RepliesInv, Unanswered, Outcome
  <2>9. OutcomesInv'
    BY <2>2, <2>3 DEF OutcomesInv, Unanswered
  <2>10. SizeInv'
    <3>1. ASSUME NEW i \in 1..Len(events'), resized(events'[i]),
                 \A j \in i+1..Len(events') : ~resized(events'[j])
          PROVE  events'[i].size = winsize'
      <4>1. CASE i <= Len(events)
        <5>1. events'[i] = events[i] /\ ~resized(e)
          BY <1>1, <3>1, <4>1
        <5>2. \A j \in i+1..Len(events) : ~resized(events[j])
          BY <1>1, <3>1, <4>1
        <5> QED
          BY <1>6, <3>1, <4>1, <5>1, <5>2 DEF SizeInv
      <4>2. CASE i > Len(events)
        BY <1>1, <1>6, <4>2
      <4> QED
        BY <1>1, <4>1, <4>2
    <3>2. (\A i \in 1..Len(events') : ~resized(events'[i])) => cols' = winsize'
      BY <1>1, <1>6 DEF SizeInv
    <3> QED
      BY <3>1, <3>2 DEF SizeInv, resized
  <2> QED
    BY <2>4, <2>6, <2>8, <2>9, <2>10
<1> QED
  BY <1>5, <1>6

LEMMA HelperControlsKeeps == ControlInv /\ HelperControls => ControlInv'
<1> SUFFICES ASSUME ControlInv, HelperControls PROVE ControlInv'
  OBVIOUS
<1> DEFINE c    == Head(ctl)
           size == IF leader /\ Op[c].kind = "resize" THEN Op[c].arg ELSE winsize
           e    == [id |-> c, ok |-> leader, size |-> size, icanon |-> leader /\ icanon]
<1>1. ctl # <<>> /\ ctl' = Tail(ctl) /\ winsize' = size /\ events' = Append(events, e)
      /\ did' = [did EXCEPT ![c] = IF ~leader THEN "failed"
                                   ELSE IF Op[c].kind = "termios" /\ icanon THEN "refused" ELSE "ok"]
      /\ UNCHANGED <<status, cols, sessionExited, leader, icanon>>
  BY DEF HelperControls, session
<1>2. c \in PtyCalls
  BY <1>1 DEF ControlInv, ControlTypes
<1>3. size \in Sizes
  BY <1>2 DEF ControlInv, Sizes
<1>4. e \in Replies
  BY <1>2, <1>3 DEF Replies, ControlInv, ControlTypes
<1>5. e.id = c /\ e.ok = leader /\ e.size = size /\ e.icanon = (leader /\ icanon)
  OBVIOUS
<1>6. e # Report
  BY <1>4, EventForms DEF ControlInv
<1> HIDE DEF e
<1>7. Outcome(c, e) = IF ~leader THEN "failed"
                      ELSE IF Op[c].kind = "termios" /\ icanon THEN "refused" ELSE "ok"
  <2>1. leader \in BOOLEAN /\ icanon \in BOOLEAN
    BY DEF ControlInv, ControlTypes
  <2>2. CASE ~leader
    <3>1. e.ok = FALSE
      BY <1>5, <2>1, <2>2
    <3> QED
      BY <2>2, <3>1, Zenon DEF Outcome
  <2>3. CASE leader /\ Op[c].kind = "resize"
    BY <1>5, <2>1, <2>3 DEF Outcome
  <2>4. CASE leader /\ Op[c].kind # "resize"
    <3>1. e.ok = TRUE /\ e.icanon = icanon
      BY <1>5, <2>1, <2>4
    <3>2. CASE Op[c].kind = "termios" /\ icanon
      BY <2>1, <2>4, <3>1, <3>2, Zenon DEF Outcome
    <3>3. CASE ~(Op[c].kind = "termios" /\ icanon)
      BY <2>1, <2>4, <3>1, <3>3, Zenon DEF Outcome
    <3> QED
      BY <3>2, <3>3
  <2> QED
    BY <2>1, <2>2, <2>3, <2>4
<1>8. ~resized(e) => winsize' = winsize
  BY <1>1, <1>2, <1>4, <1>5, EventForms DEF resized, ControlInv
<1>9. leader' \in BOOLEAN /\ icanon' \in BOOLEAN
  BY <1>1 DEF ControlInv, ControlTypes
<1> QED
  BY <1>1, <1>4, <1>5, <1>6, <1>7, <1>8, <1>9, EventKeeps

LEMMA HelperReportsKeeps == ControlInv /\ HelperReports => ControlInv'
<1> SUFFICES ASSUME ControlInv, HelperReports PROVE ControlInv'
  OBVIOUS
<1>1. events' = Append(events, Report)
      /\ UNCHANGED <<status, cols, sessionExited, ctl, did, winsize, leader, icanon>>
  BY DEF HelperReports, Report, session, history
<1>2. leader' \in BOOLEAN /\ icanon' \in BOOLEAN
  BY <1>1 DEF ControlInv, ControlTypes
<1>3. Report \in Replies \cup {Report}
  OBVIOUS
<1> QED
  BY <1>1, <1>2, <1>3, EventKeeps

LEMMA CallKeeps ==
    ASSUME ControlInv, NEW c \in PtyCalls,
           \/ Turned(c) \/ Control(c) \/ TimesOut(c)
           \/ WriteShort(c) \/ WriteProbes(c) \/ WriteRefused(c)
    PROVE  ControlInv'
<1> USE DEF session, pipes, terminal, history
<1>1. /\ status \in [PtyCalls -> {"idle", "asking", "ok", "refused", "failed", "unconfirmed", "exited"}]
      /\ sessionExited \in BOOLEAN /\ leader \in BOOLEAN /\ icanon \in BOOLEAN
  BY DEF ControlInv, ControlTypes
<1>2. ASSUME NEW new \in {"ok", "refused", "unconfirmed", "exited"},
             status' = [status EXCEPT ![c] = new],
             \/ status[c] = "idle" /\ (new = "ok" => Op[c].kind = "termios")
             \/ status[c] = "asking" /\ new = "unconfirmed",
             UNCHANGED <<did, ctl, events, cols, winsize, sessionExited, leader, icanon>>
      PROVE  ControlInv'
  <2>1. /\ status' \in [PtyCalls -> {"idle", "asking", "ok", "refused", "failed", "unconfirmed", "exited"}]
        /\ \A d \in PtyCalls : status'[d] = IF d = c THEN new ELSE status[d]
    BY <1>1, <1>2
  <2> QED
    BY <1>1, <1>2, <2>1, StatusMoves DEF Unanswered
<1>3. CASE Turned(c)
  BY <1>2, <1>3 DEF Turned, Made
<1>4. CASE Control(c)
  BY <1>4, SendKeeps DEF Control, Made
<1>5. CASE TimesOut(c)
  BY <1>2, <1>5 DEF TimesOut, Asking
<1>6. CASE WriteShort(c)
  BY <1>2, <1>6 DEF WriteShort, Made
<1>7. CASE WriteProbes(c)
  BY <1>7, SendKeeps DEF WriteProbes, Made
<1>8. CASE WriteRefused(c)
  BY <1>2, <1>8 DEF WriteRefused, Made
<1> QED
  BY <1>3, <1>4, <1>5, <1>6, <1>7, <1>8

LEMMA WriteBreaksKeeps == ControlInv /\ WriteBreaks => ControlInv'
<1> SUFFICES ASSUME ControlInv, WriteBreaks PROVE ControlInv'
  OBVIOUS
<1>1. /\ status \in [PtyCalls -> {"idle", "asking", "ok", "refused", "failed", "unconfirmed", "exited"}]
      /\ leader \in BOOLEAN /\ icanon \in BOOLEAN
  BY DEF ControlInv, ControlTypes
<1>2. markPtyExited /\ UNCHANGED <<did, ctl, events, cols, winsize, leader, icanon>>
  BY DEF WriteBreaks, pipes, terminal, history
<1>3. /\ status' \in [PtyCalls -> {"idle", "asking", "ok", "refused", "failed", "unconfirmed", "exited"}]
      /\ \A c \in PtyCalls : \/ status'[c] = status[c]
                             \/ status'[c] = "exited" /\ status[c] = "asking"
      /\ sessionExited' \in BOOLEAN
  BY <1>1, <1>2 DEF markPtyExited, Settle, Asking
<1> QED
  BY <1>1, <1>2, <1>3, StatusMoves DEF Unanswered

LEMMA ControlNext == ControlInv /\ [TerminalNext]_terminalVars => ControlInv'
<1> SUFFICES ASSUME ControlInv, [TerminalNext]_terminalVars PROVE ControlInv'
  OBVIOUS
<1> USE DEF session, pipes, terminal, history
<1>1. ASSUME UNCHANGED <<status, did, ctl, events, cols, winsize, sessionExited>>,
             leader' \in BOOLEAN, icanon' \in BOOLEAN
      PROVE  ControlInv'
  BY <1>1, StatusMoves DEF ControlInv, ControlTypes, OutcomesInv, Unanswered
<1>2. leader \in BOOLEAN /\ icanon \in BOOLEAN
  BY DEF ControlInv, ControlTypes
<1>3. CASE Helper
  <2>1. CASE HelperTypes
    BY <1>1, <1>2, <2>1 DEF HelperTypes
  <2> QED
    BY <1>3, <2>1, HelperControlsKeeps, HelperReportsKeeps DEF Helper
<1>4. CASE Bridge
  <2>1. ASSUME NEW n, Receive(n) PROVE ControlInv'
    BY <1>1, <1>2, <2>1 DEF Receive
  <2> QED
    BY <1>4, <2>1, ReadEventKeeps, WriteBreaksKeeps DEF Bridge
<1>5. CASE Read
  BY <1>1, <1>2, <1>5 DEF Read
<1>6. CASE Clients
  BY <1>6, CallKeeps DEF Clients
<1>7. CASE Program
  <2>1. CASE ProgramSwitchesMode
    BY <1>1, <1>2, <2>1 DEF ProgramSwitchesMode
  <2>2. CASE LeaderExits
    BY <1>1, <1>2, <2>2 DEF LeaderExits
  <2>3. ASSUME NEW u, ProgramPrints(u) PROVE ControlInv'
    BY <1>1, <1>2, <2>3 DEF ProgramPrints
  <2> QED
    BY <1>7, <2>1, <2>2, <2>3 DEF Program
<1>8. CASE UNCHANGED terminalVars
  BY <1>1, <1>2, <1>8 DEF terminalVars
<1> QED
  BY <1>3, <1>4, <1>5, <1>6, <1>7, <1>8 DEF TerminalNext

-----------------------------------------------------------------------------
(***************************************************************************)
(* Least and greatest.                                                     *)
(***************************************************************************)
(* A non-empty set of numbers has a least one.                             *)
LEMMA LeastOfNat ==
    ASSUME NEW T \in SUBSET Nat, T # {}
    PROVE  \E n \in T : \A m \in T : n <= m
<1>1. \A m, n \in Nat : m < n => <<m, n>> \in OpToRel(<, Nat)
  BY DEF OpToRel
<1>2. PICK R : IsWellFoundedOn(R, Nat) /\ \A m, n \in Nat : m < n => <<m, n>> \in R
  BY <1>1, NatLessThanWellFounded, Zenon
<1>3. T \subseteq Nat /\ IsWellFoundedOn(R, Nat)
  BY <1>2
<1>4. PICK n \in T : \A m \in T : ~ (<<m, n>> \in R)
  BY <1>3, WFMin, Zenon
<1>5. \A m \in Nat : m < n => <<m, n>> \in R
  BY <1>2
<1>6. ASSUME NEW m \in T PROVE n <= m
  <2>1. ~ (m < n)
    BY <1>4, <1>5
  <2> QED
    BY <2>1
<1> QED
  BY <1>6

LEMMA LeastFacts ==
    ASSUME NEW T \in SUBSET Nat, T # {}
    PROVE  Min(T) \in T /\ \A m \in T : Min(T) <= m
<1>1. \E n \in T : \A m \in T : n =< m
  BY LeastOfNat
<1> QED
  BY <1>1 DEF Min

LEMMA GreatestFacts ==
    ASSUME NEW n \in Nat, NEW T \in SUBSET (0..n), T # {}
    PROVE  Max(T) \in T /\ \A m \in T : Max(T) >= m
<1> DEFINE U == {n - m : m \in T}
<1>0. \A m \in T : m \in Int /\ n - m \in Nat /\ m <= n
  OBVIOUS
<1>1. U \in SUBSET Nat /\ U # {}
  BY <1>0
<1>2. PICK u \in U : \A v \in U : u <= v
  BY <1>1, LeastOfNat
<1>3. PICK g \in T : u = n - g
  OBVIOUS
<1>4. \A m \in T : n - m \in U
  OBVIOUS
<1>5. \A m \in T : g >= m
  <2>1. \A m \in T : n - g <= n - m
    BY <1>2, <1>3, <1>4
  <2> QED
    BY <1>0, <2>1
<1> QED
  BY <1>5 DEF Max

LEMMA OfTwo ==
    ASSUME NEW a \in Int, NEW b \in Int
    PROVE  /\ Min({a, b}) = IF a <= b THEN a ELSE b
           /\ Max({a, b}) = IF a >= b THEN a ELSE b
<1>1. \E n \in {a, b} : \A m \in {a, b} : n =< m
  OBVIOUS
<1>2. Min({a, b}) \in {a, b} /\ \A m \in {a, b} : Min({a, b}) =< m
  BY <1>1 DEF Min
<1>3. \E n \in {a, b} : \A m \in {a, b} : n >= m
  OBVIOUS
<1>4. Max({a, b}) \in {a, b} /\ \A m \in {a, b} : Max({a, b}) >= m
  BY <1>3 DEF Max
<1> QED
  BY <1>2, <1>4

-----------------------------------------------------------------------------
(***************************************************************************)
(* Lines.                                                                  *)
(***************************************************************************)
LEMMA RunsAreNat ==
    ASSUME NEW p \in Seq({"b", "nl"})
    PROVE  first(p) \in Nat /\ trailing(p) \in Nat /\ longest(p) \in Nat /\ Len(p) \in Nat
<1>1. Len(p) \in Nat /\ Breaks(p) \subseteq 1..Len(p)
  BY DEF Breaks
<1>2. first(p) \in Nat
  <2> DEFINE T == Breaks(p) \cup {Len(p) + 1}
  <2>1. T \in SUBSET Nat /\ T # {} /\ \A m \in T : m >= 1
    BY <1>1
  <2>2. Min(T) \in T
    BY <2>1, LeastFacts
  <2> QED
    BY <2>1, <2>2 DEF first
<1>3. trailing(p) \in Nat
  <2> DEFINE T == Breaks(p) \cup {0}
  <2>1. T \in SUBSET (0..Len(p)) /\ T # {}
    BY <1>1
  <2>2. Max(T) \in T
    BY <1>1, <2>1, GreatestFacts
  <2> QED
    BY <1>1, <2>1, <2>2 DEF trailing
<1>4. longest(p) \in Nat
  <2> DEFINE T == {n \in 0..Len(p) : \E s \in 0..Len(p)-n : (s+1)..(s+n) \cap Breaks(p) = {}}
  <2>1. 0 \in 0..Len(p) /\ 0 \in 0..Len(p)-0 /\ (0+1)..(0+0) \cap Breaks(p) = {}
    BY <1>1
  <2>2. 0 \in T /\ T \in SUBSET (0..Len(p))
    BY <2>1
  <2>3. Max(T) \in T
    BY <1>1, <2>2, GreatestFacts
  <2> QED
    BY <1>1, <2>2, <2>3 DEF longest
<1> QED
  BY <1>1, <1>2, <1>3, <1>4

(* A shorter open line takes what a longer one takes, and stays shorter.   *)
LEMMA ShorterLineFits ==
    ASSUME NEW p \in Seq({"b", "nl"}), NEW m \in Nat, NEW n \in Nat, m <= n
    PROVE  /\ LineAfter(m, p) \in Nat /\ LineAfter(m, p) <= LineAfter(n, p)
           /\ Fits(n, p) => Fits(m, p)
<1>1. first(p) \in Nat /\ trailing(p) \in Nat /\ longest(p) \in Nat /\ Len(p) \in Nat /\ MaxCanon \in Nat
  BY RunsAreNat, TerminalAssumption
<1>2. LineAfter(m, p) \in Nat /\ LineAfter(m, p) <= LineAfter(n, p)
  BY <1>1 DEF LineAfter
<1>3. Max({m + first(p), longest(p)}) <= Max({n + first(p), longest(p)})
      /\ Max({m + first(p), longest(p)}) \in Nat /\ Max({n + first(p), longest(p)}) \in Nat
  <2>1. m + first(p) \in Int /\ n + first(p) \in Int /\ longest(p) \in Int
    BY <1>1
  <2>2. Max({m + first(p), longest(p)}) = IF m + first(p) >= longest(p) THEN m + first(p) ELSE longest(p)
    BY <2>1, OfTwo
  <2>3. Max({n + first(p), longest(p)}) = IF n + first(p) >= longest(p) THEN n + first(p) ELSE longest(p)
    BY <2>1, OfTwo
  <2> QED
    BY <1>1, <2>2, <2>3
<1> QED
  BY <1>1, <1>2, <1>3 DEF Fits

LEMMA PayloadsAreSequences ==
    ASSUME NEW c \in Writes PROVE c \in PtyCalls /\ Op[c].arg \in Seq({"b", "nl"})
  BY TerminalAssumption DEF Writes

-----------------------------------------------------------------------------
LEMMA InputInit == TerminalInit => InputInv
<1> SUFFICES ASSUME TerminalInit PROVE InputInv
  OBVIOUS
<1>1. InputTypes /\ discarded = {} /\ Len(stdin) = 0 /\ Len(events) = 0
  <2>1. stdin \in Seq([id : Writes, probed : BOOLEAN])
    BY DEF TerminalInit
  <2> QED
    BY <2>1 DEF TerminalInit, InputTypes
<1>2. Rawness
  BY <1>1 DEF TerminalInit, Rawness
<1>3. [i \in 1..Len(stdin) + 1 |-> 0] \in [1..Len(stdin) + 1 -> Nat]
  OBVIOUS
<1>4. Estimates([i \in 1..Len(stdin) + 1 |-> 0])
  BY <1>1 DEF Estimates, TerminalInit
<1> QED
  BY <1>1, <1>2, <1>3, <1>4 DEF InputInv, TerminalInit

(* A step that touches neither the terminal nor what is on its way to it.  *)
LEMMA InputUnchanged ==
    ASSUME InputInv, ControlInv,
           UNCHANGED <<stdin, canonPendingBytes, line, switched, helperAlive, icanon, discarded>>,
           leader' \in BOOLEAN, leader' => leader,
           \A i \in 1..Len(events') : LET e == events'[i] IN e # Report =>
               /\ (\E j \in 1..Len(events) : e = events[j])
               /\ e.id \in Writes /\ status'[e.id] = "asking" => status[e.id] = "asking"
    PROVE  InputInv'
<1> USE DEF InputInv
<1>1. InputTypes' /\ discarded' = {} /\ (leader' => helperAlive')
  BY DEF InputTypes
<1>2. leader' /\ ~switched' => (\E est \in [1..Len(stdin) + 1 -> Nat] : Estimates(est))'
  BY DEF Estimates
<1>3. leader' /\ ~switched' => Rawness'
  BY DEF Rawness, Outcome
<1> QED
  BY <1>1, <1>2, <1>3

LEMMA InputCalls ==
    ASSUME InputInv, ControlInv, NEW c \in PtyCalls,
           Turned(c) \/ Control(c) \/ TimesOut(c) \/ WriteProbes(c) \/ WriteRefused(c)
    PROVE  InputInv'
<1> USE DEF session, pipes, terminal, history
<1>1. UNCHANGED <<stdin, canonPendingBytes, line, switched, helperAlive, icanon, discarded, leader, events>>
  BY DEF Turned, Control, TimesOut, WriteProbes, WriteRefused
<1>2. status \in [PtyCalls -> {"idle", "asking", "ok", "refused", "failed", "unconfirmed", "exited"}]
      /\ leader \in BOOLEAN
  BY DEF ControlInv, ControlTypes
<1>3. \A d \in PtyCalls : status'[d] = "asking" => status[d] \in {"asking", "idle"}
  BY <1>2 DEF Turned, Control, TimesOut, WriteProbes, WriteRefused, Made, sendPtyControl, Asking
<1>4. \A i \in 1..Len(events) : events[i] # Report => events[i].id \in PtyCalls /\ status[events[i].id] # "idle"
  BY EventForms DEF ControlInv, RepliesInv, Unanswered
<1> QED
  BY <1>1, <1>2, <1>3, <1>4, InputUnchanged

(* What pty_write knows, after one more write is on its way.               *)
LEMMA EstimatesGrow ==
    ASSUME InputTypes, \E est \in [1..Len(stdin) + 1 -> Nat] : Estimates(est),
           NEW c \in Writes, NEW probed \in BOOLEAN,
           stdin' = Append(stdin, [id |-> c, probed |-> probed]),
           canonPendingBytes' \in Nat, line' = line, icanon' = icanon,
           ~probed => /\ Fits(canonPendingBytes, Op[c].arg)
                      /\ canonPendingBytes' = LineAfter(canonPendingBytes, Op[c].arg)
    PROVE  (\E est \in [1..Len(stdin) + 1 -> Nat] : Estimates(est))'
<1> DEFINE e == [id |-> c, probed |-> probed]
<1>1. PICK est \in [1..Len(stdin) + 1 -> Nat] : Estimates(est)
  OBVIOUS
<1>2. /\ Len(stdin) \in Nat /\ Len(stdin') = Len(stdin) + 1
      /\ \A i \in 1..Len(stdin') : stdin'[i] = IF i <= Len(stdin) THEN stdin[i] ELSE e
  BY DEF InputTypes
<1> DEFINE more == [i \in 1..Len(stdin') + 1 |-> IF i <= Len(stdin) + 1 THEN est[i] ELSE canonPendingBytes']
<1>3. more \in [1..Len(stdin') + 1 -> Nat]
  BY <1>1, <1>2
<1>4. /\ \A i \in 1..Len(stdin) + 1 : more[i] = est[i]
      /\ more[Len(stdin') + 1] = canonPendingBytes'
  BY <1>2
<1> HIDE DEF more
<1>5. icanon' => line' <= more[1]
  BY <1>1, <1>2, <1>4 DEF Estimates
<1>6. ASSUME NEW i \in 1..Len(stdin'), ~stdin'[i].probed
      PROVE  Fits(more[i], Op[stdin'[i].id].arg) /\ more[i + 1] = LineAfter(more[i], Op[stdin'[i].id].arg)
  <2>1. CASE i <= Len(stdin)
    <3>1. i \in 1..Len(stdin) /\ stdin'[i] = stdin[i] /\ more[i] = est[i] /\ more[i + 1] = est[i + 1]
      BY <1>2, <1>4, <2>1
    <3> QED
      BY <1>1, <1>6, <3>1 DEF Estimates
  <2>2. CASE i = Len(stdin) + 1
    <3>1. stdin'[i] = e /\ more[i] = canonPendingBytes /\ more[i + 1] = canonPendingBytes'
      BY <1>1, <1>2, <1>4, <2>2 DEF Estimates
    <3> QED
      BY <1>6, <3>1
  <2> QED
    BY <1>2, <2>1, <2>2
<1>7. \E m \in [1..Len(stdin') + 1 -> Nat] :
         /\ m[Len(stdin') + 1] = canonPendingBytes'
         /\ \A i \in 1..Len(stdin') :
               ~stdin'[i].probed => /\ Fits(m[i], Op[stdin'[i].id].arg)
                                    /\ m[i + 1] = LineAfter(m[i], Op[stdin'[i].id].arg)
         /\ icanon' => line' <= m[1]
  BY <1>3, <1>4, <1>5, <1>6
<1> QED
  BY <1>7 DEF Estimates, Fits, LineAfter

(* A write, and a probe that comes back raw, sent to the helper.           *)
LEMMA InputSends ==
    ASSUME InputInv, NEW c \in Writes, NEW probed \in BOOLEAN, Send(c, probed),
           UNCHANGED <<line, switched, helperAlive, icanon, discarded, leader>>,
           canonPendingBytes' \in Nat,
           ~probed => /\ Fits(canonPendingBytes, Op[c].arg)
                      /\ canonPendingBytes' = LineAfter(canonPendingBytes, Op[c].arg),
           leader /\ ~switched /\ probed => ~icanon,
           \A i \in 1..Len(events') : LET e == events'[i] IN e # Report =>
               /\ (\E j \in 1..Len(events) : e = events[j])
               /\ e.id \in Writes /\ status'[e.id] = "asking" => status[e.id] = "asking"
    PROVE  InputInv'
<1> USE DEF InputInv
<1> DEFINE e == [id |-> c, probed |-> probed]
<1>0. InputTypes /\ e \in [id : Writes, probed : BOOLEAN] /\ e.probed = probed
  OBVIOUS
<1>1. helperAlive => stdin' = Append(stdin, e)
  BY DEF Send
<1>2. stdin' \in Seq([id : Writes, probed : BOOLEAN])
  <2>1. stdin' = stdin \/ stdin' = Append(stdin, e)
    BY DEF Send
  <2> HIDE DEF e
  <2>2. ASSUME NEW M, NEW q \in Seq(M), NEW m \in M PROVE Append(q, m) \in Seq(M)
    BY <2>2
  <2>3. stdin \in Seq([id : Writes, probed : BOOLEAN])
    BY <1>0 DEF InputTypes
  <2>4. Append(stdin, e) \in Seq([id : Writes, probed : BOOLEAN])
    BY <1>0, <2>2, <2>3
  <2> QED
    BY <2>1, <2>3, <2>4
<1>3. InputTypes' /\ discarded' = {} /\ (leader' => helperAlive')
  BY <1>2 DEF InputTypes
<1>4. CASE leader /\ ~switched
  <2>1. stdin' = Append(stdin, e)
    BY <1>1, <1>4
  <2>2. (\E est \in [1..Len(stdin) + 1 -> Nat] : Estimates(est))'
    BY <1>0, <1>4, <2>1, EstimatesGrow
  <2>3. icanon' => \A i \in 1..Len(stdin') : ~stdin'[i].probed
    <3>1. \A i \in 1..Len(stdin') : (i \in 1..Len(stdin) /\ stdin'[i] = stdin[i]) \/ stdin'[i] = e
      BY <1>0, <2>1 DEF InputTypes
    <3> QED
      BY <1>0, <1>4, <3>1 DEF Rawness
  <2>4. Rawness'
    BY <1>4, <2>3, SMTT(30) DEF Rawness, Outcome
  <2> QED
    BY <1>3, <2>2, <2>4
<1> QED
  BY <1>0, <1>3, <1>4 DEF InputTypes

LEMMA InputWriteShort ==
    ASSUME InputInv, ControlInv, NEW c \in PtyCalls, WriteShort(c)
    PROVE  InputInv'
<1> USE DEF terminal, history
<1>1. /\ c \in Writes /\ longestLineRun(Op[c].arg) < MaxCanon /\ Send(c, FALSE)
      /\ canonPendingBytes' = carried(Op[c].arg) /\ status' = [status EXCEPT ![c] = "ok"]
      /\ UNCHANGED <<line, switched, helperAlive, icanon, discarded, leader, events>>
  BY DEF WriteShort, Writes
<1>2. canonPendingBytes' = LineAfter(canonPendingBytes, Op[c].arg) /\ Fits(canonPendingBytes, Op[c].arg)
  BY <1>1 DEF carried, LineAfter, longestLineRun, Fits
<1>3. canonPendingBytes' \in Nat
  BY <1>1, <1>2, PayloadsAreSequences, ShorterLineFits DEF InputInv, InputTypes
<1>4. status \in [PtyCalls -> {"idle", "asking", "ok", "refused", "failed", "unconfirmed", "exited"}]
  BY DEF ControlInv, ControlTypes
<1>5. \A d \in PtyCalls : status'[d] = "asking" => status[d] = "asking"
  BY <1>1, <1>4
<1>6. \A i \in 1..Len(events) : events[i] # Report => events[i].id \in PtyCalls
  BY EventForms DEF ControlInv
<1> QED
  BY <1>1, <1>2, <1>3, <1>5, <1>6, InputSends

LEMMA InputReadEvent == InputInv /\ ControlInv /\ ReadEvent => InputInv'
<1> SUFFICES ASSUME InputInv, ControlInv, ReadEvent PROVE InputInv'
  OBVIOUS
<1> USE DEF terminal, history
<1> DEFINE e == Head(events)
<1>1. events # <<>> /\ events' = Tail(events)
      /\ UNCHANGED <<line, switched, helperAlive, icanon, discarded, leader>>
  BY DEF ReadEvent
<1>2. /\ Len(events) \in Nat /\ Len(events) > 0 /\ Len(events') = Len(events) - 1
      /\ \A i \in 1..Len(events') : events'[i] = events[i + 1]
      /\ e = events[1]
  BY <1>1 DEF ControlInv, ControlTypes
<1>3. \A i \in 1..Len(events') : /\ i + 1 \in 1..Len(events) /\ events'[i] = events[i + 1]
                                 /\ events'[i] # Report => events'[i].id \in PtyCalls
  BY <1>2, EventForms DEF ControlInv
<1>4. status \in [PtyCalls -> {"idle", "asking", "ok", "refused", "failed", "unconfirmed", "exited"}]
      /\ leader \in BOOLEAN
  BY DEF ControlInv, ControlTypes
<1>5. CASE e = Report
  <2>1. e.id = "exited"
    BY <1>2, <1>5, EventForms DEF ControlInv
  <2>2. markPtyExited /\ UNCHANGED <<canonPendingBytes, stdin>>
    BY <2>1 DEF ReadEvent
  <2>3. \A c \in PtyCalls : status'[c] = "asking" => status[c] = "asking"
    BY <2>2 DEF markPtyExited, Settle, Asking
  <2> QED
    BY <1>1, <1>3, <1>4, <2>2, <2>3, InputUnchanged
<1>6. CASE e # Report
  <2>1. e \in Replies /\ e.id \in PtyCalls /\ e.id # "exited"
    BY <1>2, <1>6, EventForms DEF ControlInv
  <2>2. Answered(e)
    BY <2>1 DEF ReadEvent
  <2>3. CASE UNCHANGED <<stdin, canonPendingBytes>>
    <3>1. Outcome(e.id, e) \in {"ok", "failed", "refused"}
      BY DEF Outcome
    <3>2. \A c \in PtyCalls : status'[c] = "asking" => status[c] = "asking"
      BY <1>4, <2>1, <2>2, <3>1 DEF Answered, Waiters, Asking
    <3> QED
      BY <1>1, <1>3, <1>4, <2>3, <3>2, InputUnchanged
  <2>4. CASE ~UNCHANGED <<stdin, canonPendingBytes>>
    <3>1. /\ status[e.id] = "asking" /\ e.id \in Writes /\ Outcome(e.id, e) = "ok"
          /\ status' = [status EXCEPT ![e.id] = "ok"]
          /\ Send(e.id, TRUE) /\ canonPendingBytes' = 0
      BY <2>1, <2>2, <2>4 DEF Answered, Waiters, Asking, Writes
    <3>2. leader /\ ~switched => ~icanon
      BY <1>2, <1>6, <3>1 DEF InputInv, Rawness
    <3>3. \A c \in PtyCalls : status'[c] = "asking" => status[c] = "asking"
      BY <1>4, <3>1
    <3> HIDE DEF e
    <3>4. canonPendingBytes' \in Nat /\ TRUE \in BOOLEAN
      BY <3>1
    <3>5. ASSUME NEW i \in 1..Len(events'), events'[i] # Report
          PROVE  /\ \E j \in 1..Len(events) : events'[i] = events[j]
                 /\ status'[events'[i].id] = "asking" => status[events'[i].id] = "asking"
      BY <1>3, <3>3, <3>5
    <3> QED
      BY <1>1, <3>1, <3>2, <3>4, <3>5, InputSends
  <2> QED
    BY <2>3, <2>4
<1> QED
  BY <1>5, <1>6

LEMMA InputWriteBreaks == InputInv /\ ControlInv /\ WriteBreaks => InputInv'
<1> SUFFICES ASSUME InputInv, ControlInv, WriteBreaks PROVE InputInv'
  OBVIOUS
<1> USE DEF pipes, terminal, history
<1>1. markPtyExited
      /\ UNCHANGED <<stdin, canonPendingBytes, line, switched, helperAlive, icanon, discarded, leader, events>>
  BY DEF WriteBreaks
<1>2. \A c \in PtyCalls : status'[c] = "asking" => status[c] = "asking"
  BY <1>1 DEF markPtyExited, Settle, Asking
<1>3. leader \in BOOLEAN /\ \A i \in 1..Len(events) : events[i] # Report => events[i].id \in PtyCalls
  BY EventForms DEF ControlInv, ControlTypes
<1> QED
  BY <1>1, <1>2, <1>3, InputUnchanged

(* The helper answers: a probe is let through only in raw mode.            *)
LEMMA InputHelperControls == InputInv /\ ControlInv /\ HelperControls => InputInv'
<1> SUFFICES ASSUME InputInv, ControlInv, HelperControls PROVE InputInv'
  OBVIOUS
<1> USE DEF InputInv
<1> DEFINE c    == Head(ctl)
           size == IF leader /\ Op[c].kind = "resize" THEN Op[c].arg ELSE winsize
           e    == [id |-> c, ok |-> leader, size |-> size, icanon |-> leader /\ icanon]
<1>1. events' = Append(events, e)
      /\ UNCHANGED <<status, stdin, canonPendingBytes, line, switched, helperAlive, leader, icanon, discarded>>
  BY DEF HelperControls, session
<1>2. e.id = c /\ e.ok = leader /\ e.icanon = (leader /\ icanon)
  OBVIOUS
<1> HIDE DEF e
<1>3. \A i \in 1..Len(events') : (i \in 1..Len(events) /\ events'[i] = events[i]) \/ events'[i] = e
  BY <1>1 DEF ControlInv, ControlTypes
<1>4. InputTypes'
  BY <1>1 DEF InputTypes
<1>5. leader' /\ ~switched' => (\E est \in [1..Len(stdin) + 1 -> Nat] : Estimates(est))'
  BY <1>1 DEF Estimates
<1>6. leader' /\ ~switched' => Rawness'
  <2> SUFFICES ASSUME leader, ~switched PROVE Rawness'
    BY <1>1
  <2>1. Outcome(c, e) = "ok" /\ c \in Writes => ~icanon
    BY <1>2 DEF Outcome, Writes, InputTypes
  <2>2. ASSUME NEW i \in 1..Len(events'), events'[i] # Report, events'[i].id \in Writes,
               status'[events'[i].id] = "asking", Outcome(events'[i].id, events'[i]) = "ok"
        PROVE  ~icanon'
    BY <1>1, <1>2, <1>3, <2>1, <2>2 DEF Rawness
  <2> QED
    BY <1>1, <2>2 DEF Rawness, Outcome
<1> QED
  BY <1>1, <1>4, <1>5, <1>6

LEMMA InputHelperReports == InputInv /\ ControlInv /\ HelperReports => InputInv'
<1> SUFFICES ASSUME InputInv, ControlInv, HelperReports PROVE InputInv'
  OBVIOUS
<1>1. ~leader' /\ helperAlive' = FALSE
      /\ UNCHANGED <<stdin, canonPendingBytes, line, switched, icanon, discarded, leader>>
  BY DEF HelperReports, session, history
<1> QED
  BY <1>1 DEF InputInv, InputTypes

(* The helper writes to the terminal: the line is no longer than pty_write *)
(* took it to be, so what pty_write let through fits.                      *)
LEMMA InputHelperTypes == InputInv /\ ControlInv /\ HelperTypes => InputInv'
<1> SUFFICES ASSUME InputInv, ControlInv, HelperTypes PROVE InputInv'
  OBVIOUS
<1> USE DEF InputInv
<1> DEFINE c == Head(stdin).id
           p == Op[c].arg
<1>1. stdin # <<>> /\ stdin' = Tail(stdin)
      /\ UNCHANGED <<status, events, canonPendingBytes, switched, helperAlive, leader, icanon>>
  BY DEF HelperTypes, session
<1>2. /\ Len(stdin) \in Nat /\ Len(stdin) > 0 /\ Len(stdin') = Len(stdin) - 1
      /\ \A i \in 1..Len(stdin') : stdin'[i] = stdin[i + 1]
      /\ c = stdin[1].id /\ c \in Writes
      /\ stdin' \in Seq([id : Writes, probed : BOOLEAN])
  <2>1. stdin \in Seq([id : Writes, probed : BOOLEAN])
    BY DEF InputTypes
  <2>2. ASSUME NEW M, NEW q \in Seq(M), q # <<>>
        PROVE  /\ Len(q) \in Nat /\ Len(q) > 0 /\ Head(q) = q[1] /\ q[1] \in M
               /\ Tail(q) \in Seq(M) /\ Len(Tail(q)) = Len(q) - 1
               /\ \A i \in 1..Len(Tail(q)) : Tail(q)[i] = q[i + 1]
    BY <2>2
  <2>3. Head(stdin) = stdin[1] /\ stdin[1] \in [id : Writes, probed : BOOLEAN]
    BY <1>1, <2>1, <2>2
  <2>4. c = stdin[1].id /\ c \in Writes
    BY <2>3
  <2> HIDE DEF c
  <2>5. Tail(stdin) \in Seq([id : Writes, probed : BOOLEAN])
    BY <1>1, <2>1, <2>2
  <2> QED
    BY <1>1, <2>1, <2>2, <2>4, <2>5
<1>3. p \in Seq({"b", "nl"}) /\ line \in Nat /\ MaxCanon \in Nat
  BY <1>2, PayloadsAreSequences, TerminalAssumption DEF InputTypes
<1>4. IF icanon /\ leader
      THEN /\ discarded' = IF Fits(line, p) \/ switched THEN discarded ELSE discarded \cup {c}
           /\ line' = LineAfter(line, p)
      ELSE UNCHANGED <<discarded, line>>
  BY DEF HelperTypes, Fits, LineAfter
<1>5. line' \in Nat
  BY <1>3, <1>4, ShorterLineFits
<1>6. InputTypes'
  BY <1>1, <1>2, <1>5 DEF InputTypes
<1>7. CASE leader /\ ~switched
  <2>1. Rawness
    BY <1>7
  <2>2. PICK est \in [1..Len(stdin) + 1 -> Nat] : Estimates(est)
    BY <1>7
  <2>3. est[1] \in Nat /\ est[2] \in Nat
    BY <1>2, <2>2, SMTT(30)
  <2>4. icanon => /\ line <= est[1] /\ ~stdin[1].probed
                  /\ Fits(est[1], p) /\ est[2] = LineAfter(est[1], p)
    BY <1>2, <2>1, <2>2 DEF Estimates, Rawness
  <2>5. icanon => Fits(line, p) /\ line' <= est[2]
    BY <1>3, <1>4, <1>7, <2>3, <2>4, ShorterLineFits
  <2>6. discarded' = {}
    BY <1>4, <1>7, <2>5
  <2>7. Rawness'
    <3>1. icanon' => \A i \in 1..Len(stdin') : ~stdin'[i].probed
      BY <1>1, <1>2, <2>1 DEF Rawness
    <3>2. ~icanon' => line' = 0
      BY <1>1, <1>4, <2>1 DEF Rawness
    <3> QED
      BY <1>1, <2>1, <3>1, <3>2 DEF Rawness, Outcome
  <2> DEFINE rest == [i \in 1..Len(stdin') + 1 |-> est[i + 1]]
  <2>8. rest \in [1..Len(stdin') + 1 -> Nat] /\ \A i \in 1..Len(stdin') + 1 : rest[i] = est[i + 1]
    BY <1>2, <2>2
  <2> HIDE DEF rest
  <2>9. \E m \in [1..Len(stdin') + 1 -> Nat] :
           /\ m[Len(stdin') + 1] = canonPendingBytes'
           /\ \A i \in 1..Len(stdin') :
                 ~stdin'[i].probed => /\ Fits(m[i], Op[stdin'[i].id].arg)
                                      /\ m[i + 1] = LineAfter(m[i], Op[stdin'[i].id].arg)
           /\ icanon' => line' <= m[1]
    <3>1. rest[Len(stdin') + 1] = canonPendingBytes'
      BY <1>1, <1>2, <2>2, <2>8 DEF Estimates
    <3>2. icanon' => line' <= rest[1]
      BY <1>1, <1>2, <2>5, <2>8
    <3>3. ASSUME NEW i \in 1..Len(stdin'), ~stdin'[i].probed
          PROVE  Fits(rest[i], Op[stdin'[i].id].arg) /\ rest[i + 1] = LineAfter(rest[i], Op[stdin'[i].id].arg)
      <4>1. i + 1 \in 1..Len(stdin) /\ stdin'[i] = stdin[i + 1] /\ rest[i] = est[i + 1] /\ rest[i + 1] = est[i + 1 + 1]
        <5>1. i \in 1..Len(stdin') + 1 /\ i + 1 \in 1..Len(stdin') + 1 /\ i + 1 \in 1..Len(stdin)
          BY <1>2
        <5> QED
          BY <1>2, <2>8, <5>1
      <4> QED
        BY <2>2, <3>3, <4>1 DEF Estimates
    <3> QED
      BY <2>8, <3>1, <3>2, <3>3
  <2>10. (\E m \in [1..Len(stdin) + 1 -> Nat] : Estimates(m))'
    BY <2>9 DEF Estimates, Fits, LineAfter
  <2> QED
    BY <1>1, <1>6, <2>6, <2>7, <2>10
<1>8. CASE ~(leader /\ ~switched)
  BY <1>1, <1>4, <1>6, <1>8 DEF InputTypes
<1> QED
  BY <1>7, <1>8

(* The program leaves raw mode with no probe under way, or it is marked.   *)
LEMMA InputSwitchesMode == InputInv /\ ControlInv /\ ProgramSwitchesMode => InputInv'
<1> SUFFICES ASSUME InputInv, ControlInv, ProgramSwitchesMode PROVE InputInv'
  OBVIOUS
<1> USE DEF InputInv
<1>1. leader /\ icanon' = ~icanon /\ line' = 0 /\ switched' = (switched \/ (icanon' /\ Probing # {}))
      /\ UNCHANGED <<status, events, stdin, canonPendingBytes, helperAlive, leader, discarded>>
  BY DEF ProgramSwitchesMode, session, pipes
<1>2. InputTypes'
  BY <1>1 DEF InputTypes
<1>3. CASE ~switched /\ ~switched'
  <2>1. icanon' => Probing = {}
    BY <1>1, <1>3
  <2>2. icanon' => \A i \in 1..Len(stdin') : ~stdin'[i].probed
    BY <1>1, <2>1 DEF Probing
  <2>3. \A i \in 1..Len(events) :
           LET e == events[i]
           IN e # Report /\ e.id \in Writes /\ status[e.id] = "asking" => e.id \in Probing
    BY DEF Probing, Asking, Writes
  <2>4. Rawness'
    BY <1>1, <2>1, <2>2, <2>3 DEF Rawness, Outcome
  <2>5. PICK est \in [1..Len(stdin) + 1 -> Nat] : Estimates(est)
    BY <1>1, <1>3
  <2>6. est[1] >= 0
    BY <2>5 DEF InputTypes
  <2>7. Estimates(est)'
    BY <1>1, <2>5, <2>6 DEF Estimates, Fits, LineAfter
  <2> QED
    BY <1>1, <1>2, <2>4, <2>5, <2>7
<1>4. CASE switched'
  BY <1>1, <1>2, <1>4
<1> QED
  BY <1>1, <1>3, <1>4

LEMMA InputNext == InputInv /\ ControlInv /\ [TerminalNext]_terminalVars => InputInv'
<1> SUFFICES ASSUME InputInv, ControlInv, [TerminalNext]_terminalVars PROVE InputInv'
  OBVIOUS
<1> USE DEF session, pipes, terminal, history
<1>1. ASSUME UNCHANGED <<status, events, stdin, canonPendingBytes, line, switched, helperAlive,
                         icanon, discarded>>,
             leader' \in BOOLEAN, leader' => leader
      PROVE  InputInv'
  BY <1>1, InputUnchanged
<1>2. leader \in BOOLEAN
  BY DEF ControlInv, ControlTypes
<1>3. CASE Helper
  BY <1>3, InputHelperControls, InputHelperTypes, InputHelperReports DEF Helper
<1>4. CASE Bridge
  <2>1. ASSUME NEW n, Receive(n) PROVE InputInv'
    BY <1>1, <1>2, <2>1 DEF Receive
  <2> QED
    BY <1>4, <2>1, InputReadEvent, InputWriteBreaks DEF Bridge
<1>5. CASE Read
  BY <1>1, <1>2, <1>5 DEF Read
<1>6. CASE Clients
  BY <1>6, InputCalls, InputWriteShort DEF Clients
<1>7. CASE Program
  <2>1. CASE LeaderExits
    BY <1>1, <2>1 DEF LeaderExits
  <2>2. ASSUME NEW u, ProgramPrints(u) PROVE InputInv'
    BY <1>1, <1>2, <2>2 DEF ProgramPrints
  <2> QED
    BY <1>7, <2>1, <2>2, InputSwitchesMode DEF Program
<1>8. CASE UNCHANGED terminalVars
  BY <1>1, <1>2, <1>8 DEF terminalVars
<1> QED
  BY <1>3, <1>4, <1>5, <1>6, <1>7, <1>8 DEF TerminalNext

-----------------------------------------------------------------------------
(***************************************************************************)
(* The ring.                                                               *)
(***************************************************************************)
LEMMA SmallRemainders ==
    ASSUME NEW C \in Nat \ {0}, NEW a \in 0..3*C-1
    PROVE  a % C = IF a < C THEN a ELSE IF a < 2*C THEN a - C ELSE a - 2*C
<1> DEFINE q == a \div C
           r == a % C
<1>1. q \in Int /\ r \in 0..C-1 /\ a = C * q + r
  OBVIOUS
<1> HIDE DEF q, r
<1>2. q >= 0
  <2>1. CASE q <= -1
    <3>1. C * q <= C * (-1)
      BY <1>1, <2>1
    <3> QED
      BY <1>1, <3>1
  <2> QED
    BY <1>1, <2>1
<1>3. q <= 2
  <2>1. CASE q >= 3
    <3>1. C * q >= C * 3
      BY <1>1, <2>1
    <3> QED
      BY <1>1, <3>1
  <2> QED
    BY <1>1, <2>1
<1>4. q = 0 \/ q = 1 \/ q = 2
  BY <1>1, <1>2, <1>3
<1>5. r = IF a < C THEN a ELSE IF a < 2*C THEN a - C ELSE a - 2*C
  BY <1>1, <1>4
<1> QED
  BY <1>5 DEF r

LEMMA RetainedFacts ==
    ASSUME total \in Nat
    PROVE  /\ retained = IF total <= Capacity THEN total ELSE Capacity
           /\ retained \in 0..Capacity /\ base \in 0..total /\ base = total - retained
           /\ total > 0 => base < total
<1>1. Capacity \in Nat \ {0}
  BY TerminalAssumption
<1>2. retained = IF total <= Capacity THEN total ELSE Capacity
  BY <1>1, OfTwo DEF retained
<1> QED
  BY <1>1, <1>2 DEF base

LEMMA CopyIs ==
    ASSUME Wellformed, RingInv, NEW from \in base..total, NEW n \in 0..(total - from)
    PROVE  /\ copy(from, n) \in Seq(Units) /\ Len(copy(from, n)) = n
           /\ \A k \in 1..n : copy(from, n)[k] = printed[from + k]
<1>1. /\ Capacity \in Nat \ {0} /\ total \in Nat /\ writePos \in 0..Capacity-1
      /\ retained \in 0..Capacity /\ base \in 0..total /\ base = total - retained
  BY TerminalAssumption, RetainedFacts DEF RingInv, Wellformed
<1> DEFINE a     == writePos - retained + (from - base) + 2 * Capacity
           origin == a % Capacity
<1>2. a \in 0..3*Capacity-1 /\ a >= Capacity
  BY <1>1
<1>3. origin = IF a < 2 * Capacity THEN a - Capacity ELSE a - 2 * Capacity
  <2> HIDE DEF a
  <2>1. a % Capacity = IF a < Capacity THEN a ELSE IF a < 2*Capacity THEN a - Capacity ELSE a - 2*Capacity
    BY <1>1, <1>2, SmallRemainders
  <2> QED
    BY <1>1, <1>2, <2>1
<1>4. ASSUME NEW k \in 1..n
      PROVE  (origin + k - 1) % Capacity \in 0..Capacity-1
             /\ ring[(origin + k - 1) % Capacity] = printed[from + k]
  <2> DEFINE m == from - base + k
             b == origin + k - 1
  <2>1. m \in 1..retained /\ base + m = from + k
    BY <1>1
  <2>2. b \in 0..3*Capacity-1 /\ b < 2 * Capacity
    BY <1>1, <1>2, <1>3, <2>1
  <2>3. b % Capacity = IF b < Capacity THEN b ELSE b - Capacity
    BY <1>1, <2>2, SmallRemainders
  <2>4. b % Capacity \in 0..Capacity-1
    BY <1>1, <2>2, <2>3
  <2>5. slot(m) = b % Capacity
    BY <1>1, <1>2, <1>3, <2>1, <2>2, <2>3 DEF slot
  <2>6. ring[slot(m)] = printed[base + m]
    BY <2>1 DEF RingInv
  <2> QED
    BY <2>1, <2>4, <2>5, <2>6
<1>5. copy(from, n) = [k \in 1..n |-> ring[(origin + k - 1) % Capacity]]
  BY DEF copy
<1> HIDE DEF origin
<1>6. \A k \in 1..n : copy(from, n)[k] = printed[from + k] /\ copy(from, n)[k] \in Units
  BY <1>4, <1>5 DEF RingInv
<1>7. copy(from, n) \in [1..n -> Units] /\ n \in Nat
  BY <1>1, <1>4, <1>5 DEF RingInv
<1> QED
  BY <1>6, <1>7

(* What a program prints, in the ring.                                     *)
LEMMA AppendKeeps ==
    ASSUME Wellformed, RingInv, NEW n \in 1..(Len(printed) - total),
           append(SubSeq(printed, total + 1, total + n)), printed' = printed
    PROVE  RingInv' /\ total' = total + n
<1> DEFINE chunk == SubSeq(printed, total + 1, total + n)
           kept  == Min({Len(chunk), Capacity})
           data  == SubSeq(chunk, Len(chunk) - kept + 1, Len(chunk))
<1>1. /\ Capacity \in Nat \ {0} /\ total \in 0..Len(printed) /\ Len(printed) \in Nat
      /\ writePos \in 0..Capacity-1 /\ ring \in [0..Capacity-1 -> Units] /\ printed \in Seq(Units)
  BY TerminalAssumption DEF RingInv, Wellformed
<1>2. n \in Nat /\ n > 0 /\ total + n <= Len(printed)
  BY <1>1
<1>3. chunk \in Seq(Units) /\ Len(chunk) = n /\ \A i \in 1..n : chunk[i] = printed[total + i]
  BY <1>1, <1>2
<1>4. kept = (IF n <= Capacity THEN n ELSE Capacity) /\ kept \in 1..Capacity /\ kept <= n
  BY <1>1, <1>2, <1>3, OfTwo
<1>5. total' = total + n /\ ring' = Overwrite(data) /\ writePos' = (writePos + kept) % Capacity
  BY <1>3 DEF append
<1> HIDE DEF chunk, kept
<1>6. /\ data \in Seq(Units) /\ Len(data) = kept
      /\ \A i \in 1..kept : data[i] = printed[total + n - kept + i]
  <2>1. n - kept + 1 \in 1..n + 1 /\ n \in 0..Len(chunk)
    BY <1>2, <1>3, <1>4
  <2>2. data \in Seq(Units) /\ Len(data) = kept /\ \A i \in 1..kept : data[i] = chunk[n - kept + i]
    <3> DEFINE f == n - kept
    <3>1. f \in Nat /\ f <= n /\ n - f = kept
      BY <1>2, <1>4
    <3> HIDE DEF f
    <3>2. SubSeq(chunk, f + 1, n) \in Seq(Units) /\ Len(SubSeq(chunk, f + 1, n)) = n - f
          /\ \A i \in 1..n-f : SubSeq(chunk, f + 1, n)[i] = chunk[f + i]
      BY <1>2, <1>3, <3>1
    <3> QED
      BY <1>3, <3>1, <3>2 DEF f
  <2>3. ASSUME NEW i \in 1..kept PROVE data[i] = printed[total + n - kept + i]
    <3>1. n - kept + i \in 1..n /\ total + (n - kept + i) = total + n - kept + i
      BY <1>1, <1>2, <1>4
    <3>2. chunk[n - kept + i] = printed[total + (n - kept + i)]
      BY <1>3, <3>1
    <3> QED
      BY <2>2, <3>1, <3>2
  <2> QED
    BY <2>2, <2>3
<1> HIDE DEF data
<1>7. writePos' = (IF writePos + kept < Capacity THEN writePos + kept ELSE writePos + kept - Capacity)
      /\ writePos' \in 0..Capacity-1
  <2> DEFINE a == writePos + kept
  <2>1. a \in 0..3*Capacity-1 /\ a < 2*Capacity
    BY <1>1, <1>4
  <2>2. a % Capacity = IF a < Capacity THEN a ELSE a - Capacity
    <3> HIDE DEF a
    <3> QED
      BY <1>1, <2>1, SmallRemainders
  <2> QED
    BY <1>1, <1>4, <1>5, <2>1, <2>2
(* Where each slot's content comes from.                                   *)
<1> DEFINE at(i) == IF i >= writePos THEN i - writePos + 1 ELSE i - writePos + 1 + Capacity
<1>8. ASSUME NEW i \in 0..Capacity-1
      PROVE  ring'[i] = (IF at(i) <= kept THEN data[at(i)] ELSE ring[i]) /\ at(i) \in 1..Capacity
  <2> DEFINE a == i - writePos + Capacity
  <2>1. a \in 0..3*Capacity-1 /\ a < 2*Capacity
    BY <1>1
  <2>2. a % Capacity = IF a < Capacity THEN a ELSE a - Capacity
    <3> HIDE DEF a
    <3>1. a % Capacity = IF a < Capacity THEN a ELSE IF a < 2*Capacity THEN a - Capacity ELSE a - 2*Capacity
      BY <1>1, <2>1, SmallRemainders
    <3> QED
      BY <2>1, <3>1
  <2>3. 1 + ((i - writePos + Capacity) % Capacity) = at(i) /\ at(i) \in 1..Capacity
    <3> DEFINE b == a % Capacity
    <3>1. b = IF a < Capacity THEN a ELSE a - Capacity
      BY <2>2
    <3> HIDE DEF b
    <3>2. 1 + b = at(i) /\ at(i) \in 1..Capacity
      BY <1>1, <2>1, <3>1
    <3> QED
      BY <3>2 DEF b
  <2>4. ring' = [j \in 0..Capacity-1 |->
                    IF 1 + ((j - writePos + Capacity) % Capacity) <= Len(data)
                    THEN data[1 + ((j - writePos + Capacity) % Capacity)] ELSE ring[j]]
    BY <1>5 DEF Overwrite
  <2> HIDE DEF at
  <2> QED
    BY <1>6, <2>3, <2>4
<1>9. ring' \in [0..Capacity-1 -> Units]
  <2>1. \A i \in 0..Capacity-1 : ring'[i] \in Units
    <3>1. \A i \in 1..kept : data[i] \in Units
      BY <1>4, <1>6
    <3> HIDE DEF at
    <3>2. ASSUME NEW i \in 0..Capacity-1 PROVE ring'[i] \in Units
      <4>1. ring'[i] = (IF at(i) <= kept THEN data[at(i)] ELSE ring[i]) /\ at(i) \in 1..Capacity
        BY <1>8
      <4>2. at(i) <= kept => at(i) \in 1..kept
        BY <1>1, <1>4, <4>1
      <4> QED
        BY <1>1, <3>1, <4>1, <4>2
    <3> QED
      BY <3>2
  <2>2. ring' = [j \in 0..Capacity-1 |-> ring'[j]]
    BY <1>5 DEF Overwrite
  <2> QED
    BY <2>1, <2>2
<1> DEFINE r == IF total <= Capacity THEN total ELSE Capacity
           q == IF total + n <= Capacity THEN total + n ELSE Capacity
<1>10. retained = r /\ base = total - r
  BY <1>1, RetainedFacts
<1>11. retained' = q /\ base' = total + n - q
  <2>1. Min({total + n, Capacity}) = q
    BY <1>1, <1>2, OfTwo
  <2>2. retained' = Min({total + n, Capacity})
    BY <1>5 DEF retained
  <2>3. base' = total' - retained'
    BY DEF base
  <2>4. q \in Nat /\ total' \in Nat
    BY <1>1, <1>2, <1>5
  <2> HIDE DEF q
  <2>5. retained' = q /\ total' = total + n
    BY <1>5, <2>1, <2>2
  <2>6. total' - retained' = total + n - q
    BY <1>1, <1>2, <2>4, <2>5
  <2> QED
    BY <2>3, <2>5, <2>6
<1>12. ASSUME NEW k \in 1..q
       PROVE  ring'[slot(k)'] = printed[total + n - q + k]
  <2> DEFINE j == writePos' - q + k - 1
             i == IF j < 0 THEN j + Capacity ELSE j
  <2>1. slot(k)' = i
    BY <1>11 DEF slot
  <2>2. i \in 0..Capacity-1
    <3>1. q \in 1..Capacity /\ k \in 1..q
      BY <1>1, <1>2
    <3> HIDE DEF q
    <3>2. writePos' \in 0..Capacity-1
      BY <1>7
    <3>3. ASSUME NEW w \in 0..Capacity-1, NEW m \in 1..Capacity, NEW l \in 1..m
          PROVE  (IF w - m + l - 1 < 0 THEN w - m + l - 1 + Capacity ELSE w - m + l - 1) \in 0..Capacity-1
      BY <1>1
    <3> QED
      BY <3>1, <3>2, <3>3
  <2>3. CASE k > q - kept
    <3>1. at(i) = k - (q - kept)
      <4>1. q \in 1..Capacity /\ kept <= q /\ k \in 1..q
        BY <1>1, <1>2, <1>4
      <4> HIDE DEF q
      <4>2. CASE writePos + kept < Capacity
        BY <1>1, <1>4, <1>7, <2>3, <4>1, <4>2
      <4>3. CASE writePos + kept >= Capacity
        BY <1>1, <1>4, <1>7, <2>3, <4>1, <4>3
      <4> QED
        BY <1>1, <1>4, <4>2, <4>3
    <3> HIDE DEF at, i
    <3>2. at(i) \in 1..kept /\ total + n - kept + at(i) = total + n - q + k
      BY <1>1, <1>2, <1>4, <2>3, <3>1
    <3> QED
      BY <1>6, <1>8, <2>1, <2>2, <3>2
  <2>4. CASE k <= q - kept
    <3> DEFINE m == n - q + r + k
    <3>1. kept = n /\ m \in 1..r /\ total - r + m = total + n - q + k
      BY <1>1, <1>2, <1>4, <2>4
    <3>2. at(i) > kept
      BY <1>1, <1>2, <1>4, <1>7, <2>2, <2>4, <3>1
    <3>3. slot(m) = i
      BY <1>1, <1>2, <1>4, <1>7, <1>10, <2>2, <2>4, <3>1 DEF slot
    <3>4. ring[slot(m)] = printed[total - r + m]
      BY <1>10, <3>1 DEF RingInv
    <3>5. ring'[i] = ring[i]
      <4> HIDE DEF at, i
      <4> QED
        BY <1>4, <1>8, <2>2, <3>2
    <3> QED
      BY <2>1, <3>1, <3>3, <3>4, <3>5
  <2> QED
    BY <1>1, <1>2, <1>4, <2>3, <2>4
<1>13. total' \in 0..Len(printed')
  BY <1>1, <1>2, <1>5
<1> QED
  BY <1>5, <1>7, <1>9, <1>11, <1>12, <1>13 DEF RingInv

-----------------------------------------------------------------------------
(***************************************************************************)
(* Slices.                                                                 *)
(***************************************************************************)
(* raw is the output after position from.                                  *)
Piece(raw, from) ==
    /\ from \in Nat /\ raw \in Seq(Units) /\ from + Len(raw) <= Len(printed)
    /\ \A k \in 1..Len(raw) : raw[k] = printed[from + k]

(* What holds of the output, at a unit of a piece.                         *)
LEMMA PieceFacts ==
    ASSUME Wellformed, NEW raw, NEW from, Piece(raw, from)
    PROVE  /\ Len(raw) \in Nat /\ Len(printed) \in Nat /\ from + Len(raw) <= Len(printed)
           /\ \A k \in 1..Len(raw) : from + k \in 1..Len(printed) /\ raw[k] = printed[from + k]
           /\ \A p \in 1..Len(printed) : opening[p] \in Nat /\ InPlace(p)
           /\ \A k \in 1..Len(raw) : from + k > 1 =>
                 /\ raw[k] = "cont" <=> printed[from + k - 1] = "lead"
                 /\ printed[from + k - 1] = "esc" => raw[k] \in {"x", "csi", "osc", "st"}
<1>1. Len(raw) \in Nat /\ Len(printed) \in Nat /\ from \in Nat /\ from + Len(raw) <= Len(printed)
  BY DEF Piece, Wellformed
<1>2. \A k \in 1..Len(raw) : from + k \in 1..Len(printed) /\ raw[k] = printed[from + k]
  BY <1>1 DEF Piece
<1>3. \A p \in 1..Len(printed) : opening[p] \in Nat /\ InPlace(p)
  BY DEF Wellformed
<1>4. ASSUME NEW k \in 1..Len(raw), from + k > 1
      PROVE  /\ raw[k] = "cont" <=> printed[from + k - 1] = "lead"
             /\ printed[from + k - 1] = "esc" => raw[k] \in {"x", "csi", "osc", "st"}
  <2> DEFINE p == from + k
  <2>1. p \in 1..Len(printed) /\ raw[k] = printed[p] /\ p > 1
    BY <1>1, <1>2, <1>4
  <2> HIDE DEF p
  <2>2. /\ printed[p] = "cont" <=> printed[p - 1] = "lead"
        /\ printed[p - 1] = "esc" => printed[p] \in {"x", "csi", "osc", "st"}
    BY <1>3, <2>1 DEF InPlace
  <2> QED
    BY <1>1, <2>1, <2>2 DEF p
<1> QED
  BY <1>1, <1>2, <1>3, <1>4

LEMMA AlignStart ==
    ASSUME Wellformed, NEW raw, NEW from, Piece(raw, from)
    PROVE  /\ alignUtf8Start(raw) \in {0, 1} /\ alignUtf8Start(raw) <= Len(raw)
           /\ alignUtf8Start(raw) = 1 => raw[1] = "cont"
           /\ alignUtf8Start(raw) = 0 /\ Len(raw) > 0 => raw[1] # "cont"
<1> DEFINE T == {i \in 0..Len(raw) : \A k \in 1..i : raw[k] = "cont"}
<1>1. /\ Len(raw) \in Nat
      /\ \A k \in 2..Len(raw) : raw[k] = "cont" => raw[k-1] = "lead"
  <2>1. Len(raw) \in Nat /\ from \in Nat
    BY PieceFacts DEF Piece
  <2>2. ASSUME NEW k \in 2..Len(raw), raw[k] = "cont" PROVE raw[k-1] = "lead"
    <3>1. k \in 1..Len(raw) /\ k - 1 \in 1..Len(raw) /\ from + k > 1 /\ from + (k - 1) = from + k - 1
      BY <2>1
    <3> QED
      BY <2>2, <3>1, PieceFacts
  <2> QED
    BY <2>1, <2>2
<1>2. T \in SUBSET (0..Len(raw)) /\ 0 \in T
  BY <1>1
<1>3. Max(T) \in T /\ \A i \in T : Max(T) >= i
  BY <1>1, <1>2, GreatestFacts
<1>4. ASSUME NEW i \in T, i >= 2 PROVE FALSE
  <2>1. 1 \in 1..i /\ 2 \in 1..i /\ 2 \in 2..Len(raw)
    BY <1>1, <1>4
  <2>2. raw[1] = "cont" /\ raw[2] = "cont"
    BY <2>1
  <2>3. raw[2 - 1] = "lead"
    BY <1>1, <2>1, <2>2
  <2> QED
    BY <2>2, <2>3
<1>5. Len(raw) > 0 /\ raw[1] = "cont" => 1 \in T
  BY <1>1
<1>6. 1 \in T => raw[1] = "cont"
  OBVIOUS
<1>7. alignUtf8Start(raw) = Max(T)
  BY DEF alignUtf8Start
<1>8. Max(T) \in 0..Len(raw)
  BY <1>2, <1>3
<1> HIDE DEF T
<1> QED
  BY <1>1, <1>3, <1>4, <1>5, <1>6, <1>7, <1>8

(* An escape sequence that is trimmed is unfinished at the end, and one    *)
(* that is not but is unfinished began before the slice or too far back.   *)
LEMMA TrimFacts ==
    ASSUME Wellformed, NEW raw, NEW from, Piece(raw, from),
           NEW skip \in {0, 1}, NEW e \in skip..Len(raw)
    PROVE  LET b == trimPartialAnsi(raw, skip, e)
               o == opening[from + e]
           IN /\ b \in skip..e /\ e - b <= MaxHoldback
              /\ b < e => raw[b+1] = "esc" /\ o > 0 /\ o <= from + b + 1
              /\ b = e /\ e > skip =>
                    raw[e] # "esc" /\ (o <= from + skip \/ from + e - o + 1 > MaxHoldback)
<1> DEFINE lo   == Max({skip, e - MaxHoldback})
           escs == {k \in lo+1..e : raw[k] = "esc"}
           K    == Max(escs)
           b    == trimPartialAnsi(raw, skip, e)
           o    == opening[from + e]
<1>1. /\ Len(raw) \in Nat /\ Len(printed) \in Nat /\ from \in Nat /\ from + Len(raw) <= Len(printed)
      /\ skip \in Nat /\ e \in Nat /\ skip <= e /\ e <= Len(raw) /\ MaxHoldback \in Nat \ {0}
      /\ \A k \in 1..Len(raw) : from + k \in 1..Len(printed) /\ raw[k] = printed[from + k]
      /\ \A p \in 1..Len(printed) : opening[p] \in Nat /\ InPlace(p)
  <2>1. /\ Len(raw) \in Nat /\ Len(printed) \in Nat /\ from + Len(raw) <= Len(printed)
        /\ \A k \in 1..Len(raw) : from + k \in 1..Len(printed) /\ raw[k] = printed[from + k]
        /\ \A p \in 1..Len(printed) : opening[p] \in Nat /\ InPlace(p)
    BY PieceFacts
  <2>2. from \in Nat /\ MaxHoldback \in Nat \ {0}
    BY TerminalAssumption DEF Piece
  <2>3. skip \in Nat /\ e \in Nat /\ skip <= e /\ e <= Len(raw)
    BY <2>1
  <2> QED
    BY <2>1, <2>2, <2>3
<1>2. lo = (IF skip >= e - MaxHoldback THEN skip ELSE e - MaxHoldback)
  <2>1. skip \in Int /\ e - MaxHoldback \in Int
    BY <1>1
  <2> QED
    BY <2>1, OfTwo
<1>3. b = IF escs = {} \/ ansiSequenceComplete(raw, K, e) THEN e ELSE K - 1
  BY DEF trimPartialAnsi
<1> HIDE DEF lo, b
<1>4. lo \in skip..e /\ lo >= e - MaxHoldback /\ (e > skip => lo < e)
  BY <1>1, <1>2
<1>5. escs # {} => K \in escs /\ \A k \in escs : K >= k
  <2>1. escs \in SUBSET (0..e)
    BY <1>1, <1>4
  <2> HIDE DEF escs
  <2> QED
    BY <1>1, <2>1, GreatestFacts
<1> HIDE DEF K
<1>6. \A k \in 1..e : raw[k] = "esc" /\ k > lo => k \in escs
  BY <1>1, <1>4
<1>7. \A k \in escs : k \in lo+1..e /\ k \in 1..e /\ raw[k] = "esc"
  BY <1>1, <1>4
<1> HIDE DEF escs
(* The sequence that is unfinished at the end, if it began near it.        *)
<1>8. ASSUME e > skip, o > from + skip, from + e - o + 1 <= MaxHoldback
      PROVE  o - from \in escs /\ Unfinished(o, from + e) /\ o \in Nat
  <2>1. from + e \in 1..Len(printed)
    BY <1>1, <1>8
  <2>2. Unfinished(o, from + e) /\ o \in Nat
    BY <1>1, <1>8, <2>1 DEF InPlace
  <2>3. o - from \in 1..e /\ o - from > lo /\ from + (o - from) = o /\ printed[o] = "esc"
    <3>1. o \in 1..(from + e) /\ printed[o] = "esc"
      BY <2>2 DEF Unfinished
    <3>2. o > from + skip /\ from + e - o + 1 <= MaxHoldback
      BY <1>8
    <3> HIDE DEF o
    <3> QED
      BY <1>1, <1>2, <3>1, <3>2
  <2>4. raw[o - from] = "esc"
    <3>1. o - from \in 1..Len(raw)
      BY <1>1, <2>3
    <3> QED
      BY <1>1, <2>3, <3>1
  <2> QED
    BY <1>6, <2>2, <2>3, <2>4
<1>9. CASE escs = {}
  <2>1. b = e
    BY <1>3, <1>9
  <2>2. e > skip => raw[e] # "esc"
    BY <1>1, <1>4, <1>6, <1>9
  <2>3. e > skip => o \in Nat
    BY <1>1
  <2>4. e > skip => o <= from + skip \/ from + e - o + 1 > MaxHoldback
    BY <1>1, <1>8, <1>9, <2>3
  <2> HIDE DEF o
  <2> QED
    BY <1>1, <2>1, <2>2, <2>4 DEF b, o
<1>10. CASE escs # {} /\ ansiSequenceComplete(raw, K, e)
  <2>1. b = e /\ K \in 1..e /\ K < e /\ K > skip
    BY <1>1, <1>3, <1>4, <1>5, <1>7, <1>10 DEF ansiSequenceComplete
  <2>2. e > skip /\ raw[e] # "esc"
    BY <1>1, <1>4, <1>5, <1>6, <1>10, <2>1
  <2>3. o \in Nat
    BY <1>1, <2>2
  <2>4. ASSUME o > from + skip, from + e - o + 1 <= MaxHoldback PROVE FALSE
    <3>1. o - from \in escs /\ Unfinished(o, from + e)
      BY <1>8, <2>2, <2>4
    <3>2. o - from <= K /\ o - from \in 1..e
      BY <1>1, <1>5, <1>7, <1>10, <2>1, <2>3, <3>1
    <3>3. ASSUME NEW k \in 1..e, from + k > o PROVE raw[k] \notin Closers
      <4>1. \A q \in o+1..(from + e) : printed[q] \notin Closers
        BY <3>1 DEF Unfinished
      <4>2. from + k \in o+1..(from + e) /\ k \in 1..Len(raw)
        <5> HIDE DEF o
        <5> QED
          BY <1>1, <2>3, <3>3
      <4>3. raw[k] = printed[from + k]
        BY <1>1, <4>2
      <4> HIDE DEF o
      <4> QED
        BY <4>1, <4>2, <4>3
    <3>4. CASE o - from = K
      <4>1. printed[o+1] = raw[K+1] /\ from + e > o /\ K + 1 \in 1..e
        <5>1. from \in Nat /\ K \in Nat /\ K + 1 \in 1..e /\ K + 1 \in 1..Len(raw)
          BY <1>1, <2>1
        <5>2. raw[K+1] = printed[from + (K+1)]
          BY <1>1, <5>1
        <5> HIDE DEF o
        <5>3. from + (K+1) = o + 1 /\ from + e > o
          BY <2>1, <2>3, <3>4, <5>1
        <5> QED
          BY <5>1, <5>2, <5>3
      <4>2. raw[K+1] \in {"osc", "csi"}
        BY <3>1, <4>1 DEF Unfinished
      <4>3. \E i \in K+2..e : raw[i] \in {"x", "bel"} \/ (i < e /\ raw[i+1] = "st")
        BY <1>10, <4>2 DEF ansiSequenceComplete
      <4> QED
        BY <1>1, <2>1, <2>3, <3>3, <3>4, <4>3 DEF Closers
    <3>5. CASE o - from < K
      <4> DEFINE p == from + K
      <4>1. p \in 1..Len(printed) /\ p + 1 \in 1..Len(printed) /\ p > o /\ p \in o..(from + e)
            /\ printed[p] = "esc" /\ raw[K+1] = printed[p+1] /\ K + 1 \in 1..e /\ p + 1 = from + (K + 1)
        <5>1. K \in 1..Len(raw) /\ K + 1 \in 1..Len(raw) /\ raw[K] = "esc"
          BY <1>1, <1>5, <1>7, <1>10, <2>1
        <5>2. p + 1 = from + (K + 1)
          BY <1>1, <2>1
        <5>3. p \in 1..Len(printed) /\ raw[K] = printed[p]
          BY <1>1, <5>1
        <5>4. p + 1 \in 1..Len(printed) /\ raw[K+1] = printed[p+1]
          BY <1>1, <5>1, <5>2
        <5> QED
          BY <1>1, <2>1, <2>3, <3>5, <5>1, <5>2, <5>3, <5>4, SMTT(30)
      <4> HIDE DEF p
      <4>2. opening[p] = o
        BY <3>1, <4>1 DEF Unfinished
      <4>3. p \in Nat /\ p + 1 > 1 /\ p + 1 - 1 = p
        BY <4>1
      <4>4. printed[p+1] = "st"
        BY <1>1, <2>3, <4>1, <4>2, <4>3 DEF InPlace
      <4> QED
        BY <1>1, <2>3, <3>3, <4>1, <4>4 DEF Closers
    <3> QED
      BY <1>1, <2>1, <2>3, <3>2, <3>4, <3>5
  <2> HIDE DEF o
  <2>5. b = e /\ raw[e] # "esc" /\ (o <= from + skip \/ from + e - o + 1 > MaxHoldback)
    BY <1>1, <2>1, <2>2, <2>3, <2>4
  <2> QED
    BY <1>1, <2>5 DEF b, o
<1>11. CASE escs # {} /\ ~ansiSequenceComplete(raw, K, e)
  <2>1. b = K - 1 /\ K \in lo+1..e /\ K \in 1..e /\ raw[K] = "esc"
    BY <1>3, <1>5, <1>7, <1>11
  <2>2. b \in skip..e /\ b < e /\ e - b <= MaxHoldback /\ b + 1 = K
    BY <1>1, <1>4, <2>1
  <2> DEFINE p == from + K
             E == from + e
  <2>3. p \in 1..Len(printed) /\ E \in 1..Len(printed) /\ p <= E /\ printed[p] = "esc"
    <3>1. K \in 1..Len(raw) /\ e \in 1..Len(raw)
      BY <1>1, <2>1
    <3> QED
      BY <1>1, <2>1, <3>1
  <2>4. \A i \in p+1..E : /\ i - from \in K+1..e /\ i - from \in 1..e
                          /\ raw[i - from] = printed[i] /\ printed[i] # "esc"
    <3> SUFFICES ASSUME NEW i \in p+1..E
                 PROVE  /\ i - from \in K+1..e /\ i - from \in 1..e
                        /\ raw[i - from] = printed[i] /\ printed[i] # "esc"
      OBVIOUS
    <3>1. i - from \in K+1..e /\ i - from \in 1..e /\ i - from \in 1..Len(raw) /\ from + (i - from) = i
      BY <1>1, <2>1
    <3>2. raw[i - from] = printed[i]
      BY <1>1, <3>1
    <3>3. raw[i - from] # "esc"
      BY <1>1, <1>4, <1>5, <1>6, <1>11, <2>1, <3>1
    <3> QED
      BY <3>1, <3>2, <3>3
  <2> HIDE DEF p, E
  <2>5. InPlace(E) /\ InPlace(p) /\ opening[E] \in Nat /\ opening[p] \in Nat
    BY <1>1, <2>3
  <2>6. CASE opening[p] = p
    <3>1. opening[E] = p \/ \E i \in p+1..E : Finished(p, i)
      BY <2>3, <2>5, <2>6 DEF InPlace
    <3>2. ASSUME NEW i \in p+1..E, Finished(p, i) PROVE FALSE
      <4> DEFINE j == i - from
      <4>0. /\ p \in Nat /\ E \in Nat /\ i \in Nat /\ p = from + K /\ E = from + e
            /\ K < e /\ j \in K+1..e /\ raw[j] = printed[i]
        BY <1>1, <2>1, <2>3, <2>4 DEF p, E
      <4>1. raw[K+1] = printed[p+1]
        <5>1. p + 1 \in p+1..E /\ p + 1 - from = K + 1
          BY <1>1, <2>1, <4>0
        <5> DEFINE f == p + 1
        <5>2. f \in p+1..E /\ f - from = K + 1
          BY <1>1, <4>0, <5>1
        <5> HIDE DEF f
        <5>3. raw[f - from] = printed[f]
          BY <2>4, <5>2
        <5> QED
          BY <5>2, <5>3 DEF f
      <4>2. \A q \in K+2..j-1 : /\ raw[q] \notin Closers /\ raw[q] # "esc"
                                /\ printed[p+1] = "csi" => raw[q] = "body"
        <5> SUFFICES ASSUME NEW q \in K+2..j-1
                     PROVE  /\ raw[q] \notin Closers /\ raw[q] # "esc"
                            /\ printed[p+1] = "csi" => raw[q] = "body"
          OBVIOUS
        <5>1. from + q \in p+1..E /\ from + q \in p+2..i-1 /\ from + q \in p+1..i-1
              /\ from + q - from = q /\ i - 1 > p
          BY <1>1, <2>1, <4>0
        <5>2. raw[q] = printed[from + q] /\ printed[from + q] # "esc"
          <6> DEFINE f == from + q
          <6>1. f \in p+1..E /\ f - from = q
            BY <1>1, <5>1
          <6> HIDE DEF f
          <6>2. raw[f - from] = printed[f] /\ printed[f] # "esc"
            BY <2>4, <6>1
          <6> QED
            BY <6>1, <6>2 DEF f
        <5>3. Unfinished(p, i - 1)
          BY <3>2 DEF Finished
        <5>4. printed[from + q] \notin Closers
          BY <5>1, <5>3 DEF Unfinished
        <5>5. printed[p+1] = "csi" => printed[from + q] = "body"
          BY <5>1, <5>3 DEF Unfinished
        <5> QED
          BY <5>2, <5>4, <5>5
      <4>3. ~ansiSequenceComplete(raw, K, e)
        BY <1>11
      <4>4. CASE i = p + 1 /\ printed[i] = "x"
        BY <4>0, <4>1, <4>3, <4>4 DEF ansiSequenceComplete
      <4>5. CASE i > p + 1 /\ printed[p+1] = "csi" /\ printed[i] = "x"
        <5>1. j \in K+2..e
          BY <1>1, <2>1, <4>0, <4>5
        <5> HIDE DEF j
        <5> QED
          BY <4>0, <4>1, <4>2, <4>3, <4>5, <5>1 DEF ansiSequenceComplete
      <4>6. CASE i > p + 1 /\ printed[p+1] = "osc" /\ printed[i] = "bel"
        <5>1. j \in K+2..e
          BY <1>1, <2>1, <4>0, <4>6
        <5> HIDE DEF j
        <5> QED
          BY <4>0, <4>1, <4>2, <4>3, <4>6, <5>1 DEF ansiSequenceComplete, Closers
      <4>7. CASE i > p + 1 /\ printed[i] = "st"
        <5>1. i \in 1..Len(printed) /\ i - 1 \in p+1..E
          BY <2>3, <4>0, <4>7
        <5>2. InPlace(i)
          BY <1>1, <5>1
        <5>3. printed[i - 1] = "esc"
          BY <4>7, <5>2 DEF InPlace
        <5> QED
          BY <2>4, <5>1, <5>3
      <4> QED
        BY <3>2, <4>4, <4>5, <4>6, <4>7 DEF Finished
    <3>3. opening[E] = p /\ p > 0
      BY <2>3, <3>1, <3>2
    <3>4. raw[b+1] = "esc" /\ o > 0 /\ o <= from + b + 1
      BY <1>1, <2>1, <2>2, <3>3 DEF p, E
    <3> HIDE DEF o
    <3> QED
      BY <1>1, <2>2, <3>4 DEF b, o
  <2>7. CASE opening[p] # p
    <3>1. opening[p] > 0 /\ opening[p] <= p
      BY <2>3, <2>5, <2>7 DEF InPlace, Unfinished
    <3>2. CASE K = e
      <4>1. E = p
        BY <3>2 DEF p, E
      <4>2. raw[b+1] = "esc" /\ o > 0 /\ o <= from + b + 1
        BY <1>1, <2>1, <2>2, <3>1, <4>1 DEF p, E
      <4> HIDE DEF o
      <4> QED
        BY <1>1, <2>2, <4>2 DEF b, o
    <3>3. CASE K < e
      <4>1. p + 1 \in p+1..E /\ p + 1 \in 1..Len(printed) /\ p + 1 > 1 /\ p + 1 - 1 = p /\ p + 1 - from = K + 1
        BY <1>1, <2>1, <2>3, <3>3 DEF p, E
      <4>2. InPlace(p + 1)
        BY <1>1, <4>1
      <4>3. printed[p+1] = "st"
        BY <2>3, <2>7, <4>1, <4>2 DEF InPlace
      <4>4. raw[K+1] = "st"
        <5> DEFINE f == p + 1
        <5>1. f \in p+1..E /\ f - from = K + 1
          BY <1>1, <2>1, <2>3, <4>1
        <5> HIDE DEF f
        <5>2. raw[f - from] = printed[f]
          BY <2>4, <5>1
        <5> QED
          BY <4>3, <5>1, <5>2 DEF f
      <4> QED
        BY <1>11, <3>3, <4>4 DEF ansiSequenceComplete
    <3> QED
      BY <1>1, <2>1, <3>2, <3>3
  <2> QED
    BY <2>6, <2>7
<1> QED
  BY <1>9, <1>10, <1>11

(* What is held back is a sequence, a code point and a carriage return at  *)
(* most.  What then ends the slice ends it well; if nothing is left, the   *)
(* first unit was held back; and if nothing is left of a page, a sequence  *)
(* began at its front.                                                     *)
LEMMA HoldBackFacts ==
    ASSUME Wellformed, NEW raw, NEW from, Piece(raw, from), NEW skip \in {0, 1},
           skip <= Len(raw), skip = 1 => raw[1] = "cont"
    PROVE  LET h == HoldBack(raw, skip)
           IN /\ h \in skip..Len(raw) /\ h >= Len(raw) - (MaxHoldback + 2)
              /\ h > skip => EndsWell(from + skip, from + h)
              /\ h = skip /\ skip = 0 /\ Len(raw) > 0 => raw[1] \in {"lead", "esc", "cr"}
              /\ h = skip /\ Len(raw) > 3 =>
                    opening[from + Len(raw)] > 0 /\ opening[from + Len(raw)] <= from + skip + 2
<1> DEFINE n == Len(raw)
           a == alignUtf8End(raw, n)
           b == trimPartialAnsi(raw, skip, a)
           h == HoldBack(raw, skip)
<1>1. /\ n \in Nat /\ Len(printed) \in Nat /\ from \in Nat /\ from + n <= Len(printed)
      /\ MaxHoldback \in Nat \ {0} /\ skip <= n
      /\ \A k \in 1..n : from + k \in 1..Len(printed) /\ raw[k] = printed[from + k]
      /\ \A p \in 1..Len(printed) : opening[p] \in Nat /\ InPlace(p)
  BY PieceFacts, TerminalAssumption DEF Piece
<1>2. \A k \in 2..n : /\ raw[k] = "cont" <=> raw[k-1] = "lead"
                      /\ raw[k-1] = "esc" => raw[k] \in {"x", "csi", "osc", "st"}
  <2> SUFFICES ASSUME NEW k \in 2..n
               PROVE  /\ raw[k] = "cont" <=> raw[k-1] = "lead"
                      /\ raw[k-1] = "esc" => raw[k] \in {"x", "csi", "osc", "st"}
    OBVIOUS
  <2>1. k \in 1..n /\ k - 1 \in 1..n /\ from + k > 1 /\ from + (k - 1) = from + k - 1
    BY <1>1
  <2>2. /\ raw[k] = "cont" <=> printed[from + k - 1] = "lead"
        /\ printed[from + k - 1] = "esc" => raw[k] \in {"x", "csi", "osc", "st"}
    BY <2>1, PieceFacts
  <2>3. raw[k-1] = printed[from + (k - 1)]
    BY <1>1, <2>1
  <2> QED
    BY <2>1, <2>2, <2>3
<1>3. /\ a = IF n > 0 /\ raw[n] = "lead" THEN n - 1 ELSE n
      /\ h = IF b > skip /\ raw[b] = "cr" THEN b - 1 ELSE b
  BY DEF alignUtf8End, HoldBack
<1> HIDE DEF a, h
<1>4. a \in skip..n /\ a >= n - 1
  <2>1. CASE skip = 1
    <3>1. n >= 1 /\ raw[1] = "cont"
      BY <1>1, <2>1
    <3> QED
      BY <1>1, <1>3, <2>1, <3>1
  <2> QED
    BY <1>1, <1>3, <2>1
<1>5. /\ b \in skip..a /\ a - b <= MaxHoldback
      /\ b < a => raw[b+1] = "esc" /\ opening[from + a] > 0 /\ opening[from + a] <= from + b + 1
      /\ b = a /\ a > skip =>
            /\ raw[a] # "esc"
            /\ opening[from + a] <= from + skip \/ from + a - opening[from + a] + 1 > MaxHoldback
  BY <1>4, TrimFacts
<1> HIDE DEF b
<1>6. h \in skip..n /\ h <= b /\ h >= b - 1 /\ h >= n - (MaxHoldback + 2)
  BY <1>1, <1>3, <1>4, <1>5, SMTT(30)
<1>7. b > skip => raw[b] \notin {"lead", "esc"}
  <2>1. CASE b < a /\ b > skip
    <3> DEFINE c == b + 1
    <3>1. c \in 2..n /\ c - 1 = b /\ raw[c] = "esc"
      BY <1>1, <1>4, <1>5, <2>1
    <3> HIDE DEF c
    <3>2. (raw[c] = "cont" <=> raw[c-1] = "lead") /\ (raw[c-1] = "esc" => raw[c] \in {"x", "csi", "osc", "st"})
      BY <1>2, <3>1
    <3> QED
      BY <3>1, <3>2
  <2>2. CASE b = a /\ b > skip
    <3>1. raw[b] # "esc"
      BY <1>5, <2>2
    <3>2. CASE a < n
      <4>1. raw[n] = "lead" /\ n \in 2..n /\ b = n - 1
        BY <1>1, <1>3, <1>4, <2>2, <3>2
      <4> QED
        BY <1>2, <3>1, <4>1
    <3>3. CASE a = n
      BY <1>1, <1>3, <2>2, <3>1, <3>3
    <3> QED
      BY <1>1, <1>4, <3>2, <3>3
  <2> QED
    BY <1>4, <1>5, <2>1, <2>2
<1>8. ASSUME h > skip PROVE EndsWell(from + skip, from + h)
  <2>1. h \in 1..n /\ from + h \in 1..Len(printed) /\ raw[h] = printed[from + h] /\ b > skip /\ b \in 1..n
    BY <1>1, <1>4, <1>5, <1>6, <1>8
  <2>2. CASE h < b
    <3>1. raw[b] = "cr" /\ h = b - 1 /\ b \in 2..n /\ from + b > 1 /\ from + b - 1 = from + h
          /\ from + b \in 1..Len(printed) /\ printed[from + b] = "cr"
      BY <1>1, <1>3, <1>6, <2>1, <2>2
    <3>2. raw[h] \notin {"lead", "esc"}
      BY <1>2, <3>1
    <3>3. InPlace(from + b)
      BY <1>1, <3>1
    <3>4. opening[from + h] = 0
      <4> DEFINE p == from + b
      <4>1. InPlace(p) /\ printed[p] = "cr" /\ p > 1 /\ p - 1 = from + h
        BY <1>1, <2>1, <3>1, <3>3
      <4> HIDE DEF p
      <4>2. opening[p - 1] = 0
        BY <4>1 DEF InPlace
      <4> QED
        BY <4>1, <4>2
    <3> QED
      BY <1>1, <2>1, <3>2, <3>4 DEF EndsWell
  <2>3. CASE h = b /\ b < a
    <3>1. b + 1 \in 1..n /\ from + (b + 1) = from + h + 1 /\ raw[b+1] = "esc"
      BY <1>1, <1>4, <1>5, <2>1, <2>3
    <3>2. from + h + 1 \in 1..Len(printed) /\ printed[from + h + 1] = "esc"
      BY <1>1, <3>1
    <3>3. from + h < Len(printed)
      BY <1>1, <2>1, <3>2
    <3> QED
      BY <1>7, <2>1, <2>3, <3>2, <3>3 DEF EndsWell
  <2>4. CASE h = b /\ b = a
    <3>1. h > skip /\ a > skip /\ b = a /\ h = a
      BY <2>4, <1>8
    <3>2. opening[from + h] <= from + skip \/ from + h - opening[from + h] + 1 > MaxHoldback
      BY <1>5, <3>1
    <3>3. printed[from + h] \notin {"lead", "esc"}
      BY <1>7, <2>1, <2>4
    <3>4. opening[from + h] \in Nat
      BY <1>1, <2>1
    <3> QED
      BY <1>1, <2>1, <3>2, <3>3, <3>4, SMTT(30) DEF EndsWell
  <2> QED
    BY <1>4, <1>5, <1>6, <2>2, <2>3, <2>4
<1>9. h = skip /\ skip = 0 /\ n > 0 => raw[1] \in {"lead", "esc", "cr"}
  BY <1>1, <1>3, <1>4, <1>5, <1>6
<1>10. ASSUME h = skip, n > 3
       PROVE  opening[from + n] > 0 /\ opening[from + n] <= from + skip + 2
  <2>1. b < a /\ b <= skip + 1
    BY <1>1, <1>4, <1>5, <1>6, <1>10
  <2>2. opening[from + a] > 0 /\ opening[from + a] <= from + b + 1
    BY <1>5, <2>1
  <2>3. opening[from + n] = opening[from + a]
    <3>1. CASE a = n
      BY <3>1
    <3>2. CASE a < n
      <4>1. raw[n] = "lead" /\ a = n - 1 /\ n \in 1..n /\ from + n - 1 = from + a /\ from + n > 1
        BY <1>1, <1>3, <1>4, <1>10, <3>2
      <4>2. InPlace(from + n) /\ printed[from + n] = "lead"
        BY <1>1, <4>1
      <4> DEFINE p == from + n
      <4>3. InPlace(p) /\ printed[p] = "lead" /\ p > 1 /\ p - 1 = from + a
        BY <1>1, <1>4, <4>1, <4>2
      <4> HIDE DEF p
      <4>4. opening[p] = opening[p - 1]
        BY <4>3 DEF InPlace
      <4> QED
        BY <4>3, <4>4 DEF p
    <3> QED
      BY <1>1, <1>4, <3>1, <3>2
  <2>4. opening[from + a] \in Nat
    <3>1. from + a \in 1..Len(printed)
      BY <1>1, <1>4, <1>10
    <3> QED
      BY <1>1, <3>1
  <2> QED
    BY <1>1, <1>4, <1>5, <2>1, <2>2, <2>3, <2>4
<1> QED
  BY <1>6, <1>8, <1>9, <1>10 DEF h, n

LEMMA PieceOfPiece ==
    ASSUME Wellformed, NEW raw, NEW from, Piece(raw, from)
    PROVE  \A s \in Nat : \A e \in s..Len(raw) :
              SubSeq(raw, s + 1, e) = SubSeq(printed, from + s + 1, from + e)
<1> TAKE s \in Nat
<1> TAKE e \in s..Len(raw)
<1>1. /\ raw \in Seq(Units) /\ printed \in Seq(Units) /\ from \in Nat
      /\ Len(raw) \in Nat /\ Len(printed) \in Nat /\ from + Len(raw) <= Len(printed)
      /\ e \in Nat /\ s <= e /\ e <= Len(raw)
  BY DEF Piece, Wellformed
<1> DEFINE u == SubSeq(raw, s + 1, e)
           v == SubSeq(printed, from + s + 1, from + e)
<1>2. u \in Seq(Units) /\ Len(u) = e - s /\ \A i \in 1..e-s : u[i] = raw[s + i]
  BY <1>1
<1>3. v \in Seq(Units) /\ Len(v) = e - s /\ \A i \in 1..e-s : v[i] = printed[from + s + i]
  <2> DEFINE f == from + s
             g == from + e
  <2>1. f \in Nat /\ g \in Nat /\ f <= g /\ g <= Len(printed) /\ g - f = e - s
    BY <1>1
  <2> HIDE DEF f, g
  <2>2. SubSeq(printed, f + 1, g) \in Seq(Units) /\ Len(SubSeq(printed, f + 1, g)) = g - f
        /\ \A i \in 1..g-f : SubSeq(printed, f + 1, g)[i] = printed[f + i]
    BY <1>1, <2>1
  <2> QED
    BY <2>1, <2>2 DEF f, g
<1> HIDE DEF u, v
<1>4. ASSUME NEW i \in 1..e-s PROVE u[i] = v[i]
  <2>1. s + i \in 1..Len(raw) /\ from + (s + i) = from + s + i
    BY <1>1
  <2>2. raw[s + i] = printed[from + (s + i)]
    BY <2>1 DEF Piece
  <2> QED
    BY <1>2, <1>3, <2>1, <2>2
<1>5. u = v
  BY <1>2, <1>3, <1>4, SeqEqual
<1> QED
  BY <1>5 DEF u, v

LEMMA SlicesAreRight ==
    ASSUME Wellformed, RingInv, ReadInv
    PROVE  SliceFacts
<1>1. /\ total \in Nat /\ cursor \in 0..total /\ total <= Len(printed) /\ Len(printed) \in Nat
      /\ base \in 0..total /\ (total > 0 => base < total)
      /\ MaxBytes \in Nat /\ MaxBytes > 3 /\ sessionExited \in BOOLEAN
      /\ MaxHoldback \in Nat
  BY RetainedFacts, TerminalAssumption DEF ReadInv, RingInv, Wellformed
<1> DEFINE from  == Min({Max({cursor, base}), total})
           lost  == Max({0, base - cursor})
           want  == Min({MaxBytes, total - from})
           raw   == copy(from, want)
           skip == IF lost > 0 THEN alignUtf8Start(raw) ELSE 0
           more  == from + want < total
           held  == SliceEnd(raw, skip, more)
           stuck == held <= skip /\ want > 0 /\ more
           end   == IF stuck THEN want ELSE Max({held, skip})
           how   == IF stuck THEN "page" ELSE IF sessionExited /\ ~more THEN "last" ELSE "kept"
<1>2. ptySliceForCursor = [bytes |-> SubSeq(raw, skip + 1, end), nextCursor |-> from + end,
                           lostBytes |-> lost, how |-> how]
  BY DEF ptySliceForCursor
<1>3. from = IF cursor <= base THEN base ELSE cursor
  <2>1. Max({cursor, base}) = IF cursor >= base THEN cursor ELSE base
    <3>1. cursor \in Int /\ base \in Int
      BY <1>1
    <3> QED
      BY <3>1, OfTwo
  <2>2. Max({cursor, base}) \in Int /\ Max({cursor, base}) <= total
    BY <1>1, <2>1
  <2>3. from = Max({cursor, base})
    <3>1. \A m \in Int : m <= total => Min({m, total}) = m
      BY <1>1, OfTwo
    <3> QED
      BY <2>2, <3>1
  <2> QED
    BY <1>1, <2>1, <2>3
<1>4. lost = IF cursor <= base THEN base - cursor ELSE 0
  <2>1. 0 \in Int /\ base - cursor \in Int
    BY <1>1
  <2>2. lost = IF 0 >= base - cursor THEN 0 ELSE base - cursor
    BY <2>1, OfTwo
  <2> QED
    BY <1>1, <2>2
<1> HIDE DEF from, lost
<1>5. from \in cursor..total /\ from \in base..total /\ lost = from - cursor /\ lost \in Nat
  BY <1>1, <1>3, <1>4
<1>6. want = IF MaxBytes <= total - from THEN MaxBytes ELSE total - from
  BY <1>1, <1>5, OfTwo
<1> HIDE DEF want
<1>7. want \in 0..(total - from) /\ (total > from => want > 0)
  BY <1>1, <1>5, <1>6
<1>8. Piece(raw, from) /\ Len(raw) = want
  <2>1. copy(from, want) \in Seq(Units) /\ Len(copy(from, want)) = want
        /\ \A k \in 1..want : copy(from, want)[k] = printed[from + k]
    BY <1>5, <1>7, CopyIs
  <2> HIDE DEF raw
  <2>2. from \in Nat /\ from + want <= Len(printed) /\ raw \in Seq(Units) /\ Len(raw) = want
        /\ \A k \in 1..want : raw[k] = printed[from + k]
    <3>1. from \in Nat /\ from + want <= Len(printed)
      BY <1>1, <1>5, <1>7
    <3> QED
      BY <2>1, <3>1 DEF raw
  <2> QED
    BY <2>2 DEF Piece
<1> HIDE DEF raw
<1>9. /\ skip \in {0, 1} /\ skip <= want
      /\ skip = 1 => from > cursor /\ raw[1] = "cont"
      /\ skip = 0 /\ from > cursor /\ want > 0 => raw[1] # "cont"
  BY <1>1, <1>5, <1>7, <1>8, AlignStart
<1> HIDE DEF skip
<1> DEFINE h == HoldBack(raw, skip)
<1>10. /\ h \in skip..want /\ h >= want - (MaxHoldback + 2)
       /\ h > skip => EndsWell(from + skip, from + h)
       /\ h = skip /\ skip = 0 /\ want > 0 => raw[1] \in {"lead", "esc", "cr"}
       /\ h = skip /\ want > 3 => opening[from + want] > 0 /\ opening[from + want] <= from + skip + 2
  BY <1>8, <1>9, HoldBackFacts
<1>11. held = IF more \/ ~sessionExited THEN h ELSE want
  BY <1>8 DEF SliceEnd
<1>12. more \in BOOLEAN /\ (more => want = MaxBytes)
  BY <1>1, <1>5, <1>6, <1>7
<1> HIDE DEF h, held
<1>13. held \in skip..want
  BY <1>7, <1>9, <1>10, <1>11, <1>12
<1>14. stuck \in BOOLEAN /\ end = (IF stuck THEN want ELSE held) /\ end \in skip..want
  <2>1. Max({held, skip}) = held
    <3>1. held \in Int /\ skip \in Int /\ held >= skip
      BY <1>7, <1>9, <1>13
    <3> QED
      BY <3>1, OfTwo
  <2> QED
    BY <1>7, <1>9, <1>12, <1>13, <2>1
<1>15. /\ more <=> from + want < total
       /\ stuck <=> held = skip /\ want > 0 /\ more
       /\ how = IF stuck THEN "page" ELSE IF sessionExited /\ ~more THEN "last" ELSE "kept"
  BY <1>7, <1>9, <1>13
<1> HIDE DEF end, stuck, more, how
<1>16. /\ ptySliceForCursor.bytes = SubSeq(raw, skip + 1, end)
       /\ ptySliceForCursor.nextCursor = from + end /\ ptySliceForCursor.lostBytes = lost
       /\ ptySliceForCursor.how = how
  BY <1>2
<1>17. ptySliceForCursor.bytes = SubSeq(printed, from + skip + 1, from + end)
  <2>1. skip \in Nat /\ end \in skip..Len(raw)
    BY <1>7, <1>8, <1>9, <1>14
  <2>2. Piece(raw, from)
    BY <1>8
  <2> HIDE DEF Piece
  <2>3. \A s \in Nat : \A e \in s..Len(raw) :
           SubSeq(raw, s + 1, e) = SubSeq(printed, from + s + 1, from + e)
    BY <2>2, PieceOfPiece, ZenonT(60)
  <2>4. SubSeq(raw, skip + 1, end) = SubSeq(printed, from + skip + 1, from + end)
    BY <2>1, <2>3, Zenon
  <2> QED
    BY <1>16, <2>4, Zenon
<1>18. skip = 1 => printed[from + 1] = "cont"
  BY <1>7, <1>8, <1>9 DEF Piece
<1>19. how = "page" =>
          opening[from + end] > 0 /\ from + end - opening[from + end] + 1 >= MaxBytes - 2
  <2> SUFFICES ASSUME how = "page"
               PROVE  opening[from + end] > 0 /\ from + end - opening[from + end] + 1 >= MaxBytes - 2
    OBVIOUS
  <2>1. stuck /\ more /\ want = MaxBytes /\ end = want
    BY <1>12, <1>14, <1>15
  <2>2. held = h /\ h = skip
    BY <1>11, <1>15, <2>1
  <2>3. opening[from + want] > 0 /\ opening[from + want] <= from + skip + 2
    BY <1>1, <1>10, <2>1, <2>2
  <2>4. opening[from + want] \in Nat
    <3>1. from + want \in 1..Len(printed)
      BY <1>1, <1>5, <1>7, <2>1
    <3> QED
      BY <3>1 DEF Wellformed
  <2> QED
    BY <1>1, <1>5, <1>7, <1>9, <2>1, <2>3, <2>4
<1>20. how = "kept" /\ from + end > cursor => EndsWell(from + skip, from + end)
  <2> SUFFICES ASSUME how = "kept", from + end > cursor
               PROVE  EndsWell(from + skip, from + end)
    OBVIOUS
  <2>1. ~stuck /\ (more \/ ~sessionExited)
    BY <1>1, <1>12, <1>14, <1>15
  <2>2. end = h
    BY <1>11, <1>14, <2>1
  <2>3. CASE end > skip
    BY <1>10, <2>2, <2>3
  <2>4. CASE end = skip
    <3>1. from > cursor /\ want > 0 /\ from > 0
      BY <1>1, <1>3, <1>5, <1>7, <1>9, <2>4
    <3> DEFINE p == from + end
    <3>2. p \in 1..Len(printed) /\ from + skip = p
      BY <1>1, <1>5, <1>7, <1>9, <2>4, <3>1
    <3>3. InPlace(p) /\ opening[p] \in Nat
      BY <3>2 DEF Wellformed
    <3>4. printed[p] \notin {"lead", "esc"}
      <4>1. CASE skip = 1
        BY <1>8, <1>9, <2>4, <4>1 DEF Piece
      <4>2. CASE skip = 0
        <5>1. raw[1] \in {"lead", "esc", "cr"}
          BY <1>10, <2>2, <2>4, <3>1, <4>2
        <5>2. 1 \in 1..Len(raw) /\ from + 1 > 1 /\ from + 1 - 1 = from /\ p = from
          BY <1>1, <1>5, <1>8, <2>4, <3>1, <4>2
        <5> HIDE DEF p
        <5>3. /\ raw[1] = "cont" <=> printed[from + 1 - 1] = "lead"
              /\ printed[from + 1 - 1] = "esc" => raw[1] \in {"x", "csi", "osc", "st"}
          BY <1>8, <5>2, PieceFacts
        <5> QED
          BY <5>1, <5>2, <5>3
      <4> QED
        BY <1>9, <4>1, <4>2
    <3> HIDE DEF p
    <3>5. opening[p] <= p
      BY <3>2, <3>3 DEF InPlace, Unfinished
    <3>6. EndsWell(from + skip, p)
      BY <3>2, <3>4, <3>5 DEF EndsWell
    <3> QED
      BY <3>6 DEF p
  <2> QED
    BY <1>9, <1>14, <2>3, <2>4
<1>21. SliceIs(from, skip, end)
  <2>1. end \in skip..(total - from)
    <3>1. want \in Nat /\ want <= total - from /\ total - from \in Nat /\ skip \in Nat
      BY <1>1, <1>5, <1>7, <1>9
    <3>2. end \in skip..want
      BY <1>14
    <3> QED
      BY <3>1, <3>2
  <2>2. how \in {"kept", "page", "last"}
    BY <1>15
  <2> QED
    BY <1>5, <1>9, <1>16, <1>17, <1>18, <1>19, <1>20, <2>1, <2>2 DEF SliceIs
<1>22. ASSUME total - cursor > Min({MaxHoldback + 2, MaxBytes}) \/ (sessionExited /\ total > cursor)
       PROVE  ptySliceForCursor.nextCursor > cursor
  <2>0. total > cursor
        /\ (sessionExited \/ total - cursor > MaxBytes \/ total - cursor > MaxHoldback + 2)
    <3>1. Min({MaxHoldback + 2, MaxBytes}) = IF MaxHoldback + 2 <= MaxBytes THEN MaxHoldback + 2 ELSE MaxBytes
      BY <1>1, OfTwo
    <3> QED
      BY <1>1, <1>22, <3>1
  <2>1. CASE from > cursor
    <3>1. end \in Nat
      BY <1>7, <1>9, <1>14
    <3> QED
      BY <1>1, <1>5, <1>16, <2>1, <3>1
  <2>2. CASE from = cursor
    <3>1. want > 0 /\ skip = 0
      BY <1>1, <1>5, <1>7, <1>9, <2>0, <2>2
    <3>2. held > 0 \/ more
      <4>1. CASE ~more /\ sessionExited
        BY <1>7, <1>11, <3>1, <4>1
      <4>2. CASE ~more /\ ~sessionExited
        <5>1. want = total - from
          BY <1>1, <1>5, <1>7, <1>15, <4>2
        <5>2. want > MaxHoldback + 2
          BY <1>1, <1>5, <1>6, <2>0, <2>2, <4>2, <5>1
        <5> QED
          BY <1>1, <1>7, <1>9, <1>10, <1>11, <3>1, <4>2, <5>2
      <4> QED
        BY <1>12, <4>1, <4>2
    <3>3. end > 0
      BY <1>7, <1>9, <1>13, <1>14, <1>15, <3>1, <3>2
    <3> QED
      BY <1>1, <1>5, <1>7, <1>14, <1>16, <2>2, <3>3
  <2> QED
    BY <1>1, <1>5, <2>1, <2>2
<1>23. from \in 0..total /\ end \in 0..total /\ skip \in {0, 1}
  BY <1>1, <1>5, <1>7, <1>9, <1>14
<1> HIDE DEF skip
<1> QED
  BY <1>21, <1>22, <1>23 DEF SliceFacts

-----------------------------------------------------------------------------
LEMMA OutputInit == TerminalInit => OutputInv
<1> SUFFICES ASSUME TerminalInit PROVE OutputInv
  OBVIOUS
<1> USE DEF TerminalInit
<1>1. Wellformed
  <2>1. printed \in Seq(Units) /\ Len(printed) = 0 /\ opening \in Seq(Nat) /\ Len(opening) = 0
    OBVIOUS
  <2> QED
    BY <2>1 DEF Wellformed
<1>2. Capacity \in Nat \ {0} /\ retained = 0
  BY TerminalAssumption, RetainedFacts
<1>3. RingInv
  BY <1>2 DEF RingInv, Units
<1>4. ReadInv
  <2>1. log \in Seq(Units \cup {"lost", "skipped"}) /\ Len(log) = 0
    OBVIOUS
  <2>2. cursor = 0 /\ total = 0 /\ cuts = {} /\ sessionExited = FALSE
    OBVIOUS
  <2> HIDE DEF TerminalInit
  <2>3. \A p \in 1..cursor : FALSE
    BY <2>2
  <2>4. \A c \in cuts : FALSE
    BY <2>2
  <2>5. cursor \in 0..total /\ Len(log) = cursor /\ ~(cursor > 0)
    BY <2>1, <2>2
  <2>6. sessionExited \in BOOLEAN
    BY <2>2, Zenon
  <2> QED
    BY <2>1, <2>3, <2>4, <2>5, <2>6 DEF ReadInv
<1> QED
  BY <1>1, <1>3, <1>4 DEF OutputInv

(* More output, and another slice, leave alone what is known of the output *)
(* so far and of the slices taken.                                         *)
LEMMA UnfinishedStays ==
    ASSUME NEW n \in Nat, \A p \in 1..n : printed'[p] = printed[p] /\ opening'[p] = opening[p],
           NEW o, NEW p \in 0..n, Unfinished(o, p)
    PROVE  Unfinished(o, p)'
<1>1. /\ o \in 1..p /\ printed[o] = "esc"
      /\ \A q \in o..p : opening[q] = o
      /\ \A q \in o+1..p : printed[q] \notin Closers
      /\ p > o => \/ printed[o+1] = "osc"
                  \/ printed[o+1] = "csi" /\ \A q \in o+2..p : printed[q] = "body"
  BY DEF Unfinished
<1>2. \A q \in o..p : q \in 1..n
  BY <1>1
<1>3. (\A q \in o+1..p : q \in 1..n) /\ (\A q \in o+2..p : q \in 1..n) /\ (p > o => o + 1 \in 1..n)
  BY <1>1
<1>4. /\ o \in 1..p /\ printed'[o] = "esc"
      /\ \A q \in o..p : opening'[q] = o
      /\ \A q \in o+1..p : printed'[q] \notin Closers
      /\ p > o => \/ printed'[o+1] = "osc"
                  \/ printed'[o+1] = "csi" /\ \A q \in o+2..p : printed'[q] = "body"
  BY <1>1, <1>2, <1>3
<1> QED
  BY <1>4 DEF Unfinished

LEMMA FinishedStays ==
    ASSUME NEW n \in Nat, \A p \in 1..n : printed'[p] = printed[p] /\ opening'[p] = opening[p],
           NEW o \in Nat, NEW i \in 1..n, Finished(o, i)
    PROVE  Finished(o, i)'
<1>1. Unfinished(o, i-1) /\ i - 1 \in 0..n
  BY DEF Finished
<1>2. Unfinished(o, i-1)'
  BY <1>1, UnfinishedStays
<1>3. printed'[i] = printed[i] /\ (i > o + 1 => printed'[o+1] = printed[o+1])
  OBVIOUS
<1> QED
  BY <1>2, <1>3 DEF Finished

LEMMA InPlaceStays ==
    ASSUME NEW n \in Nat, \A p \in 1..n : printed'[p] = printed[p] /\ opening'[p] = opening[p],
           NEW p \in 1..n, InPlace(p)
    PROVE  InPlace(p)'
<1>1. printed'[p] = printed[p] /\ opening'[p] = opening[p]
      /\ (p > 1 => printed'[p-1] = printed[p-1] /\ opening'[p-1] = opening[p-1])
  <2>1. p > 1 => p - 1 \in 1..n
    OBVIOUS
  <2> QED
    BY <2>1
<1>2. opening[p] > 0 => Unfinished(opening[p], p)'
  <2>1. opening[p] > 0 => Unfinished(opening[p], p)
    BY DEF InPlace
  <2>2. p \in 0..n
    OBVIOUS
  <2> DEFINE o == opening[p]
  <2> HIDE DEF o
  <2>3. ASSUME Unfinished(o, p) PROVE /\ o \in 1..p /\ printed'[o] = "esc"
                                      /\ \A q \in o..p : opening'[q] = o
                                      /\ \A q \in o+1..p : printed'[q] \notin Closers
                                      /\ p > o => \/ printed'[o+1] = "osc"
                                                  \/ printed'[o+1] = "csi" /\ \A q \in o+2..p : printed'[q] = "body"
    <3>1. /\ o \in 1..p /\ printed[o] = "esc"
          /\ \A q \in o..p : opening[q] = o
          /\ \A q \in o+1..p : printed[q] \notin Closers
          /\ p > o => \/ printed[o+1] = "osc"
                      \/ printed[o+1] = "csi" /\ \A q \in o+2..p : printed[q] = "body"
      BY <2>3 DEF Unfinished
    <3>2. /\ \A q \in o..p : q \in 1..n
          /\ \A q \in o+1..p : q \in 1..n
          /\ \A q \in o+2..p : q \in 1..n
          /\ p > o => o + 1 \in 1..n
      BY <3>1
    <3> QED
      BY <3>1, <3>2
  <2> QED
    BY <1>1, <2>1, <2>3 DEF o, Unfinished
<1>3. ASSUME NEW o \in 1..p, opening'[o] = o, opening'[p] # o
      PROVE  \E i \in o+1..p : Finished(o, i)'
  <2>1. opening[o] = o /\ opening[p] # o /\ o \in Nat
    BY <1>1, <1>3
  <2>2. PICK i \in o+1..p : Finished(o, i)
    BY <2>1 DEF InPlace
  <2>3. i \in 1..n
    BY <2>1
  <2> QED
    BY <2>1, <2>2, <2>3, FinishedStays
<1> QED
  BY <1>1, <1>2, <1>3 DEF InPlace

LEMMA CutsStay ==
    ASSUME Wellformed, RingInv, ReadInv, NEW c \in cuts, cuts \subseteq cuts',
           Len(printed') \in Nat, Len(printed') >= Len(printed),
           \A p \in 1..Len(printed) : printed'[p] = printed[p] /\ opening'[p] = opening[p],
           \A p \in 1..cursor : log'[p] = log[p]
    PROVE  CutIsRight(c)'
<1> DEFINE p == c.at
           o == opening[p]
<1>1. /\ p \in 1..cursor /\ p \in 1..Len(printed) /\ CutIsRight(c) /\ Len(printed) \in Nat
      /\ cursor \in Nat /\ o \in Nat /\ printed'[p] = printed[p] /\ opening'[p] = o
  <2>1. p \in 1..cursor /\ CutIsRight(c) /\ cursor \in 0..total /\ total \in 0..Len(printed)
        /\ Len(printed) \in Nat
    BY DEF ReadInv, RingInv, Wellformed
  <2> HIDE DEF p
  <2>2. p \in 1..Len(printed)
    BY <2>1
  <2> QED
    BY <2>1, <2>2 DEF Wellformed
<1>2. o > 0 => o \in 1..p /\ o \in 1..cursor
  <2>1. o > 0 => Unfinished(o, p)
    BY <1>1 DEF Wellformed, InPlace
  <2> HIDE DEF o, p
  <2> QED
    BY <1>1, <2>1 DEF Unfinished
<1>3. o > 0 /\ MaySplit(p) => MaySplit(p)'
  BY <1>1, <1>2 DEF MaySplit
<1>4. p < Len(printed) => printed'[p + 1] = printed[p + 1] /\ p < Len(printed')
  <2>1. p < Len(printed) => p + 1 \in 1..Len(printed)
    BY <1>1
  <2> HIDE DEF p
  <2> QED
    BY <1>1, <2>1
<1>5. o = 0 \/ o > 0
  BY <1>1
<1> QED
  BY <1>1, <1>3, <1>4, <1>5 DEF CutIsRight

(* A step that leaves the output and its reader alone; the session may end.*)
LEMMA OutputUnchanged ==
    ASSUME OutputInv, UNCHANGED <<printed, opening, total, ring, writePos, cursor, log, cuts>>,
           sessionExited' \in BOOLEAN
    PROVE  OutputInv'
<1>1. Wellformed'
  BY DEF OutputInv, Wellformed, InPlace, Unfinished, Finished
<1>2. RingInv'
  BY DEF OutputInv, RingInv, slot, base, retained
<1>3. ReadInv'
  BY DEF OutputInv, ReadInv, CutIsRight, MaySplit
<1> QED
  BY <1>1, <1>2, <1>3 DEF OutputInv

LEMMA OutputReceives ==
    ASSUME OutputInv, NEW n, Receive(n)
    PROVE  OutputInv'
<1> USE DEF OutputInv
<1>1. /\ n \in 1..(Len(printed) - total) /\ append(SubSeq(printed, total + 1, total + n))
      /\ UNCHANGED <<printed, opening, cursor, log, cuts, sessionExited>>
  BY DEF Receive, session, reading, shown
<1>2. RingInv' /\ total' = total + n
  BY <1>1, AppendKeeps
<1>3. Wellformed'
  BY <1>1 DEF Wellformed, InPlace, Unfinished, Finished
<1>4. total \in Nat /\ n \in Nat /\ Len(printed) \in Nat
  BY <1>1 DEF RingInv, Wellformed
<1>5. ReadInv'
  BY <1>1, <1>2, <1>4 DEF ReadInv, CutIsRight, MaySplit
<1> QED
  BY <1>2, <1>3, <1>5

(* The program keeps its output whole.                                     *)
LEMMA WholePrints ==
    ASSUME Wellformed, NEW u \in Units, NEW n, n = Len(printed), NEW o, o = unfinished,
           MayFollow(u), NEW v, v = Leaves(u), printed'[n + 1] = u, opening'[n + 1] = v,
           \A p \in 1..n : printed'[p] = printed[p] /\ opening'[p] = opening[p]
    PROVE  v \in Nat /\ InPlace(n + 1)'
<1> DEFINE last == IF n = 0 THEN "x" ELSE printed[n]
<1>1. /\ n \in Nat /\ \A p \in 1..n : opening[p] \in Nat /\ InPlace(p)
      /\ n > 0 => n \in 1..n /\ last = printed[n] /\ o = opening[n] /\ n + 1 > 1 /\ n + 1 - 1 = n
      /\ n = 0 => last = "x" /\ o = 0
  BY DEF Wellformed, unfinished
<1>2. IF last = "lead" THEN u = "cont"
      ELSE IF o = 0 THEN u \in {"x", "lead", "cr", "esc"}
      ELSE IF o = n THEN u \in {"x", "csi", "osc"}
      ELSE IF last = "esc" THEN u = "st"
      ELSE IF printed[o + 1] = "csi" THEN u \in {"body", "x"}
      ELSE u \in {"body", "lead", "bel", "esc"}
  BY DEF MayFollow
<1>3. v = IF o = 0 THEN IF u = "esc" THEN n + 1 ELSE 0
          ELSE IF u \in Closers THEN 0 ELSE o
  BY DEF Leaves, Closers
<1> HIDE DEF last
<1>4. o \in Nat /\ v \in Nat /\ (n = 0 => o = 0) /\ (n = 0 \/ n > 0)
  BY <1>1, <1>3
<1>5. o > 0 => /\ Unfinished(o, n) /\ o \in 1..n
               /\ n > o => printed[o+1] = "osc"
                           \/ (printed[o+1] = "csi" /\ last \in {"csi", "body"})
               /\ n = o => last = "esc"
  <2> SUFFICES ASSUME o > 0
               PROVE  /\ Unfinished(o, n) /\ o \in 1..n
                      /\ n > o => printed[o+1] = "osc"
                                  \/ (printed[o+1] = "csi" /\ last \in {"csi", "body"})
                      /\ n = o => last = "esc"
    OBVIOUS
  <2>1. n > 0 /\ Unfinished(o, n)
    BY <1>1, <1>4 DEF InPlace
  <2>2. /\ o \in 1..n /\ printed[o] = "esc"
        /\ n > o => \/ printed[o+1] = "osc"
                    \/ printed[o+1] = "csi" /\ \A q \in o+2..n : printed[q] = "body"
    BY <2>1 DEF Unfinished
  <2>3. n > o => n = o + 1 \/ n \in o+2..n
    BY <1>1, <1>4
  <2> QED
    BY <1>1, <2>1, <2>2, <2>3
<1>6. o = 0 => last # "esc"
  BY <1>1, <1>4 DEF InPlace
<1>7. /\ u = "cont" <=> last = "lead"
      /\ u = "lead" => v = o
      /\ u = "cr" => v = 0 /\ o = 0
      /\ u = "esc" => v = n + 1 \/ (v = o /\ o > 0)
      /\ last = "esc" => IF o = n THEN u \in {"x", "csi", "osc"} ELSE u = "st"
      /\ u = "st" => last = "esc"
  BY <1>2, <1>3, <1>4, <1>5, <1>6 DEF Closers
<1>8. v > 0 => \/ v = n + 1 /\ u = "esc"
               \/ /\ v = o /\ u \notin Closers
                  /\ n = o => u \in {"csi", "osc"}
                  /\ n > o /\ printed[o+1] = "csi" => u = "body"
  BY <1>2, <1>3, <1>4, <1>5, <1>6 DEF Closers
<1>9. o > 0 /\ v # o => \/ n = o /\ u = "x"
                        \/ n > o /\ printed[o+1] = "csi" /\ u = "x"
                        \/ n > o /\ printed[o+1] = "osc" /\ u = "bel"
                        \/ n > o /\ u = "st"
  BY <1>2, <1>3, <1>4, <1>5, <1>6 DEF Closers
<1>10. o > 0 => Unfinished(o, n)'
  <2>1. n \in 0..n
    BY <1>1
  <2> QED
    BY <1>1, <1>5, <2>1, UnfinishedStays
<1>11. v > 0 => /\ v \in 1..n+1 /\ printed'[v] = "esc"
                /\ \A q \in v..n+1 : opening'[q] = v
                /\ \A q \in v+1..n+1 : printed'[q] \notin Closers
                /\ n + 1 > v => \/ printed'[v+1] = "osc"
                                \/ printed'[v+1] = "csi" /\ \A q \in v+2..n+1 : printed'[q] = "body"
  <2>1. CASE v = n + 1 /\ u = "esc"
    <3>1. /\ v \in 1..n+1 /\ printed'[v] = "esc"
          /\ \A q \in v..n+1 : opening'[q] = v
          /\ \A q \in v+1..n+1 : FALSE
          /\ ~(n + 1 > v)
      BY <1>1, <2>1
    <3> QED
      BY <3>1
  <2>2. CASE v > 0 /\ ~(v = n + 1 /\ u = "esc")
    <3>1. v = o /\ o \in 1..n /\ u \notin Closers
          /\ (n = o => u \in {"csi", "osc"}) /\ (n > o /\ printed[o+1] = "csi" => u = "body")
      BY <1>4, <1>5, <1>8, <2>2
    <3>2. /\ o \in 1..n /\ printed'[o] = "esc"
          /\ \A q \in o..n : opening'[q] = o
          /\ \A q \in o+1..n : printed'[q] \notin Closers
          /\ n > o => \/ printed'[o+1] = "osc"
                      \/ printed'[o+1] = "csi" /\ \A q \in o+2..n : printed'[q] = "body"
      BY <1>4, <1>10, <3>1 DEF Unfinished
    <3>3. \A q \in o..n+1 : opening'[q] = o
      <4>1. \A q \in o..n+1 : q \in o..n \/ q = n + 1
        BY <1>1, <1>4
      <4> QED
        BY <3>1, <3>2, <4>1
    <3>4. \A q \in o+1..n+1 : printed'[q] \notin Closers
      <4>1. \A q \in o+1..n+1 : q \in o+1..n \/ q = n + 1
        BY <1>1, <1>4
      <4> QED
        BY <3>1, <3>2, <4>1
    <3>5. \/ printed'[o+1] = "osc"
          \/ printed'[o+1] = "csi" /\ \A q \in o+2..n+1 : printed'[q] = "body"
      <4>1. CASE n = o
        <5>1. printed'[o+1] \in {"csi", "osc"} /\ \A q \in o+2..n+1 : FALSE
          BY <1>1, <1>4, <3>1, <4>1
        <5> QED
          BY <5>1
      <4>2. CASE n > o
        <5>1. (\A q \in o+2..n+1 : q \in o+2..n \/ q = n + 1) /\ o + 1 \in 1..n
          BY <1>1, <1>4, <4>2
        <5>2. printed'[o+1] = printed[o+1]
          BY <5>1
        <5> QED
          BY <3>1, <3>2, <4>2, <5>1, <5>2
      <4> QED
        BY <1>1, <1>4, <3>1, <4>1, <4>2
    <3>6. o \in 1..n+1
      BY <1>1, <3>1
    <3> QED
      BY <3>1, <3>2, <3>3, <3>4, <3>5, <3>6
  <2> QED
    BY <2>1, <2>2
<1>12. ASSUME NEW b \in 1..n+1, opening'[b] = b, v # b
       PROVE  \E i \in b+1..n+1 : Finished(b, i)'
  <2>1. b \in 1..n /\ b \in Nat /\ opening[b] = b /\ n > 0
    BY <1>1, <1>12
  <2>2. CASE \E i \in b+1..n : Finished(b, i)
    <3>1. PICK i \in b+1..n : Finished(b, i)
      BY <2>2
    <3>2. i \in 1..n /\ i \in b+1..n+1
      BY <1>1, <2>1
    <3>3. Finished(b, i)'
      BY <1>1, <2>1, <3>1, <3>2, FinishedStays
    <3> QED
      BY <3>2, <3>3
  <2>3. CASE ~\E i \in b+1..n : Finished(b, i)
    <3>1. o = b
      BY <1>1, <2>1, <2>3 DEF InPlace
    <3>2. n + 1 \in b+1..n+1 /\ n + 1 - 1 = n /\ b > 0 /\ Unfinished(b, n)'
      BY <1>1, <1>10, <2>1, <3>1
    <3>3. n > b => printed'[b+1] = printed[b+1]
      BY <1>1, <2>1
    <3>4. Unfinished(b, n + 1 - 1)'
      BY <3>2
    <3>5. \/ n + 1 = b + 1 /\ u = "x"
          \/ n + 1 > b + 1 /\ printed'[b+1] = "csi" /\ u = "x"
          \/ n + 1 > b + 1 /\ printed'[b+1] = "osc" /\ u = "bel"
          \/ n + 1 > b + 1 /\ u = "st"
      BY <1>1, <1>9, <1>12, <2>1, <3>1, <3>3
    <3>6. Finished(b, n + 1)'
      BY <3>4, <3>5 DEF Finished
    <3> QED
      BY <3>2, <3>6
  <2> QED
    BY <2>2, <2>3
<1>13. n > 0 => printed'[n] = printed[n] /\ opening'[n] = opening[n]
  BY <1>1
<1>14. InPlace(n + 1)'
  <2>1. /\ printed'[n+1] = "cont" <=> n + 1 > 1 /\ printed'[n+1-1] = "lead"
        /\ printed'[n+1] = "lead" /\ n + 1 > 1 => opening'[n+1] = opening'[n+1-1]
        /\ printed'[n+1] = "cr" => opening'[n+1] = 0 /\ (n + 1 > 1 => opening'[n+1-1] = 0)
        /\ printed'[n+1] = "esc" =>
              \/ opening'[n+1] = n + 1
              \/ n + 1 > 1 /\ opening'[n+1] = opening'[n+1-1] /\ opening'[n+1] > 0
        /\ n + 1 > 1 /\ printed'[n+1-1] = "esc" =>
              IF opening'[n+1-1] = n + 1 - 1 THEN printed'[n+1] \in {"x", "csi", "osc"}
              ELSE printed'[n+1] = "st"
        /\ printed'[n+1] = "st" => n + 1 > 1 /\ printed'[n+1-1] = "esc"
    BY <1>1, <1>4, <1>7, <1>13
  <2>2. \A b \in 1..n+1 : opening'[b] = b => opening'[n+1] = b \/ \E i \in b+1..n+1 : Finished(b, i)'
    BY <1>12
  <2> QED
    BY <1>11, <2>1, <2>2 DEF InPlace, Unfinished
<1> QED
  BY <1>4, <1>14

LEMMA OutputPrints ==
    ASSUME OutputInv, NEW u \in Units, ProgramPrints(u)
    PROVE  OutputInv'
<1> USE DEF OutputInv
<1>n. PICK n \in Nat : n = Len(printed)
  BY DEF Wellformed
<1>o. PICK o : o = unfinished
  OBVIOUS
<1>v. PICK v : v = Leaves(u)
  OBVIOUS
<1>1. /\ printed' = Append(printed, u) /\ opening' = Append(opening, v) /\ MayFollow(u)
      /\ UNCHANGED <<total, ring, writePos, cursor, log, cuts, sessionExited>>
  BY <1>v DEF ProgramPrints, session, output, reading
<1>2. /\ Len(printed) = n /\ Len(printed') = n + 1 /\ printed' \in Seq(Units)
      /\ \A p \in 1..n : printed'[p] = printed[p] /\ opening'[p] = opening[p]
      /\ printed'[n + 1] = u /\ opening'[n + 1] = v
  BY <1>1, <1>n DEF Wellformed
<1>3. v \in Nat /\ InPlace(n + 1)'
  BY <1>1, <1>2, <1>n, <1>o, <1>v, WholePrints
<1>4. Wellformed'
  <2>1. opening' \in Seq(Nat) /\ Len(opening') = n + 1
    <3>1. opening \in Seq(Nat) /\ Len(opening) = n /\ v \in Nat
      BY <1>2, <1>3 DEF Wellformed
    <3> HIDE DEF OutputInv
    <3> QED
      BY <1>1, <3>1
  <2>2. ASSUME NEW p \in 1..n PROVE InPlace(p)'
    <3>1. InPlace(p)
      BY <1>2 DEF Wellformed
    <3> QED
      BY <1>2, <3>1, InPlaceStays
  <2>3. \A p \in 1..n+1 : p \in 1..n \/ p = n + 1
    BY <1>2
  <2>4. \A p \in 1..n+1 : InPlace(p)'
    BY <1>3, <2>2, <2>3
  <2> QED
    BY <1>2, <2>1, <2>4 DEF Wellformed
<1>5. total \in 0..n /\ retained \in 0..Capacity /\ base = total - retained /\ base \in 0..total
      /\ Capacity \in Nat
  BY <1>2, RetainedFacts, TerminalAssumption DEF RingInv
<1>6. RingInv'
  <2>1. \A k \in 1..retained : printed'[base + k] = printed[base + k]
    BY <1>2, <1>5
  <2>2. \A k \in 1..retained : ring'[slot(k)] = printed'[base + k]
    BY <1>1, <2>1 DEF RingInv
  <2>3. retained' = retained /\ base' = base /\ \A k : slot(k)' = slot(k)
    BY <1>1 DEF retained, base, slot
  <2> HIDE DEF OutputInv
  <2>4. total' \in 0..Len(printed')
    BY <1>1, <1>2, <1>5
  <2> QED
    BY <1>1, <2>2, <2>3, <2>4 DEF RingInv, OutputInv
<1>7. ReadInv'
  <2>1. \A p \in 1..cursor : printed'[p] = printed[p]
    BY <1>2, <1>5 DEF ReadInv
  <2>2. \A c \in cuts : CutIsRight(c)'
    <3> TAKE c \in cuts
    <3>1. Len(printed') \in Nat /\ Len(printed') >= Len(printed)
      BY <1>2
    <3>2. cuts \subseteq cuts' /\ \A p \in 1..cursor : log'[p] = log[p]
      BY <1>1
    <3> QED
      BY <1>2, <3>1, <3>2, CutsStay
  <2> QED
    BY <1>1, <2>1, <2>2 DEF ReadInv
<1> QED
  BY <1>4, <1>6, <1>7

LEMMA OutputReads == OutputInv /\ Read => OutputInv'
<1> SUFFICES ASSUME OutputInv, Read PROVE OutputInv'
  OBVIOUS
<1> USE DEF OutputInv
<1>1. UNCHANGED <<printed, opening, total, ring, writePos, sessionExited>> /\ TakeSlice
  BY DEF Read, session, output, shown
<1>2. /\ cursor \in 0..total /\ total \in 0..Len(printed) /\ Len(printed) \in Nat /\ Len(log) = cursor
      /\ log \in Seq(Units \cup {"lost", "skipped"}) /\ printed \in Seq(Units)
  BY DEF ReadInv, RingInv, Wellformed
<1>3. PICK from \in 0..total, skip \in {0, 1}, end \in 0..total : SliceIs(from, skip, end)
  BY SlicesAreRight DEF SliceFacts
<1> DEFINE bytes == SubSeq(printed, from + skip + 1, from + end)
<1>4. /\ from \in cursor..total /\ end \in skip..(total - from)
      /\ ptySliceForCursor.bytes = bytes /\ ptySliceForCursor.nextCursor = from + end
      /\ ptySliceForCursor.lostBytes = from - cursor
  BY <1>3 DEF SliceIs
<1>5. bytes \in Seq(Units) /\ Len(bytes) = end - skip
      /\ \A i \in 1..end-skip : bytes[i] = printed[from + skip + i]
  <2> DEFINE f == from + skip
             g == from + end
  <2>1. f \in Nat /\ g \in Nat /\ f <= g /\ g <= Len(printed) /\ g - f = end - skip
    BY <1>2, <1>3, <1>4
  <2> HIDE DEF f, g
  <2>2. SubSeq(printed, f + 1, g) \in Seq(Units) /\ Len(SubSeq(printed, f + 1, g)) = g - f
        /\ \A i \in 1..g-f : SubSeq(printed, f + 1, g)[i] = printed[f + i]
    BY <1>2, <2>1
  <2> QED
    BY <2>1, <2>2 DEF f, g
<1> HIDE DEF bytes
<1> DEFINE S   == Units \cup {"lost", "skipped"}
           one == log \o Marks(from - cursor, "lost")
           two == one \o Marks(skip, "skipped")
<1>6. cursor' = from + end /\ log' = two \o bytes
      /\ cuts' = cuts \cup {[at |-> p, how |-> ptySliceForCursor.how] : p \in {from + end} \ {cursor}}
  <2>2. LET s == ptySliceForCursor
        IN /\ cursor' = s.nextCursor
           /\ log' = log \o Marks(s.lostBytes, "lost")
                         \o Marks(s.nextCursor - cursor - s.lostBytes - Len(s.bytes), "skipped") \o s.bytes
           /\ cuts' = cuts \cup {[at |-> p, how |-> s.how] : p \in {s.nextCursor} \ {cursor}}
    BY <1>1 DEF TakeSlice
  <2>3. ptySliceForCursor.nextCursor - cursor - ptySliceForCursor.lostBytes - Len(ptySliceForCursor.bytes)
           = skip
    <3>1. ASSUME NEW a, NEW b, NEW d, a = from + end, b = from - cursor, d = bytes
          PROVE  a - cursor - b - Len(d) = skip
      <4>1. Len(d) = end - skip /\ end \in Nat /\ skip \in Nat /\ from \in Nat /\ cursor \in Nat
        BY <1>2, <1>3, <1>5, <3>1
      <4> QED
        BY <3>1, <4>1
    <3> QED
      BY <1>4, <3>1, Zenon
  <2>4. log' = log \o Marks(from - cursor, "lost") \o Marks(skip, "skipped") \o bytes
    BY <1>4, <2>2, <2>3, Zenon
  <2>5. cuts' = cuts \cup {[at |-> p, how |-> ptySliceForCursor.how] : p \in {from + end} \ {cursor}}
    BY <1>4, <2>2, Zenon
  <2> QED
    BY <1>4, <2>2, <2>4, <2>5
<1>7. Marks(from - cursor, "lost") \in Seq(S) /\ Len(Marks(from - cursor, "lost")) = from - cursor
      /\ \A i \in 1..from-cursor : Marks(from - cursor, "lost")[i] = "lost"
  <2>1. from - cursor \in Nat
    BY <1>2, <1>4
  <2> QED
    BY <2>1 DEF Marks
<1>8. Marks(skip, "skipped") \in Seq(S) /\ Len(Marks(skip, "skipped")) = skip
      /\ \A i \in 1..skip : Marks(skip, "skipped")[i] = "skipped"
  <2>1. skip \in Nat
    OBVIOUS
  <2> QED
    BY <2>1 DEF Marks
<1>9. one \in Seq(S) /\ Len(one) = from
      /\ \A p \in 1..from : one[p] = IF p <= cursor THEN log[p] ELSE "lost"
  BY <1>2, <1>4, <1>7
<1> HIDE DEF one
<1>10. two \in Seq(S) /\ Len(two) = from + skip
       /\ \A p \in 1..from+skip : two[p] = IF p <= from THEN one[p] ELSE "skipped"
  BY <1>2, <1>4, <1>8, <1>9
<1> HIDE DEF two
<1>11. log' \in Seq(S) /\ Len(log') = from + end
       /\ \A p \in 1..from+end : log'[p] = IF p <= from + skip THEN two[p] ELSE bytes[p - from - skip]
  <2>1. bytes \in Seq(S)
    BY <1>5
  <2>2. from \in Nat /\ skip \in Nat /\ end \in Nat /\ skip <= end
    BY <1>2, <1>3, <1>4
  <2>3. log' \in Seq(S) /\ Len(log') = from + skip + (end - skip)
    <3>1. two \o bytes \in Seq(S) /\ Len(two \o bytes) = Len(two) + Len(bytes)
      BY <1>10, <2>1, ConcatProperties
    <3> QED
      BY <1>5, <1>6, <1>10, <3>1
  <2>4. ASSUME NEW p \in 1..from+end
        PROVE  log'[p] = IF p <= from + skip THEN two[p] ELSE bytes[p - from - skip]
    <3> DEFINE m == from + skip
    <3>1. p - m = p - from - skip /\ p \in 1..m + (end - skip) /\ m \in Nat
      BY <2>2
    <3>2. (two \o bytes)[p] = IF p <= m THEN two[p] ELSE bytes[p - m]
      BY <1>5, <1>10, <2>1, <2>2, <3>1
    <3> QED
      BY <1>6, <3>1, <3>2
  <2> QED
    BY <2>2, <2>3, <2>4
<1>12. ASSUME NEW p \in 1..cursor'
       PROVE  \/ log'[p] \in {printed[p], "lost"}
              \/ log'[p] = "skipped" /\ printed[p] = "cont" /\ p > 1 /\ log'[p-1] = "lost"
  <2>0. p \in 1..from+end /\ from \in Nat /\ skip \in Nat /\ end \in Nat /\ skip <= end /\ cursor \in Nat
    BY <1>2, <1>3, <1>4, <1>6
  <2>1. CASE p <= cursor
    <3>1. log'[p] = log[p]
      BY <1>4, <1>9, <1>10, <1>11, <2>0, <2>1
    <3>2. p > 1 => log'[p-1] = log[p-1]
      <4>1. p > 1 => p - 1 \in 1..cursor /\ p - 1 \in 1..from /\ p - 1 \in 1..from+skip /\ p - 1 \in 1..from+end
        BY <1>4, <2>0, <2>1
      <4> QED
        BY <1>9, <1>10, <1>11, <2>0, <4>1
    <3> QED
      BY <2>0, <2>1, <3>1, <3>2 DEF ReadInv
  <2>2. CASE p > cursor /\ p <= from
    BY <1>9, <1>10, <1>11, <2>0, <2>2
  <2>3. CASE p > from /\ p <= from + skip
    <3>1. skip = 1 /\ p = from + 1
      BY <2>0, <2>3
    <3>2. from > cursor /\ printed[p] = "cont"
      BY <1>3, <3>1 DEF SliceIs
    <3>3. log'[p] = "skipped"
      BY <1>10, <1>11, <2>0, <2>3
    <3>4. p - 1 = from /\ from \in 1..from /\ from \in 1..from+skip /\ from \in 1..from+end /\ p > 1
      BY <1>2, <2>0, <3>1, <3>2
    <3>5. log'[p-1] = "lost"
      BY <1>9, <1>10, <1>11, <2>0, <3>2, <3>4
    <3> QED
      BY <3>2, <3>3, <3>4, <3>5
  <2>4. CASE p > from + skip
    <3>1. p - from - skip \in 1..end-skip /\ from + skip + (p - from - skip) = p
      BY <2>0, <2>4
    <3> QED
      BY <1>5, <1>11, <2>0, <2>4, <3>1, SMTT(30)
  <2> QED
    BY <2>0, <2>1, <2>2, <2>3, <2>4
<1>13. from + end \in 0..total
  BY <1>2, <1>3, <1>4
<1> DEFINE P == from + end
           o == opening[P]
<1>14. \A p \in 1..cursor : log'[p] = log[p]
  <2> TAKE p \in 1..cursor
  <2>1. /\ p \in 1..from /\ p \in 1..from+skip /\ p \in 1..from+end
        /\ p <= from + skip /\ p <= from /\ p <= cursor
    BY <1>2, <1>3, <1>4
  <2>2. log'[p] = two[p]
    BY <1>11, <2>1
  <2>3. two[p] = one[p]
    BY <1>10, <2>1
  <2>4. one[p] = log[p]
    BY <1>9, <2>1
  <2> QED
    BY <2>2, <2>3, <2>4
<1>15. ASSUME P > cursor, ptySliceForCursor.how = "kept", o > 0
       PROVE  (P < Len(printed) /\ printed[P+1] = "esc") \/ MaySplit(P)'
  <2>1. P \in 1..Len(printed) /\ P \in Nat /\ P <= total /\ cursor \in Nat /\ from \in Nat
    BY <1>2, <1>3, <1>4, <1>13, <1>15
  <2>2. EndsWell(from + skip, P) /\ o \in Nat /\ opening'[P] = o
    BY <1>1, <1>3, <1>15, <2>1 DEF SliceIs, Wellformed
  <2>3. Unfinished(o, P)
    BY <1>15, <2>1 DEF Wellformed, InPlace
  <2> HIDE DEF P, o
  <2>4. /\ o \in 1..P /\ printed[o] = "esc" /\ \A q \in o..P : opening[q] = o
        /\ \A q \in o+1..P : printed[q] \notin Closers
    BY <2>3 DEF Unfinished
  <2>5. CASE P - o + 1 > MaxHoldback
    BY <2>2, <2>5 DEF MaySplit
  <2>6. CASE o > cursor /\ o <= from + skip
    <3>1. o # from + 1 \/ skip = 0
      BY <1>3, <2>4 DEF SliceIs
    <3>2. o <= from
      BY <2>1, <2>4, <2>6, <3>1
    <3>3. log'[o] = "lost"
      <4>1. o \in 1..from /\ o \in 1..from+skip /\ o \in 1..from+end
        BY <1>2, <1>3, <1>4, <2>1, <2>4, <3>2
      <4> QED
        BY <1>9, <1>10, <1>11, <2>1, <2>6, <4>1
    <3> QED
      BY <2>2, <3>3 DEF MaySplit
  <2>7. CASE o <= cursor
    <3>1. PICK c \in cuts : c.at = cursor
      BY <2>1, <2>4, <2>7 DEF ReadInv
    <3>2. cursor \in o..P /\ opening[cursor] = o /\ c \in cuts' /\ o \in 1..cursor
      BY <1>6, <1>15, <2>1, <2>4, <2>7
    <3>3. CASE c.how # "kept"
      BY <2>2, <3>1, <3>2, <3>3 DEF MaySplit
    <3>4. CASE c.how = "kept"
      <4>1. MaySplit(cursor) \/ (cursor < Len(printed) /\ printed[cursor + 1] = "esc")
        BY <1>15, <3>1, <3>2, <3>4 DEF ReadInv, CutIsRight
      <4>2. CASE MaySplit(cursor)
        <5>1. CASE cursor - o + 1 > MaxHoldback
          <6>1. MaxHoldback \in Nat
            BY TerminalAssumption
          <6>2. P - o + 1 > MaxHoldback
            BY <1>15, <2>1, <2>4, <5>1, <6>1
          <6> QED
            BY <2>2, <6>2 DEF MaySplit
        <5>2. CASE log[o] = "lost"
          BY <1>14, <2>2, <3>2, <5>2 DEF MaySplit
        <5>3. CASE \E d \in cuts : d.how # "kept" /\ d.at \in o..cursor
          <6>1. \A q \in o..cursor : q \in o..P
            BY <1>15, <2>1, <2>4
          <6>2. \E d \in cuts' : d.how # "kept" /\ d.at \in o..P
            BY <1>6, <5>3, <6>1
          <6> QED
            BY <2>2, <6>2 DEF MaySplit
        <5> QED
          BY <3>2, <4>2, <5>1, <5>2, <5>3 DEF MaySplit
      <4>3. CASE printed[cursor + 1] = "esc"
        <5> DEFINE e == cursor + 1
        <5>1. e \in o+1..P /\ e \in o..P /\ e # o /\ e > 1
          BY <1>15, <2>1, <2>4, <2>7
        <5>2. e # P
          BY <2>2, <4>3 DEF EndsWell
        <5>3. e + 1 \in o+1..P /\ e + 1 \in 1..Len(printed) /\ e + 1 > 1 /\ (e + 1) - 1 = e
          BY <1>2, <2>1, <2>4, <5>1, <5>2
        <5>4. printed[e] = "esc" /\ opening[e] = o /\ opening[e] # e
          BY <2>4, <4>3, <5>1
        <5> HIDE DEF e
        <5>5. InPlace(e + 1)
          BY <5>3 DEF Wellformed
        <5>6. printed[e + 1] = "st"
          BY <5>3, <5>4, <5>5 DEF InPlace
        <5>7. printed[e + 1] \notin Closers
          BY <2>4, <5>3
        <5>8. "st" \in Closers
          BY DEF Closers
        <5> QED
          BY <5>6, <5>7, <5>8
      <4> QED
        BY <4>1, <4>2, <4>3
    <3> QED
      BY <3>3, <3>4
  <2>8. o <= from + skip \/ P - o + 1 > MaxHoldback \/ (P < Len(printed) /\ printed[P + 1] = "esc")
    BY <2>2 DEF EndsWell, o
  <2> QED
    BY <2>1, <2>4, <2>5, <2>6, <2>7, <2>8
<1>16. ASSUME NEW c \in cuts', c \notin cuts
       PROVE  CutIsRight(c)' /\ c.at \in 1..cursor' /\ c.how \in {"kept", "page", "last"}
  <2>1. P \in Nat /\ cursor \in Nat /\ P >= cursor /\ cursor' = P
    BY <1>2, <1>3, <1>4, <1>6
  <2>2. c = [at |-> P, how |-> ptySliceForCursor.how] /\ P # cursor
    BY <1>6, <1>16
  <2>3. c.at = P /\ c.how = ptySliceForCursor.how /\ P > cursor /\ P \in 1..cursor'
    BY <2>1, <2>2
  <2>4. c.how \in {"kept", "page", "last"}
    BY <1>3, <2>3 DEF SliceIs
  <2>5. c.how = "kept" => printed[P] \notin {"lead", "esc"}
    BY <1>3, <2>3 DEF SliceIs, EndsWell
  <2>6. o \in Nat
    <3>1. P \in 1..Len(printed)
      BY <1>2, <1>13, <2>1, <2>3
    <3> QED
      BY <3>1 DEF Wellformed
  <2>7. c.how = "page" => o > 0 /\ P - o + 1 >= MaxBytes - 2
    <3>1. from \in Nat /\ end \in Nat /\ MaxBytes \in Nat
      BY <1>2, TerminalAssumption
    <3>2. c.how = "page" => o > 0 /\ from + end - o + 1 >= MaxBytes - 2
      BY <1>3, <2>3 DEF SliceIs
    <3> HIDE DEF o
    <3> QED
      BY <2>6, <3>1, <3>2
  <2>8. c.how = "kept" => o = 0 \/ MaySplit(P)' \/ (P < Len(printed) /\ printed[P + 1] = "esc")
    BY <1>15, <2>3, <2>6
  <2>9. opening' = opening /\ printed' = printed
    BY <1>1
  <2> HIDE DEF OutputInv
  <2>10. CutIsRight(c)'
    BY <2>3, <2>5, <2>7, <2>8, <2>9 DEF CutIsRight
  <2> QED
    BY <2>3, <2>4, <2>10
<1>17. ASSUME NEW c \in cuts
       PROVE  CutIsRight(c)' /\ c.at \in 1..cursor' /\ c.how \in {"kept", "page", "last"}
  <2>1. CutIsRight(c)'
    <3>1. Len(printed') \in Nat /\ Len(printed') >= Len(printed) /\ cuts \subseteq cuts'
          /\ \A p \in 1..Len(printed) : printed'[p] = printed[p] /\ opening'[p] = opening[p]
      BY <1>1, <1>2, <1>6
    <3> QED
      BY <1>14, <3>1, CutsStay
  <2>2. c.at \in 1..cursor /\ c.how \in {"kept", "page", "last"}
    BY DEF ReadInv
  <2>3. cursor' \in Nat /\ cursor' >= cursor
    BY <1>2, <1>3, <1>4, <1>6
  <2>4. c.at \in 1..cursor'
    BY <1>2, <2>2, <2>3
  <2> QED
    BY <2>1, <2>2, <2>4
<1>18. cursor' > 0 => \E c \in cuts' : c.at = cursor'
  <2>1. CASE from + end = cursor
    BY <1>6, <2>1 DEF ReadInv
  <2>2. CASE from + end # cursor
    <3> DEFINE d == [at |-> from + end, how |-> ptySliceForCursor.how]
    <3>1. d \in cuts' /\ d.at = cursor'
      BY <1>6, <2>2
    <3> QED
      BY <3>1
  <2> QED
    BY <2>1, <2>2
<1>19. ReadInv'
  <2>1. cursor' \in 0..total' /\ log' \in Seq(S) /\ Len(log') = cursor' /\ sessionExited' \in BOOLEAN
    BY <1>1, <1>6, <1>11, <1>13 DEF ReadInv
  <2>2. \A c \in cuts' : CutIsRight(c)' /\ c.at \in 1..cursor' /\ c.how \in {"kept", "page", "last"}
    BY <1>16, <1>17
  <2>3. printed' = printed
    BY <1>1
  <2> HIDE DEF OutputInv
  <2> QED
    BY <1>12, <1>18, <2>1, <2>2, <2>3 DEF ReadInv
<1>20. Wellformed' /\ RingInv'
  <2>1. UNCHANGED <<printed, opening, total, ring, writePos>> /\ Wellformed /\ RingInv
    BY <1>1
  <2> HIDE DEF OutputInv
  <2>2. Wellformed'
    BY <2>1 DEF Wellformed, InPlace, Unfinished, Finished
  <2>3. RingInv'
    BY <2>1 DEF RingInv, slot, base, retained
  <2> QED
    BY <2>2, <2>3
<1> QED
  BY <1>19, <1>20

LEMMA OutputNext == OutputInv /\ [TerminalNext]_terminalVars => OutputInv'
<1> SUFFICES ASSUME OutputInv, [TerminalNext]_terminalVars PROVE OutputInv'
  OBVIOUS
<1> USE DEF session, output, reading, shown
<1>1. ASSUME UNCHANGED <<shown, output, reading>>,
             sessionExited' = sessionExited \/ sessionExited' = TRUE
      PROVE  OutputInv'
  BY <1>1, OutputUnchanged DEF OutputInv, ReadInv
<1>2. CASE Helper
  BY <1>1, <1>2 DEF Helper, HelperControls, HelperTypes, HelperReports
<1>3. CASE Bridge
  <2>1. CASE ReadEvent
    BY <1>1, <2>1 DEF ReadEvent, markPtyExited
  <2>2. CASE WriteBreaks
    BY <1>1, <2>2 DEF WriteBreaks, markPtyExited
  <2> QED
    BY <1>3, <2>1, <2>2, OutputReceives DEF Bridge
<1>4. CASE Read
  BY <1>4, OutputReads
<1>5. CASE Clients
  <2>1. ASSUME NEW c, Turned(c) \/ Control(c) \/ TimesOut(c)
                      \/ WriteShort(c) \/ WriteProbes(c) \/ WriteRefused(c)
        PROVE  UNCHANGED <<shown, output, reading, sessionExited>>
    BY <2>1 DEF Turned, Control, TimesOut, WriteShort, WriteProbes, WriteRefused
  <2> QED
    BY <1>1, <1>5, <2>1 DEF Clients
<1>6. CASE Program
  <2>1. CASE ProgramSwitchesMode \/ LeaderExits
    BY <1>1, <2>1 DEF ProgramSwitchesMode, LeaderExits
  <2> QED
    BY <1>6, <2>1, OutputPrints DEF Program, Units
<1>7. CASE UNCHANGED terminalVars
  BY <1>1, <1>7 DEF terminalVars
<1> QED
  BY <1>2, <1>3, <1>4, <1>5, <1>6, <1>7 DEF TerminalNext

LEMMA TerminalInvariant == TerminalSpec => [](ControlInv /\ InputInv /\ OutputInv)
<1>1. TerminalInit => ControlInv /\ InputInv /\ OutputInv
  BY ControlInit, InputInit, OutputInit
<1>2. (ControlInv /\ InputInv /\ OutputInv) /\ [TerminalNext]_terminalVars
         => (ControlInv /\ InputInv /\ OutputInv)'
  BY ControlNext, InputNext, OutputNext
<1> QED
  BY <1>1, <1>2, PTL DEF TerminalSpec

(* A control operation ends with what the helper did for that operation,   *)
(* whatever is late or given up: settlePtyAck never confirms one resize    *)
(* with the answer to another.  Once no answer is under way, the size the  *)
(* session reports is the terminal's.                                      *)
THEOREM AnswersReachTheirCalls == TerminalSpec => []AnswersAreOwn
<1>1. ControlInv /\ InputInv /\ OutputInv => AnswersAreOwn
  <2> SUFFICES ASSUME ControlInv, InputInv, OutputInv PROVE AnswersAreOwn
    OBVIOUS
  <2>1. TerminalTypeOK
    BY DEF TerminalTypeOK, ControlInv, ControlTypes, InputInv, InputTypes, OutputInv, RingInv, ReadInv
  <2>2. (\A i \in 1..Len(events) : events[i].id = "exited" \/ Op[events[i].id].kind # "resize")
           => cols = winsize
    BY DEF ControlInv, SizeInv, resized
  <2> QED
    BY <2>1, <2>2 DEF AnswersAreOwn, ControlInv, OutcomesInv
<1> QED
  BY <1>1, TerminalInvariant, PTL

(* What pty_write let through, by counting the open line or by asking the  *)
(* helper for the mode, the line discipline does not drop.                 *)
THEOREM NothingIsDroppedSilently == TerminalSpec => []NoSilentDiscard
<1>1. InputInv => NoSilentDiscard
  BY DEF InputInv, NoSilentDiscard
<1> QED
  BY <1>1, TerminalInvariant, PTL

(* A reader that follows nextCursor accounts for every unit of output once *)
(* and in order, whatever the ring overwrote; and it gets on.  A slice     *)
(* that held back what it should splits no code point, and an escape       *)
(* sequence only before the terminator of an OSC, or if it is longer than  *)
(* ANSI_MAX_HOLDBACK, or broken already; one that gave way to the progress *)
(* guarantee lay inside a sequence nearly a page long.                     *)
THEOREM TranscriptHolds == TerminalSpec => []TranscriptIsWhole
<1>1. OutputInv => TranscriptIsWhole
  <2> SUFFICES ASSUME OutputInv PROVE TranscriptIsWhole
    OBVIOUS
  <2>1. SliceFacts
    BY SlicesAreRight DEF OutputInv
  <2> QED
    BY <2>1 DEF TranscriptIsWhole, SliceFacts, OutputInv, ReadInv, CutIsRight
<1> QED
  BY <1>1, TerminalInvariant, PTL
=============================================================================
