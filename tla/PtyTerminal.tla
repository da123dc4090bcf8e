----------------------------- MODULE PtyTerminal -----------------------------
(***************************************************************************)
(* What a client does with one pseudo-terminal session of src/bridge.mjs:  *)
(* pty_read, pty_write, pty_resize and pty_signal, the ring that keeps the *)
(* output, and the acknowledgements of the helper, src/lib/ptyhelper.pl.   *)
(* How a session starts and ends is PtySessions' matter.                   *)
(*                                                                         *)
(* Bridge and helper share four pipes.  Nothing orders one pipe against    *)
(* another: a probe overtakes the bytes written before it, and the line    *)
(* that reports the program's end overtakes the program's last output.     *)
(*                                                                         *)
(* The output is a sequence of units.  "lead" and the "cont" after it are  *)
(* the bytes of one code point, "cr" a carriage return.  An "esc" opens a  *)
(* sequence of two units when an "x" follows it, a CSI when a "csi" does,  *)
(* which its "x" ends, and an OSC when an "osc" does, which ends with a    *)
(* "bel" or with an "esc" and a "st"; "body" is a byte of a CSI or an OSC, *)
(* and an OSC may hold code points.  Any other "x" is a plain byte.  A     *)
(* program ends the sequences it begins.  The input is a sequence of "b"   *)
(* and "nl", a byte and a line terminator.                                 *)
(*                                                                         *)
(* Of the terminal the program changes the mode only, icanon: it does not  *)
(* resize it (stty cols), ICRNL stays on, it types no LNEXT, and input it  *)
(* has not read in raw mode is not taken for a line when it leaves it.     *)
(***************************************************************************)
EXTENDS Integers, Sequences, FiniteSetsExt

CONSTANTS Op,         \* function: what each call asks, [kind, arg]
          Scenarios,  \* bound: the calls made, and how often the program
                      \* prints and changes its terminal mode
          MaxCanon,   \* PTY_MAX_CANON
          Capacity,   \* PTY_RING_BYTES
          MaxBytes,   \* max_bytes of every pty_read, at least 1024
          MaxHoldback \* ANSI_MAX_HOLDBACK

PtyCalls == DOMAIN Op

ASSUME TerminalAssumption ==
    /\ MaxCanon \in Nat \ {0} /\ Capacity \in Nat \ {0}
    /\ MaxBytes \in Nat /\ MaxBytes > 3
    /\ MaxHoldback \in Nat \ {0}
    /\ "exited" \notin PtyCalls
    /\ \A c \in PtyCalls :
          \/ Op[c].kind \in {"resize", "signal"}
          \/ Op[c].kind = "termios" /\ Op[c].arg \in Seq({"b", "nl"})

VARIABLES
    script,              \* what remains of the scenario
    sessionExited,       \* session.exited
    cols,                \* session.cols and session.rows
    canonPendingBytes,
    total, ring, writePos,              \* the ring
    status,              \* where each call stands
    ctl, stdin, events,  \* pipes: control operations, input, status lines
    helperAlive, leader, \* the helper and the program are alive
    winsize, icanon, line,  \* kernel: geometry, mode, bytes of the open line
    printed,             \* everything the program has printed
    opening,             \* for each unit of it, the position of the "esc" of
                         \* the sequence it leaves unfinished, 0 if none
    cursor,              \* the reader's next cursor
    log, cuts,           \* history: what the reader made of each position,
                         \* and where its slices ended, and how
    did,                 \* history: what the helper did for each call
    discarded,           \* history: writes the line discipline dropped
    switched             \* history: the mode changed under a probe

session  == <<sessionExited, cols, canonPendingBytes>>
output   == <<total, ring, writePos>>
pipes    == <<ctl, stdin, events>>
shown    == <<printed, opening>>
terminal == <<helperAlive, leader, winsize, icanon, line>>
reading  == <<cursor, log, cuts>>
history  == <<did, discarded, switched>>
terminalVars == <<script, session, output, status, pipes, terminal, shown, reading, history>>

TerminalInit ==
    /\ script \in Scenarios
    /\ sessionExited = FALSE /\ cols = 0 /\ canonPendingBytes = 0
    /\ total = 0 /\ ring = [i \in 0..Capacity-1 |-> "x"] /\ writePos = 0
    /\ status = [c \in PtyCalls |-> "idle"]
    /\ ctl = <<>> /\ stdin = <<>> /\ events = <<>>
    /\ helperAlive = TRUE /\ leader = TRUE
    /\ winsize = 0 /\ icanon = TRUE /\ line = 0
    /\ printed = <<>> /\ opening = <<>>
    /\ cursor = 0 /\ log = <<>> /\ cuts = {}
    /\ did = [c \in PtyCalls |-> "none"] /\ discarded = {} /\ switched = FALSE

-----------------------------------------------------------------------------
(***************************************************************************)
(* The ring, addressed by absolute offsets from 0.                         *)
(***************************************************************************)
retained == Min({total, Capacity})
base     == total - retained

Overwrite(data) ==
    [i \in 0..Capacity-1 |->
        LET k == 1 + ((i - writePos + Capacity) % Capacity)
        IN IF k <= Len(data) THEN data[k] ELSE ring[i]]

appendUnclipped(chunk) ==                                         \* mutant
    /\ total' = total + Len(chunk)
    /\ ring' = Overwrite(SubSeq(chunk, Len(chunk) - Min({Len(chunk), Capacity}) + 1, Len(chunk)))
    /\ writePos' = (writePos + Len(chunk)) % Capacity

(* A chunk larger than the ring keeps its newest bytes.                    *)
append(chunk) ==
    LET kept == Min({Len(chunk), Capacity})
    IN /\ total' = total + Len(chunk)
       /\ ring' = Overwrite(SubSeq(chunk, Len(chunk) - kept + 1, Len(chunk)))
       /\ writePos' = (writePos + kept) % Capacity

copy(from, length) ==
    LET start == (writePos - retained + (from - base) + 2 * Capacity) % Capacity
    IN [k \in 1..length |-> ring[(start + k - 1) % Capacity]]

-----------------------------------------------------------------------------
(***************************************************************************)
(* ptySliceForCursor.                                                      *)
(***************************************************************************)
alignUtf8Start(raw) ==
    Max({i \in 0..Len(raw) : \A k \in 1..i : raw[k] = "cont"})

alignUtf8End(raw, end) == IF end > 0 /\ raw[end] = "lead" THEN end - 1 ELSE end

(* The sequence that begins at k ends before the slice does.  Anything but *)
(* an OSC or a CSI counts as two units.                                    *)
ansiSequenceComplete(raw, k, end) ==
    /\ k < end
    /\ raw[k+1] = "osc" =>
          \E i \in k+2..end :
             /\ raw[i] = "bel" \/ (raw[i] = "esc" /\ i < end /\ raw[i+1] = "st")
             /\ \A j \in k+2..i-1 : raw[j] \notin {"bel", "esc"}
    /\ raw[k+1] = "csi" =>
          \E i \in k+2..end : raw[i] = "x" /\ \A j \in k+2..i-1 : raw[j] = "body"

(* Only the last "esc" counts, and only near the end.                      *)
trimPartialAnsi(raw, start, end) ==
    LET escs == {k \in Max({start, end - MaxHoldback})+1..end : raw[k] = "esc"}
    IN IF escs = {} \/ ansiSequenceComplete(raw, Max(escs), end) THEN end ELSE Max(escs) - 1

HoldBack(raw, start) ==
    LET end == trimPartialAnsi(raw, start, alignUtf8End(raw, Len(raw)))
    IN IF end > start /\ raw[end] = "cr" THEN end - 1 ELSE end

SliceEnd(raw, start, moreFollows) ==
    IF moreFollows \/ ~sessionExited THEN HoldBack(raw, start) ELSE Len(raw)

ptySliceForCursor ==
    LET from  == Min({Max({cursor, base}), total})
        lost  == Max({0, base - cursor})
        want  == Min({MaxBytes, total - from})
        raw   == copy(from, want)
        start == IF lost > 0 THEN alignUtf8Start(raw) ELSE 0
        more  == from + want < total
        held  == SliceEnd(raw, start, more)
        stuck == held <= start /\ want > 0 /\ more
        end   == IF stuck THEN want ELSE Max({held, start})
    IN [bytes |-> SubSeq(raw, start + 1, end), nextCursor |-> from + end, lostBytes |-> lost,
        how |-> IF stuck THEN "page" ELSE IF sessionExited /\ ~more THEN "last" ELSE "kept"]

-----------------------------------------------------------------------------
(***************************************************************************)
(* Acknowledgements.  A control operation is known by the call that sent   *)
(* it; its answer carries the same id.                                     *)
(***************************************************************************)
Settle(W, result) == [c \in PtyCalls |-> IF c \in W THEN result ELSE status[c]]
Asking == {c \in PtyCalls : status[c] = "asking"}

WaitersOfKind(e) == {c \in Asking : Op[c].kind = Op[e.id].kind}   \* mutant

(* The waiter settlePtyAck finds.                                          *)
Waiters(e) == {c \in Asking : c = e.id}

markPtyExited == sessionExited' = TRUE /\ status' = Settle(Asking, "exited")

(* sendPtyControl: arm the waiter, then write.  Once the helper is gone    *)
(* the pipe may be known to be closed, or swallow the operation.           *)
sendPtyControl(c) ==
    \/ /\ status' = [status EXCEPT ![c] = "asking"]
       /\ ctl' = IF helperAlive THEN Append(ctl, c) ELSE ctl
    \/ /\ ~helperAlive
       /\ status' = [status EXCEPT ![c] = "exited"] /\ UNCHANGED ctl

TimesOut(c) ==                   \* PTY_ACK_TIMEOUT_MS
    /\ c \in Asking /\ status' = [status EXCEPT ![c] = "unconfirmed"]
    /\ UNCHANGED <<script, session, output, pipes, terminal, shown, reading, history>>

-----------------------------------------------------------------------------
(***************************************************************************)
(* The calls.                                                              *)
(***************************************************************************)
Made(c) == status[c] = "idle" /\ c \in script.calls

Turned(c) ==                     \* PTY_EXITED at the door
    /\ Made(c) /\ sessionExited
    /\ status' = [status EXCEPT ![c] = "exited"]
    /\ UNCHANGED <<script, session, output, pipes, terminal, shown, reading, history>>

Control(c) ==                    \* pty_resize, pty_signal
    /\ Made(c) /\ ~sessionExited /\ Op[c].kind \in {"resize", "signal"}
    /\ sendPtyControl(c)
    /\ UNCHANGED <<script, session, output, stdin, events, terminal, shown, reading, history>>

(* canonicalRuns of a payload.                                             *)
Breaks(p)        == {i \in 1..Len(p) : p[i] = "nl"}
first(p)         == Min(Breaks(p) \cup {Len(p) + 1}) - 1
trailing(p)      == Len(p) - Max(Breaks(p) \cup {0})
longest(p)       == Max({n \in 0..Len(p) : \E s \in 0..Len(p)-n :
                            (s+1)..(s+n) \cap Breaks(p) = {}})

longestLineRun(p) == Max({canonPendingBytes + first(p), longest(p)})

carriedForgetful(p) == trailing(p)                                \* mutant

(* What the write leaves for the next one to continue.                     *)
carried(p) == IF Breaks(p) # {} THEN trailing(p) ELSE canonPendingBytes + Len(p)

(* stdin.write; a payload that was let through on the strength of a probe  *)
(* is marked.                                                              *)
Send(c, probed) ==
    stdin' = IF helperAlive THEN Append(stdin, [id |-> c, probed |-> probed]) ELSE stdin

WriteShort(c) ==
    LET p == Op[c].arg
    IN /\ Made(c) /\ ~sessionExited /\ Op[c].kind = "termios"
       /\ longestLineRun(p) < MaxCanon
       /\ Send(c, FALSE) /\ canonPendingBytes' = carried(p)
       /\ status' = [status EXCEPT ![c] = "ok"]
       /\ UNCHANGED <<script, sessionExited, cols, output, ctl, events, terminal, shown,
                      reading, history>>

WriteProbes(c) ==
    /\ Made(c) /\ ~sessionExited /\ Op[c].kind = "termios"
    /\ longestLineRun(Op[c].arg) >= MaxCanon
    /\ sendPtyControl(c)
    /\ UNCHANGED <<script, session, output, stdin, events, terminal, shown, reading, history>>

(* PTY_WRITE_BLOCKED, or a stream that is no longer writable.              *)
WriteRefused(c) ==
    /\ Made(c) /\ ~sessionExited /\ Op[c].kind = "termios"
    /\ Len(stdin) > 1 \/ ~helperAlive
    /\ status' = [status EXCEPT ![c] = "refused"]
    /\ UNCHANGED <<script, session, output, pipes, terminal, shown, reading, history>>

(* The 'error' of a stdin whose reader is gone, after an accepted write.   *)
WriteBreaks ==
    /\ ~helperAlive /\ ~sessionExited
    /\ \E c \in PtyCalls : Op[c].kind = "termios" /\ status[c] = "ok"
    /\ markPtyExited
    /\ UNCHANGED <<script, cols, canonPendingBytes, output, pipes, terminal, shown, reading, history>>

-----------------------------------------------------------------------------
(***************************************************************************)
(* Status lines reach the bridge; the call an answer settles goes on       *)
(* before anything else runs.                                              *)
(***************************************************************************)
Outcome(c, e) ==
    IF ~e.ok \/ (Op[c].kind = "resize" /\ e.size # Op[c].arg) THEN "failed"
    ELSE IF Op[c].kind = "termios" /\ e.icanon THEN "refused" ELSE "ok"

Answered(e) ==
    IF Waiters(e) = {} THEN UNCHANGED <<status, stdin, canonPendingBytes>>
    ELSE \E c \in Waiters(e) :
            /\ status' = [status EXCEPT ![c] = Outcome(c, e)]
            /\ IF Op[c].kind = "termios" /\ Outcome(c, e) = "ok"
               THEN Send(c, TRUE) /\ canonPendingBytes' = 0
               ELSE UNCHANGED <<stdin, canonPendingBytes>>

ReadEvent ==
    /\ events # <<>>
    /\ events' = Tail(events)
    /\ LET e == Head(events)
       IN IF e.id = "exited"
          THEN markPtyExited /\ UNCHANGED <<cols, canonPendingBytes, stdin>>
          ELSE /\ cols' = IF Op[e.id].kind = "resize" /\ e.ok THEN e.size ELSE cols
               /\ Answered(e) /\ UNCHANGED sessionExited
    /\ UNCHANGED <<script, output, ctl, terminal, shown, reading, history>>

-----------------------------------------------------------------------------
(***************************************************************************)
(* pty_read, by a client that follows nextCursor.  A repeated read takes   *)
(* nothing away; one with wait_ms is a read made later, when output or its *)
(* timer wakes it.                                                         *)
(***************************************************************************)
Marks(n, mark) == [i \in 1..n |-> mark]

(* One slice, as its reader sees it: what is neither returned nor counted  *)
(* in lostBytes was skipped.                                               *)
TakeSlice ==
    \E s \in {ptySliceForCursor} :
       LET skipped == s.nextCursor - cursor - s.lostBytes - Len(s.bytes)
       IN /\ cursor' = s.nextCursor
          /\ log' = log \o Marks(s.lostBytes, "lost") \o Marks(skipped, "skipped") \o s.bytes
          /\ cuts' = cuts \cup {[at |-> p, how |-> s.how] : p \in {s.nextCursor} \ {cursor}}

Read ==
    /\ script.reads /\ TakeSlice
    /\ UNCHANGED <<script, session, output, status, pipes, terminal, shown, history>>

(* The 'data' listener of the helper's stdout.                             *)
Receive(n) ==
    /\ n \in 1..(Len(printed) - total)
    /\ append(SubSeq(printed, total + 1, total + n))
    /\ UNCHANGED <<script, session, status, pipes, terminal, shown, reading, history>>

-----------------------------------------------------------------------------
(***************************************************************************)
(* The helper, the line discipline and the program.                        *)
(***************************************************************************)
HelperControls ==
    /\ helperAlive /\ ctl # <<>>
    /\ ctl' = Tail(ctl)
    /\ LET c == Head(ctl)
           size == IF leader /\ Op[c].kind = "resize" THEN Op[c].arg ELSE winsize
       IN /\ winsize' = size
          /\ events' = Append(events, [id |-> c, ok |-> leader, size |-> size,
                                       icanon |-> leader /\ icanon])
          /\ did' = [did EXCEPT ![c] = IF ~leader THEN "failed"
                                       ELSE IF Op[c].kind = "termios" /\ icanon THEN "refused"
                                       ELSE "ok"]
    /\ UNCHANGED <<script, session, output, status, stdin, helperAlive, leader, icanon, line,
                   shown, reading, discarded, switched>>

(* A canonical line of MaxCanon bytes or more never reaches the program.   *)
HelperTypes ==
    /\ helperAlive /\ stdin # <<>>
    /\ stdin' = Tail(stdin)
    /\ LET c == Head(stdin).id
           p == Op[c].arg
           whole == Max({line + first(p), longest(p)}) < MaxCanon
       IN IF icanon /\ leader
          THEN /\ discarded' = IF whole \/ switched THEN discarded ELSE discarded \cup {c}
               /\ line' = IF Breaks(p) # {} THEN trailing(p) ELSE line + Len(p)
          ELSE UNCHANGED <<discarded, line>>
    /\ UNCHANGED <<script, session, output, status, ctl, events, helperAlive, leader, winsize,
                   icanon, shown, reading, did, switched>>

(* reap: the report, then what the terminal still holds, then the end.     *)
HelperReports ==
    /\ helperAlive /\ ~leader
    /\ helperAlive' = FALSE
    /\ events' = Append(events, [id |-> "exited"])
    /\ UNCHANGED <<script, session, output, status, ctl, stdin, leader, winsize, icanon, line,
                   shown, reading, history>>

Units == {"x", "lead", "cont", "cr", "esc", "csi", "osc", "body", "bel", "st"}

(* What may follow the output so far, and what it then leaves unfinished.  *)
unfinished == IF printed = <<>> THEN 0 ELSE opening[Len(printed)]

MayFollow(u) ==
    LET n    == Len(printed)
        last == IF n = 0 THEN "x" ELSE printed[n]
    IN IF last = "lead" THEN u = "cont"
       ELSE IF unfinished = 0 THEN u \in {"x", "lead", "cr", "esc"}
       ELSE IF unfinished = n THEN u \in {"x", "csi", "osc"}
       ELSE IF last = "esc"   THEN u = "st"
       ELSE IF printed[unfinished + 1] = "csi" THEN u \in {"body", "x"}
       ELSE u \in {"body", "lead", "bel", "esc"}

Leaves(u) ==
    IF unfinished = 0 THEN IF u = "esc" THEN Len(printed) + 1 ELSE 0
    ELSE IF u \in {"x", "bel", "st"} THEN 0 ELSE unfinished

ProgramPrints(u) ==
    /\ leader /\ script.prints > 0
    /\ MayFollow(u)
    /\ printed' = Append(printed, u) /\ opening' = Append(opening, Leaves(u))
    /\ script' = [script EXCEPT !.prints = @ - 1]
    /\ UNCHANGED <<session, output, status, pipes, terminal, reading, history>>

Probing == {c \in Asking : Op[c].kind = "termios"}
           \cup {stdin[i].id : i \in {j \in 1..Len(stdin) : stdin[j].probed}}

ProgramSwitchesMode ==
    /\ leader /\ script.switches > 0
    /\ script' = [script EXCEPT !.switches = @ - 1]
    /\ icanon' = ~icanon /\ line' = 0
    /\ switched' = (switched \/ (icanon' /\ Probing # {}))
    /\ UNCHANGED <<session, output, status, pipes, helperAlive, leader, winsize, shown,
                   reading, did, discarded>>

LeaderExits ==
    /\ leader /\ leader' = FALSE
    /\ UNCHANGED <<script, session, output, status, pipes, helperAlive, winsize, icanon, line,
                   shown, reading, history>>

-----------------------------------------------------------------------------
Helper == HelperControls \/ HelperTypes \/ HelperReports
Bridge == \/ ReadEvent \/ WriteBreaks
          \/ \E n \in 1..Len(printed) : Receive(n)
Clients == \E c \in PtyCalls : \/ Turned(c) \/ Control(c) \/ TimesOut(c)
                                \/ WriteShort(c) \/ WriteProbes(c) \/ WriteRefused(c)
Program == \/ ProgramSwitchesMode \/ LeaderExits
           \/ \E u \in Units : ProgramPrints(u)

TerminalNext == Helper \/ Bridge \/ Read \/ Clients \/ Program

TerminalSpec == TerminalInit /\ [][TerminalNext]_terminalVars

-----------------------------------------------------------------------------
TerminalTypeOK ==
    /\ status \in [PtyCalls -> {"idle", "asking", "ok", "refused", "failed", "unconfirmed", "exited"}]
    /\ writePos \in 0..Capacity-1 /\ cursor \in 0..total /\ total \in 0..Len(printed)
    /\ canonPendingBytes \in Nat /\ line \in Nat /\ sessionExited \in BOOLEAN

(* A control operation ends with what the helper did for that operation,   *)
(* never for another of its kind, however late the answers are and         *)
(* whatever timed out meanwhile; and once no answer is under way, the size *)
(* the session reports is the terminal's, unconfirmed resizes included.    *)
(* (settlePtyAck, sendPtyControl, the helper's event listener)             *)
AnswersAreOwn ==
    /\ TerminalTypeOK
    /\ \A c \in PtyCalls : status[c] = "failed" => did[c] = "failed"
    /\ \A c \in PtyCalls :
          status[c] = "ok" => did[c] = "ok" \/ (Op[c].kind = "termios" /\ did[c] = "none")
    /\ (\A i \in 1..Len(events) : events[i].id = "exited" \/ Op[events[i].id].kind # "resize")
          => cols = winsize

(* Input that pty_write reports as written is not dropped by the line      *)
(* discipline, however a long line is cut into calls and however those     *)
(* calls overlap; except when the program leaves raw mode between a probe  *)
(* and the arrival of the bytes it let through.  (pty_write)               *)
NoSilentDiscard == discarded = {}

(* What may split the sequence that is unfinished at p: it is longer than  *)
(* ANSI_MAX_HOLDBACK by then, the ring lost its beginning, or an earlier   *)
(* slice that held nothing back ended inside it.                           *)
MaySplit(p) ==
    \/ p - opening[p] + 1 > MaxHoldback
    \/ log[opening[p]] = "lost"
    \/ \E c \in cuts : c.how # "kept" /\ c.at \in opening[p]..p

(* A reader that follows nextCursor accounts for every unit of output      *)
(* exactly once: it gets the unit, is told that it was lost, or misses the *)
(* rest of a code point whose beginning was lost.  A slice ends where it   *)
(* likes only when nothing followed in an ended session, or when all of a  *)
(* full page would be held back; and that happens only inside a sequence   *)
(* all but two units of a page long.  Any other slice ends inside no code  *)
(* point and right after no "esc", and inside an escape sequence only if   *)
(* MaySplit, or if just the terminator of an OSC, "esc" and "st", is left. *)
(* Nor is anything held back for ever: a reader moves on that is behind by *)
(* more than a page, or by more than ANSI_MAX_HOLDBACK and two units, or   *)
(* at all once the session ended.  (createPtyRing, ptySliceForCursor)      *)
TranscriptIsWhole ==
    /\ Len(log) = cursor
    /\ total - cursor > Min({MaxHoldback + 2, MaxBytes}) \/ (sessionExited /\ total > cursor)
          => ptySliceForCursor.nextCursor > cursor
    /\ \A p \in 1..cursor :
          \/ log[p] \in {printed[p], "lost"}
          \/ log[p] = "skipped" /\ printed[p] = "cont" /\ p > 1 /\ log[p-1] = "lost"
    /\ \A c \in cuts :
          /\ c.how = "kept" =>
                /\ printed[c.at] \notin {"lead", "esc"}
                /\ \/ opening[c.at] = 0 \/ MaySplit(c.at)
                   \/ c.at < Len(printed) /\ printed[c.at + 1] = "esc"
          /\ c.how = "page" =>
                opening[c.at] > 0 /\ c.at - opening[c.at] + 1 >= MaxBytes - 2

=============================================================================
