# Verification of Mac Developer Bridge

TLA+ models, TLC runs and TLAPS proofs for the JavaScript of this repository.
Everything is translated from the source; file and line references are to
`src/`. `PROJECT.json` gives, for every definition, the lines it stands for, and
for every run the properties it checks.

## The system

Mac Developer Bridge (MDB) gives MCP clients an unrestricted shell and the
operator's Chrome. A request passes through up to four processes:

    HTTP clients -> mcp-http.mjs -> bridge.mjs -> federated MCP providers
                                        |-> ptyhelper.pl (one per terminal)
                                        `-> chrome-native-host.mjs -> extension worker

Each is one event loop: a callback runs to its next `await`, and what can go
wrong is what may happen between two of them. Below is every component with its
state, its operations, what is hard about it and what makes it correct.

| # | Component (source) | State | Operations | What is hard | Correct when | Model |
|---|---|---|---|---|---|---|
| 1 | Front end supervision (`mcp-http.mjs` 190-425) | `child`, `pending`, `nextServerId`, `sawInitialized`, `lastExit`, `localBridgeInitialization` | startChild, callBridge, stdout/stdin/exit listeners, request timer, local initialize | child dies, stdin breaks or spawn fails at any time; clients share ids; late replies and late exits | each request settled once with its own reply or an error; handshake survives a restart; one usable bridge | `FrontEnd`, `CorrelatedCalls`, `FrontEnd_proofs` |
| 2 | HTTP handler (`mcp-http.mjs` 1175-1901) | body budget, open sockets | routing, readBody, event streams, shutdown | counter at its limit, aborted bodies | budget returns to zero; bounded memory | bridge calls in `FrontEnd`, token routes in `OAuth`; rest not modelled |
| 3 | OAuth server (`mcp-http.mjs` 428-1163, 1741-1756) | client id, codes, tokens, approval links, stored file | approve, exchange, refresh, revoke, revoke all, load, save | killed at any point of a save; a write that fails in silence; a retried rotation; the cap; a new bridge token | no revoked token or used code comes back; no live token is lost; the client id is kept | `OAuth`, `OAuth_proofs` |
| 4 | Responses and experimental routes (`mcp-http.mjs` 1356-1672, `lib/chatgpt-responses-adapter.mjs`) | none between requests | adapt | translation | answers are the bridge's | bridge calls in `FrontEnd` |
| 5 | Bridge dispatch (`bridge.mjs` 3011-4187) | `legacyInitialized` | handleMessage | handshake gate | one answer per request | gate in `FrontEnd` |
| 6 | Unlock latch and teardown (`bridge.mjs` 1250-1280, 2862-3010) | `inFlightCommands`, `unlockRecheckInFlight` | recheckUnlock, assertStillUnlocked, kill sweeps, exitAfterFlush | calls in flight past the latch while the sweep runs | what a sweep kills stays dead; a silent client does not delay it | `Bridge`, `Bridge_proofs` |
| 7 | PTY sessions (`bridge.mjs` 1877-2860, 3661-3970) | sessions, starts in flight, waiters for acknowledgements, bytes of the open line | start, write, read, resize, signal, close | slot cap with starts in flight; helper exit, close and kill in any order; late answers; overlapping writes | never more than the cap; an answer settles its own call; no input dropped in silence; no program without a reclaim path | `PtySessions`, `PtyTerminal`, `Bridge_proofs` |
| 8 | PTY ring and cursors (`bridge.mjs` 1886-2100) | ring, cursors | append, slice | overwrite under a reader; slices that split a code point or an escape sequence | a reader gets every byte once or is told that it is lost; what a slice may split; no reader is stuck | `PtyTerminal`, `Bridge_proofs` |
| 9 | `lib/ptyhelper.pl` | leader pid, terminal | fork, control, relay, reap, teardown | the bridge dies at any time; pipes overtake each other | its program dies with it; it answers each operation once | `PtySessions`, `PtyTerminal`, `Bridge_proofs` |
| 10 | shell_exec, jobs, files (`bridge.mjs` 533-660 and tools) | job table | runCommand, jobs | timeout against exit | every job is on record for disable.sh | `Bridge` |
| 11 | Background Chrome grants, GUI approval (`bridge.mjs` 256-405, 1544-1875) | grant file | decide | expiry | | not modelled |
| 12 | Stdio provider (`lib/federation.mjs` 741-1928) | `state`, `child`, `pgid`, `killed`, grant and its timer, restart attempts and timer | start (seven awaits), onExit, scheduleRestart, ping, grant timer, stop, killNow | anything between two awaits of start | no process escapes the kill paths; one session per grant; every start ends | `Provider`, `Provider_proofs` |
| 13 | Federation host (`lib/federation.mjs` 1323-1467, 2209-2470) | claims on tool names, tools per provider, registration turns, the client's list | startOne, registerTools, refresh, listing | providers fail, come back late and change their tools while names collide | a name routes to the one provider that owns it; the client is told; startup ends | `ToolNames`, `ToolNames_proofs`; gate in `Provider` |
| 14 | HTTP provider (`lib/federation.mjs` 1930-2203) | state, session, start promise and deadline, reconnect timer | start, call, postMessage, reconnect | a session forgotten under several calls; a shared start that fails; lost answers | a call is executed once at most and fails for a reason; it comes back with its server | `HttpProvider`, `HttpProvider_proofs` |
| 15 | Chrome workspace (`service-worker.js` 1-662, 3253-3270, 3550-3564) | stored group, tabs, leases, target; operation queue | setup, status, open, release, reconcile, grow | state behind awaits; listeners off the queue; tabs the user moves; lost worker | a tab is lent once, idle when handed out unless its reset was refused or is not carried out yet; the pool's target shrinks only by a writer that misread it | `ChromeWorkspace`, `ChromeWorkspace_proofs` |
| 16 | Extension link (`service-worker.js` 3566-3614, `scripts/chrome-native-host.mjs`, `lib/chrome-extension-client.mjs`) | port, reconnect timer; socket path, readiness, pending requests | connect, relay, time out, shut down | hosts that overlap on one path; stopped workers; missed disconnect; a late introduction; an invalid length | what is relayed is answered, runs in the bound profile only; the link comes back | `ExtensionLink`, `ExtensionLink_proofs` |
| 17 | Injected page functions (`service-worker.js` 681-3242) | none | snapshot, click, fill | page behaviour | | not modelled |
| 18 | Menu bar, installers, shell scripts | none | | | | not modelled |

Interactions: 1 writes to 5 and correlates its lines; 5 calls 7, 10, 12-14 and
16; 6 sweeps 7, 10 and 12 (`killAll` runs `killNow` on every provider); 12 waits
for 13's gate; 16 delivers the requests 15 serves.

## Modules

### FrontEnd, CorrelatedCalls (component 1)

An action is one turn of Node's event loop with its microtasks.

| In the model | In the code |
|---|---|
| `ClientRequest`, `ClientNotify` | POST /mcp; `callBridge`, which may start a child |
| `LocalRequest`, `LocalProceed` | a local route before and after `await ensureLocalBridgeInitialized()` |
| `DeliverLine(p)` | the stdout line listener: settles the waiter with that id or drops the line |
| `TimeOut` | the timer of `registerPending` |
| `Lose(p)` | `exit`, `error`, or stdin `error` listener: `childExit`, `processError`, `stdinError` |
| `BackoffElapses` | 2 s since `lastExit` |
| `ChildReads`, `ChildReplies` | `handleMessage` of bridge.mjs: handshake gate, one answer per request, in any order |
| `ChildDies`, `StdinBreaks` | the operating system |

`pending` is a set of (id, call) pairs, for the Map; `inbox`, `working` and
`outbox` hold what is in the pipes and in the bridge's hands. A spawned process
may turn out `unspawnable`: its `error` then comes in place of any line.
`CorrelatedCalls` is what a client is promised: a call is accepted or refused,
then answered with its own reply or failed, once. `ImplementsCorrelatedCalls`
checks `FrontEnd` against it by a refinement mapping.

`PromptReap` says that the exit of a child that was sent SIGKILL reaches the
front end before the back-off of 2 s ends. Without it `FailsWithOwnChild` fails:
`pending` is one Map for all children, so the late exit of the old child rejects
the requests of the new one. `LocalProceed` is a turn of its own because other
events can be delivered while the local initialize is awaited.

### Provider (component 12)

`this` is the Provider object. The handlers that run in one turn are functions
from object to object, composed as the code calls them: `Throw` is `stop` or
`killGroup` with `startOneCatch` or `restartCatch`; `Exit` is `onExit`, which
ends in `scheduleRestart`. `pc[s]` is where start attempt s awaits:

    mkdir -> approval -> probe -> spawning -> metadata -> handshake -> gate -> done

with `rejected` for a handshake whose pending requests were rejected by the exit
of the child and whose `await` has not resumed yet; no other event is delivered
before it does (`Drained`). `os`, `signal` and `heard` are the operating
system's side: whether process s lives, the strongest signal its group was
sent and whether an `exit` listener is attached. `probe[s]` is the flag probe of
attempt s, a process that is neither `this.child` nor in a group of its own: only
its timer signals it (`ProbeEnds`), `killNow` does not, and the timer goes with the
bridge (`BridgeExits`). The gate stands for the
providers started earlier: it opens on its own, or is open from the start.

`ConsumeApproval` reads and unlinks the approval file in one action, the only
two steps between which nobody else touches it. `PromptDisk` says that the
metadata write of a start ends before the back-off of the restart its child's
death scheduled (at least 500 ms, `federation.mjs:104`); without it two starts overlap and `NoOrphan`
fails, because the write is awaited after the spawn.

### ChromeWorkspace (component 15)

`store` and `target` are chrome.storage; `tabs`, `groupOf`, `page` and
`focused` are Chrome. The queue of `mutateWorkspaceState` is `op`: `Free`, or the
`initializeWorkspace` that holds it. Every other queued operation is one action
that waits for `queueFree`, because nothing else on the queue can run within it.
`pc[s]` is where the open of session s stands:

    ensure -> init -> opened -> reserve -> (pressure -> pressureSave -> grow | poll)
           -> navigate -> settle -> touch -> held, or reset -> drop

Off the queue, as in the code: `PressureLoad` and `PressureSave` (the target),
`RemovedListens` and `RemovedClears` (the listener on removed groups). The user
closes or takes tabs (`UserTakes`), moves the focus, and the worker restarts,
together at most `MaxUpsets` times. `Abandon` is a client that walks away from
its lease; `GoesStale` passes the idle timeout over a lease nobody uses (a
session that works in a tab is taken to renew its lease in time, as the
heartbeat does).

A tab is reset to the idle page by an update whose failure is swallowed, when an
open is released, when its page is refused, and when a stale lease is reclaimed
(`service-worker.js:280`, `588`, `605`). `reset` orders the update, `resetting` are
the tabs whose page has not changed: the navigation commits later
(`ResetCommits`), or Chrome refused the update and it never does. `Navigate` may be
refused too. A read of the target may fail and then gives the default size
(`targetReads`, 175-185); otherwise chrome.storage is taken to answer.

`removed` holds the groups whose removal Chrome has yet to report, `clearing`
those whose report was read and whose clearing of the store is awaited.
`PromptListener` says the listener has cleared the store of a removed group
before another group is stored, new or adopted; without it `PoolAgrees` fails. `OpenerInit`
folds the focus check and the reconciliation of
`initializeWorkspaceIfChromeFocused` into the start of the operation. The user
navigating a pool tab by hand is left out: it is a change of the page no code of
the worker sees.

### PtySessions (components 7, 9)

`start[s]` is where pty_start call s stands:

    idle -> stat -> ready -> recording -> done
                      `-> draining -> failed     (any stage may fail)

`startsInFlight`, `table`, `exited`, `closed` and `sweeper` are the variables and
flags of the code; `known` says that `leaderPid` is set, which happens when the
line `started` is read. The operating system's side is `helper` (`dead` until
its 'exit' event is delivered, `seen` until 'close'), `lines` (unread status
lines), `program` (the leader's group) and `job` (a background job in a group of
its own, `loose` until `ttyTargets` lists it).

| In the model | In the code |
|---|---|
| `Reserve`, `Reject`, `StatFails`, `Spawn` | `startPtySession` up to the registration of the session |
| `PollReady`, `PollFails`, `Drained` | the readiness poll, its timeout, and the bounded wait for the helper's own teardown |
| `Record`, `MetadataFails` | `writeJobMetadata` for disable.sh |
| `ReadLine`, `HelperExit`, `HelperClose`, `HelperCloseFallback` | the listeners of the helper |
| `Refresh`, `SweepReclaims` | `refreshPtyTtyTargets` from pty_read, pty_write and the sweeper; its idle and lifetime limits |
| `CloseBegins`, `CloseEnds` | pty_close before and after its grace period |
| `HelperForks`, `HelperReaps`, `HelperFatal`, `HelperTeardown` | ptyhelper.pl |
| `Revoke`, `Exit`, `Terminate`, `Crash` | the sweep of a revocation, the exit after it, `teardownAll`, SIGKILL |

A SIGKILL acts at once, and `ps` answers within its budget. Whether a leader the
bridge does not know yet survives the hangup caused by its helper's death is left
open (`immune`). Two histories say to whom the code makes no promise: `blind`
holds the sessions `killPtySession` killed before `leaderPid` was known, when it
kills the helper only (`NO_LEADER`), and `struck` those whose helper somebody else
killed. `NoOrphan` and `SessionsEnd` exempt a `blind` session, and a `struck` one
once the bridge is gone; every other running program has a helper that watches its
stdin, also after the bridge's death. The code
evicts the oldest ended session, the model any. A pid is not reused.

### Bridge (components 6, 10)

Extends `PtySessions` with the unlock file, the calls and the shell processes.
`Check` reads the file for a call; what follows (`runCommand`, `JobSpawns`,
`PtyStart`) is a later turn, and `Refuse` comes after the audit append of
`assertStillUnlocked`. `recheckUnlock` sweeps first and awaits its append
(`AuditWritten`) before `exitAfterFlush` (`Flushed`). `late` holds the commands
spawned after a sweep. The file is removed once and not written again, and
`Transient` allows every read to fail transiently. A bridge may have been started
with the acknowledgement in its environment (`ackFromEnv`), with or without the
file: it never reads the file (`bridge.mjs:2951`, `2978`), so removing it changes
nothing (`SECURITY.md:337`) and `RevocationReachesSessions` does not speak of it.

### PtyTerminal (components 7, 8, 9)

What a client does with one session that is up. Bridge and helper share four
pipes: `ctl` and `stdin` to the helper, `events` and the output back. Nothing
orders one against another, so a probe overtakes bytes written before it and the
line that reports the program's end overtakes its last output.

| In the model | In the code |
|---|---|
| `append`, `ptySliceForCursor` and its helpers | the ring and the slices, with their arithmetic |
| `Control`, `TimesOut`, `ReadEvent` | `sendPtyControl`, its timer, `settlePtyAck` with what the call does next |
| `WriteShort`, `WriteProbes`, `WriteRefused` | `pty_write`: the canonical-mode limit, the `termios` probe, back pressure |
| `Read`, `Receive` | `pty_read` by a client that follows `nextCursor`; the output listener |
| `HelperControls`, `HelperTypes`, `HelperReports` | ptyhelper.pl, with the kernel's line discipline |

Output is a sequence of units that stand for bytes. `lead` and `cont` make a code
point (longer ones behave as these do: a slice never ends between their bytes). An
`esc` opens an escape sequence: `esc x`; a CSI, `esc csi body ... x`; or an OSC,
`esc osc body ... bel` or `esc osc body ... esc st`, which may hold code points. A
program ends the sequences it begins, in any length. `opening` gives each unit the
position of the `esc` whose sequence it leaves unfinished: the grammar of the
program (`MayFollow`, `Leaves`), which the slices are compared with but never read.
`log` keeps what the reader made of each position, `cuts` where its slices ended and
whether they held back what they should (`kept`), gave way to the progress guarantee
(`page`) or ended an ended session (`last`); `did` what the helper did for each call,
`discarded` the writes the line discipline dropped. A behaviour takes one of three
scenarios, because overlapping controls, overlapping writes and a lagging reader
share no state.

Of the terminal the program changes canonical mode and nothing else. Left out, and
the properties hold without it only: a program that resizes its own terminal
(`stty cols`), after which the session's geometry is stale; `-icrnl`, a newline
quoted by LNEXT, and input left unread in raw mode that the return to canonical mode
takes for a line. Bytes that are no code point and no sequence, and a sequence that
is broken off by the next, are left out too.

### OAuth (component 3)

A map of the code is a function to expiry times, 0 for an absent key. A handler
runs in one turn, but `saveStore` is three places where the process can die or
the write fail: before the temporary file (`WriteTmp`), before `Rename`, after
it. `saving` is the handler inside it and the answer it owes. `Start` reads the
file, drops the tokens of another bridge token and rewrites. `fate`, `window`,
`origin`, `known`, `spent` and `unsaved` are history: how a token's revocation
ended, when its grace ends (`used`: counted from the first rotation; `saved`: from
the first one that reached the file), who approved it, which answers were sent,
which codes were presented. The verdict on client, redirect, verifier and resource is one
boolean. A failed approval waits out its delay in `delayed`, while other requests
run. There is no registration endpoint: the one client id is minted with the
file.

### HttpProvider (component 14)

A requester is a call, or `Boot`, the start attempt under way. `pc[x]` is what it
awaits:

    init -> notify -> posted -> gate             (Boot)
    posted -> reinit -> renotify -> reposted     (a session the server forgot)
    starting                                     (a call that awaits the start)

`joined` is who awaits `startPromise`: the startup, the timer, or calls;
`BootFails` does for each what its `catch` does. `Fails(x, kind)` keeps the
code's distinction between an error with a status and one without a code, which
`postMessage` reports as unreachable. The server goes down, answers everything
with an error, forgets its sessions, or loses an answer after executing the call.
`hurt` are the calls that were under way when something happened that may fail
them.

### ToolNames (component 13)

`claimed` is the one table, `tools` the providers' own maps, `turnOver` the
released turns of the registration gate. A first start awaits the turn before
it, any other only its own fetches. `registerTools` is one action: claim, take
over from later providers, release what was dropped, tell the client.
`ListChanged`, `RefreshRead` and `RefreshDone` are the three turns of a refresh,
and a refresh may overlap with a restart of the same provider. How a provider
starts and fails is abstracted to an attempt that succeeds or does not;
`Provider` and `HttpProvider` are the detail.

### ExtensionLink (component 16)

The composition of the worker's `connect`, any number of native hosts and the
client. `path` is the host the socket path names, whoever that is: a host unlinks
it when it starts (`Unlink`) and when it leaves (`Leave`). `hello` is the "ready"
message on its way, with the profile the worker had when it attached. `Attach` is
the turn after the await in `connect`: a host that exited before it is never
noticed (`deaf`). A signal closes a host slowly (`closing`): it awaits the end of
its socket server, still reads its port, and is made `ready` again by an
introduction that comes late (`late`). An oversized message (`TooLarge`) stays at
the head of the host's buffer (`jammed`): the host shuts down, reads no more, and
is `stranded` until its stdin ends. A request is `sent` until the host reads it and `pending` until
it is answered or a timer fires. The client's ids are random and never repeat.

## Runs

| Run | Instance | What it shows |
|---|---|---|
| `front_end` | 3 calls (two with the same id, one local), 2 children, 1 notification | each is answered at most once, with its own reply (`RightAnswer`); a usable bridge has the handshake; the refinement of `CorrelatedCalls`; no loss of a child strands a request |
| `provider` | both modes, 4 starts, 2 restarts per window, 2 approvals | what a revocation reaches and prevents, single-use grant, restart budget, every start ends |
| `provider_grant` | personal, 1 start | finding: a child that outlives its grant |
| `chrome_workspace` | 2 sessions, pool 1 growing by 2 to a target of 3, requests for 2, 2 tabs, 1 upset | no tab is lent twice; one is handed out with another page only where Chrome refused its reset or has yet to carry it out; the store agrees with the pool; the target shrinks only by a misreading writer |
| `chrome_open` | 2 sessions, 2 tabs, no upset | every open ends |
| `pty_sessions` | 2 pty_start calls, 1 slot; one session sees a background job and a killed helper | the cap, the slot counter, and that programs and listed jobs end, but for those named |
| `pty_terminal` | 2 resizes and 2 signals; 4 writes with limit 3 and 2 changes of mode; 7 units of output, ring of 5, slices of 4, holdback of 3 | no answer, keystroke or output is mistaken or dropped in silence; a slice splits only what the code cannot hold back |
| `bridge` | one call of each kind, with and without the acknowledgement in the environment, transient read errors | what a revocation reaches, and the refinement of `PtySessions` |
| `oauth` | 3 issuances, store of 2, 1 code, 1 link asked for and 1 offered again, 2 bridge tokens, 2 upsets (deaths, failed saves) | what is revoked stays so; a restart keeps the rest; the grace of a rotation |
| `http_provider` | 2 calls, 2 faults | a call is executed once at most and fails for a reason; calls and reconnects end |
| `tool_names` | an HTTP provider before a child, 3 names of which 1 is the bridge's, 2 faults | table, maps and client agree; registry order decides; startup ends |
| `ext_link` | 3 hosts, 2 requests, 2 faults | shutdown answers what it owes, or what a late introduction let in; only the bound profile; the link comes back |

Bounds. Two children are enough for one loss and a replacement, the only pair
that can interact: a third differs from the second only in its number. Two
clients with one id and a local route are the smallest set that contains every
kind of conflict on `pending`. Four starts are one more than a window of two
restarts allows, so the budget is reached and exceeded if it can be. Two
approvals are one more than a session may consume. Two sessions compete for one
tab and meet both growth and the limit; with two tabs one can be reset, lost or
taken while the other is lent; one upset at any moment is one fault, and everything the
code does to recover from it is explored. Two pty_start calls on one slot meet every answer of
`reservePtySlot`: room, eviction and refusal; what one session sees beyond that
(`Eventful`) does not depend on the other one's. The last child of `FrontEnd` never
fails, so that the bound itself strands nobody. In
`OAuth` three issuances overfill a store of two, a refresh token outlives the
clock while its grace ends within it, and two upsets are a failed save and a
death, or two deaths, at any two points; `OAuth_proofs` shows that nothing hangs on
these numbers. `HttpProvider` needs two calls so that
one finds the session the other is replacing; a third finds nothing a second does
not. In `ToolNames` the two names and two providers contain every order of
collision, and the faults let a provider lose a name and come back. Three hosts
let one leave and one crash while a third starts. Seven units are two more than
the ring of five and three more than a page of four, and hold a sequence longer than
`ANSI_MAX_HOLDBACK`, here 3, and one longer than the page. The page is
larger than the holdback, as the default of 65536 bytes is larger than 4096. The
least page, 1024, is smaller, and only then is a sequence cut because the ring lost
its beginning; that case has the proof, and no run. The models may stop when every bound is used up, so deadlock is not
checked.

Fairness. Node delivers every event that has happened and resumes every promise
that has settled; timers fire; a process that was sent SIGKILL dies; a live
bridge reads its input and finishes what it works on; Chrome answers or throws.
These are weak fairness conditions on the handlers. A helper need not fork: the
readiness timeout answers for it. Every live session is one the sweeper may
reclaim, by the lifetime ceiling, so weak fairness of `SweepReclaims` says that
the interval, while armed, ticks. `recheckUnlock` is weakly fair because a
transient read error passes. An opener of
`ChromeWorkspace` needs strong fairness: the promise chain it waits in is
first-come first-served, which the model's queue does not record. In `HttpProvider` requests are
answered or fail and timers fire; the server need not come back, and `Reconnects`
speaks of the behaviours in which it does. In `ToolNames` an attempt to start ends by
its deadline. In `ExtensionLink` Chrome restarts a stopped worker and the system
runs the hosts. `OAuth` and `PtyTerminal` state no liveness. Nothing obliges
a client to ask, a child to die, a request to time out, or the operator to act,
so `RequestsSettle` holds without the request timer.

## Proofs

Every theorem is for all values of the constants that the module's assumption
admits: any number of calls, children, starts, sessions, tokens, ticks and faults.
The inductive invariants were checked by TLC on the runs' instances first. Where a
theorem has a hypothesis, it is one of the named conditions below and stands in
front of the theorem.

`FrontEnd_proofs`, from `FrontEndAssumption`:

  - `TypeCorrect`: `Spec => []TypeOK`
  - `AnswersAreRight`: `Spec => []RightAnswer`
  - `OneBridge`: `Spec => []OneUsableBridge`
  - `HandshakeSurvives`: `Spec => []HandshakeSurvivesRestart`
  - `FrontEndImplementsCalls`: `Spec => ImplementsCorrelatedCalls`
  - `FailuresAreOwn`: `PromptReap => (Spec => FailsWithOwnChild)`

`RightAnswer` is not inductive: that a reply is the right one was decided when its
request was registered. The invariant `IInv` adds `Owned`: every id in a pipe, in
the bridge's hands or in an answer under way has been handed out already, and if a
waiter is still registered under it, that waiter is the one the message belongs to.
It holds because `nextServerId` only grows (`OwnershipIsStable`), so a late answer
finds its own waiter or none. `WInv` adds what the others need: a waiting call has
exactly one entry in `pending` and was sent to the current child (`Waiters`), and a
process that runs unkilled is the current child (`Children`). From it the
refinement follows action by action: what registers a call accepts it, what settles
it answers or fails it, everything else stutters. `FailuresAreOwn` adds
`LossesReported`: of a process that is not the child only the exit of a killed one
is still to come, and `PromptReap` puts it before the next child. `HInv` adds
`NoteFirst`: in the pipe of a running bridge the notification stands before every
request made after the handshake.

`Provider_proofs`, from `ProviderAssumption`:

  - `ProviderInvariant`: `PromptDisk => (Spec => [](Inv /\ ProbeAwaited))`
  - `NoProcessEscapes`: `PromptDisk => (Spec => []NoOrphan)`
  - `RevocationContains`: `PromptDisk => (Spec => []RevokedIsContained)`
  - `NothingStartsRevoked`: `PromptDisk => (Spec => RevocationStartsNothing)`
  - `PersonalGrantIsSingleUse`: `Spec => []OneGrantPerSession`

A new child overwrites `this.child`, and `onExit` clears it without asking who
exited. `Inv` records the order that makes this safe: the object knows the one
process there is, at most one start attempt is on its way, none that has yet to
spawn runs beside a child, and a restart timer is armed only when there is neither.
An attempt that awaits its metadata write is the exception, and the one place where
`PromptDisk` is used. `ProbeAwaited` says that a flag probe runs only while its
attempt awaits it; with one attempt on its way there is one probe at most. A
personal-profile provider never restarts, so
`PersonalGrantIsSingleUse` needs no such hypothesis.

`OAuth_proofs`, from `OAuthAssumption`:

  - `RevocationSticks`: `Spec => []RevokedStaysRevoked`
  - `RestartIsTransparent`: `Spec => []RestartKeepsSessions`
  - `RotationEnds`: `Spec => []RotatedTokensEnd`, the upper half of `RotationWindow`
  - `RotationLasts`: `"read" \notin Faults => (Spec => []RotationWindow)`
  - `ConnectorKeepsItsClient`: `"read" \notin Faults => (Spec => ClientKept)`

The hypothesis says that the file, where there is one, can be read; without it the
server starts with an empty store under a new client id, and the last two are false
(see the findings). The rest holds whatever fails. The proof begins with the maps:
what expires, what the cap drops, and that dropping the soonest leaves room
(`SoonestAreEnough`, which finds the least counterexample by well-foundedness, as
induction over data is out of reach). `StoreInv` follows a revoked token through
the save: gone from memory while the save is under way, gone from the file once it
is written. `GraceInv` bounds a rotated token's expiry from both sides wherever it
is present, in memory or on file; `StayInv` says where it must be present. What a
request may do to the tokens is stated once (`TokensChange`), each kind of request
is shown to do no more, and saves, deaths and starts have a lemma each.

This proof corrected the model. The first form of `RotationWindow` counted the
grace from the first rotation that was saved, and held in the run only because of
its bounds: when the first rotation's save fails, memory keeps the grace of that
use, and a later, saved rotation cannot extend it. `window` now holds both ends.

`Bridge_proofs`, from `PtyAssumption`, `BridgeAssumption` and
`TerminalAssumption`, for every finite set of pty_start calls, shells and jobs,
every PTY_MAX_SESSIONS, and every set of calls, limit of a line, ring size, page,
holdback and scenario of a terminal:

  - `CapHolds`: `PtySpec => []SlotCap`
  - `SlotsAreAccounted`: `PtySpec => []SlotsAccounted`
  - `ProgramsAreWatched`: `PtySpec => []NoOrphan`
  - `ImplementsPtySessions`: `Spec => PtySessionsImplemented`
  - `BridgeCap`, `BridgeWatches`: `SlotCap` and `NoOrphan` in the bridge
  - `ShellsAreKnown`: `Spec => []SurvivorsAreKnown`
  - `AnswersReachTheirCalls`: `TerminalSpec => []AnswersAreOwn`
  - `NothingIsDroppedSilently`: `TerminalSpec => []NoSilentDiscard`
  - `TranscriptHolds`: `TerminalSpec => []TranscriptIsWhole`

`SlotCap` needs `SlotsAccounted`: the room tested when a slot is taken counts
`startsInFlight`, and only because that number covers every call still at its stat
does the test remain true when such a call enters the table. `NoOrphan` needs
`OrphanInv`: the listeners of a dead helper reclaim its program only if the line
with the leader's pid has been read or is still to be read, and if nothing marked
the session closed before, and what a kill leaves running is `blind`. Every step of `Bridge` is a step of `PtySessions` or
leaves its variables alone, which carries both over to the bridge. `ShellInv` says
that a command is registered for the sweep from the turn that spawns it until it
ends, and that a running job is recorded or on its way to be.

None of the three properties of a terminal is inductive; they share one invariant
of three parts.

  - `ControlInv` follows each operation through the pipes: it is in at most one
    place between its call and its answer, an answer under way says what the helper
    did for that call, whatever the call has since become, and the last resize
    under way carries the terminal's size.
  - `InputInv` says what `canonPendingBytes` is worth while writes are under way:
    there is a sequence of estimates, one before each of them, that starts no lower
    than the open line, grows by each write's bytes, ends with `canonPendingBytes`,
    and leaves every write that no probe let through within the limit. A probe's
    answer on its way back says that the terminal is raw. `ShorterLineFits` and
    `EstimatesGrow` carry the estimates through the helper's reading.
  - `OutputInv` gives each retained unit the slot its offset selects
    (`SmallRemainders` has the arithmetic of the modulus), makes each slice a piece
    of what was printed (`SlicesAreRight`), and puts the cursor at one of `cuts`.
    That a slice is cut inside a sequence only for the reasons `TranscriptIsWhole`
    lists needs the shape of the output (`Wellformed`: what lies between an `esc`
    and the end of its sequence, proved of the program by `WholePrints`) and the cut
    before: a slice that begins inside a sequence does not see its `esc`, so the
    reason is the one the previous cut had (`OutputReads`).

`TranscriptIsWhole` also says that a reader gets on, and that the progress guarantee
serves only pages that lie inside a sequence. For that a page must be able to hold
the rest of a code point, a carriage return and a code point, hence `MaxBytes > 3`;
the least `max_bytes` that the tool accepts is 1024 (`bridge.mjs:3713`). Nothing is
assumed of `MaxHoldback` but that it is positive.

This proof corrected the model too: the arms of the CASE in `Outcome` overlapped,
which TLA+ leaves undetermined; TLC takes the first. It is now a conditional, in the
order of the code.

`ToolNames_proofs`, from `ToolNamesAssumption`, for any number of providers, any
names and any number of faults:

  - `RoutingHolds`: `Spec => []NamesRouteToOwner`
  - `ClientsAreTold`: `Spec => []ClientIsTold`
  - `RegistryOrderDecides`: `Spec => NoUsurper`

`NamesRouteToOwner` is inductive: one action changes the table, and
`Registration` says what it does to a name that is taken, kept, dropped or left
alone. `ClientIsTold` needs it, because a provider that registers what it has is
silent, and only the table shows that it cannot have taken a name by that.

`ExtensionLink_proofs`, from `LinkAssumption`:

  - `ShutdownAnswers`: `Spec => []ShutdownAnswersAll`
  - `OnlyTheBoundProfile`: `Spec => []RunsInBoundProfile`

The invariant adds that a "ready" message under way names the profile of the
worker whose port leads to that host, that a host just started has none, and that
a host is ready only while its socket is open, or when it was introduced late to a
host that closes after a signal.

`HttpProvider_proofs` proves `CallsServed`: `Spec => []CallsAreServed`, from
`HttpAssumption`. The invariant adds that a call in a start is one the start
knows, that a call is executed only while it waits, and that an outage is on
record for every call under way. There is always a session left for the server to
name (`FreshExists`, by counting).

`ChromeWorkspace_proofs`, from `ChromeWorkspaceAssumption`:

  - `TabsAreOwn`: `PromptListener => (Spec => []OwnTabAndPage)`
  - `StoreAgrees`: `PromptListener => (Spec => []PoolAgrees)`
  - `TargetShrinksOnMisread`: `PromptListener => (Spec => ShrinksOnlyOnMisread)`

The store cannot be trusted on its own: an initialization reads it and writes it
back later, a listener clears it without queueing, and a group is adopted from
what Chrome shows, with no leases. `PoolInv` adds what makes adoption safe: a
grouped tab that is in use, or still shows a session's page, is in the stored group
(`Grouped`), so no other group can offer it. `OpInv` says that what an
initialization has read is still stored, or the store was cleared, and that what it
will write is as good; `ListenInv` that a store about to be cleared holds the
removed group or nothing, which is where `PromptListener` is used. `ReconcileFacts`
says once what a reconciliation may leave; every queued operation cites it. The
target's theorem needs the types only: each writer writes no less than it read
(`TargetsAreBounded`, `WritersOnlyGrow`), so what it shrinks it had misread.
`PageKeeps`, `NavigateKeeps`, `ResetKeeps` and `CommitKeeps` carry the pages.

The sizing functions cap the current size as the code does, and adoption waits for
the listener, like the creation of a group: the proof fails otherwise. What a
target's writer may have misread is a read that another write overtook or one that
failed, and both kinds of writer, openers under pressure and initializations, can.

Only model-checked: the liveness properties (fairness is outside the prover's
logic here). No module declares a RECURSIVE operator.

## Findings

The disagreement between the code and its documents that has a run:

  - A grant that runs out during the flag probe does not shut the child down
    (`federation.mjs:882`, `1503`); `SECURITY.md:271` says that a timer armed when
    the grant is consumed does (`provider_grant`).

Others were met while modelling. Each is a behaviour of the model above it, and a
property that states the document's sentence fails there in a few steps; they are
recorded here and have no run.

  - A request that loses its bridge to a stdin or process error gets 500
    (`mcp-http.mjs:1857`); the comment at 1855 wants such conditions told to the client
    as transient (503), not as a generic internal error.
  - A restart whose spawn fails asynchronously is neither retried nor failed
    (`federation.mjs:1617`); `SECURITY.md:183` says that restarts are tried at
    most 5 times and then the provider is permanently `failed`. `StartsFinish`
    exempts it.
  - The growth-only target of the Chrome pool (`README.md:134`) shrinks when a
    pressured opener (`service-worker.js:440`), or an initialization (324-349),
    writes what it made of a target read before somebody else's write, or of a read
    that failed, for which it takes the default size (182-184).
    `ShrinksOnlyOnMisread` says that these are the only ways.
  - Tabs can be created after Chrome went to the background, between two creations
    of one growth (`service-worker.js:347` against `README.md:134`).
  - A shell_exec call admitted before a revocation can spawn its command after the
    sweep and leave it running (`bridge.mjs:2969` against `SECURITY.md:317`).
    `SurvivorsAreKnown` says that no other command does.
  - A native host that meets an invalid length logs that it is exiting
    (`chrome-native-host.mjs:136`), but shuts down and stays until its stdin ends, and
    the worker stays linked to it. `Reconnects` exempts that worker.
  - A pty_start that fails before the helper's report is read kills the helper and
    not its program (`bridge.mjs:2757`); the comment at 2695 says that the fallback
    "still SIGKILLs whatever the helper did not reclaim". `NoOrphan` and
    `SessionsEnd` name the sessions this happens to.
  - A slice that ends between the two bytes of an OSC's terminator is cut before the
    first, inside the OSC (`bridge.mjs:1956`); the comment at 2078 says that an escape
    sequence split by the boundary is held back whole. `TranscriptIsWhole` allows
    this cut.
  - A page that lies inside one escape sequence is forced out by the progress
    guarantee (`bridge.mjs:2089`); the comment at 2086 says that it is reachable only
    if `max_bytes` were smaller than one code point. `TranscriptIsWhole` says when.

Behaviours a reader may not expect, which contradict no document or only a
comment:

  - The first start of a child may go on to `ready` without a child, when the child
    dies while registration is awaited (`federation.mjs:954`).
  - Replacing a forgotten session is charged against the deadline of the last start:
    once it has passed, the call is refused (`tests/federation.mjs:491` sees only the
    fresh case). A call made while another replaces the session is sent without one
    and refused. If a replacement times out, the provider stays `ready` without a
    session.
  - `list_changed` during a start or a refresh is dropped. The comment at
    `federation.mjs:2296` that exactly one of two colliding providers is refused at
    startup predates pre-emption.
  - A host that leaves unlinks the socket of the host that replaced it; a host that
    exited before `onDisconnect` was attached is never noticed
    (`service-worker.js:3594`). A host that closes after a signal relays again if the
    extension introduces itself late.
  - A pool tab whose reset Chrome refused is lent again with the page of the session
    before in it, since the lease is dropped whatever became of the update
    (`service-worker.js:605`).
  - A revocation does not reach a flag probe that is running: its only timer goes
    with the bridge (`federation.mjs:996`).
  - `pty_read` can report the end before the last output arrives, because the
    helper reports the exit before it drains the terminal and the two travel in
    different pipes (comment `bridge.mjs:2594`, `tests/pty.mjs:739`). The rest is
    still there to be read.
  - Bytes that `alignUtf8Start` skips are not counted in `lostBytes`. The back
    pressure check of `pty_write` (`bridge.mjs:3779`) precedes the awaited probe.
  - A revocation that was answered but could not be written comes back with the
    file. The cap drops the refresh token that was just rotated, since that one
    expires first. `/revoke-all` leaves alone the requests that wait out the delay
    of a failed approval. A file that cannot be read at the start is replaced by a
    new client id, where the comment at `mcp-http.mjs:423` promises that the connector
    only needs to be approved again; the run leaves that fault out (`Faults`),
    `ClientKept` would not survive it.

## Not modelled

  - The HTTP handler beyond its calls: headers, the body budget, event streams and
    signals. The tool table and the schemas of the bridge.
  - The Responses adapter: a translation with no state between requests; its calls
    of the bridge are `LocalRequest`.
  - File tools, apply_patch, audit log, codex and plugin files: one-shot I/O.
  - Page functions injected into web pages, AppleScript decisions, the menu bar
    application and shell scripts: they keep no state between calls or only read the
    host's.
  - Calls and resources of a ready stdio provider, and the framing of its lines.
  - Reuse of pids. Time, except in `OAuth`: a timer fires at any point the bounds
    of the code allow.

## Plan

Done: the ten modules of the components above, and the proofs of all safety
properties the runs check. Open: the body budget and event streams of the HTTP
handler (component 2).
