------------------------------ MODULE FrontEnd ------------------------------
(***************************************************************************)
(* The HTTP front end's supervision of bridge.mjs (src/mcp-http.mjs).      *)
(*                                                                         *)
(* Any number of HTTP clients share one stdio child.  A request is         *)
(* re-keyed onto a server-side id, written to the child's stdin, and its   *)
(* waiter kept in `pending` until a line with that id comes back, its      *)
(* timer fires, or the child is lost.  The child may die at any moment,    *)
(* its stdin may break while it lives, or it may fail to spawn; the next   *)
(* request after a back-off starts a replacement, onto which the MCP       *)
(* `initialized` notification is replayed.                                 *)
(*                                                                         *)
(* One action is one turn of Node's event loop together with the           *)
(* microtasks it drains: between `await ensureChild()` and the write no    *)
(* event can be delivered, because startChild awaits nothing.              *)
(***************************************************************************)
EXTENDS Naturals, Sequences

CONSTANTS Calls,        \* requests the clients will make, each made once
          LocalCalls,   \* those made by the /v1/responses and experimental routes
          Ungated,      \* those bridge.mjs answers before any handshake (initialize, ping)
          ClientIdOf,   \* the JSON-RPC id the client chose: not unique
          LocalInit,    \* the front end's own `initialize` request
          NoCall, NoProc,
          MaxSpawns,    \* bound: children ever started; the last one never fails
          MaxNotes,     \* bound: `initialized` notifications the clients send
          PromptReap    \* whether a SIGKILLed child's exit is always seen within
                        \* the 2 s back-off (true unless the host is starved)

ASSUME FrontEndAssumption ==
    /\ LocalCalls \subseteq Calls
    /\ Ungated \subseteq Calls
    /\ LocalInit \notin Calls
    /\ NoCall \notin Calls \cup {LocalInit}
    /\ MaxSpawns \in Nat /\ MaxSpawns > 0
    /\ MaxNotes \in Nat
    /\ NoProc \notin Nat
    /\ PromptReap \in BOOLEAN

Procs   == 1..MaxSpawns
Askers  == Calls \cup {LocalInit}

(***************************************************************************)
(* `why` a promise was rejected, by the text of the Error.                 *)
(***************************************************************************)
Reasons == {"none", "exited", "exited immediately", "not running",
            "stdin error", "process error", "timed out"}

VARIABLES
    child,        \* the process requests are written to, or NoProc
    spawned,      \* processes started so far: 1..spawned exist
    proc,         \* per process: what the OS and the ChildProcess object say
    inbox,        \* per process: lines written to stdin and not yet read
    ready,        \* per process: bridge.mjs's legacyInitialized
    working,      \* per process: requests being handled
    outbox,       \* per process: replies written to stdout and not yet read
    pending,      \* the Map serverId -> waiter
    nextId,
    sawInitialized,
    lastExit,     \* "null", "recent" (inside the back-off) or "past"
    localInit,    \* localBridgeInitialization: "null" or "asking"
    status,       \* per call, how far its promise is
    reason,       \* per call, why it was rejected
    answer,       \* per call, what it was resolved with
    notes,        \* notifications sent
    sentTo,       \* history: the process an open call's request was written to
    askedAfter    \* history: sawInitialized when the call reached callBridge

procVars == <<child, spawned, proc, inbox, ready, working>>
callVars == <<pending, status, reason, answer, localInit, sentTo, askedAfter>>
vars == <<procVars, outbox, callVars, nextId, sawInitialized, lastExit, notes>>

Status == {"idle", "initializing", "proceed", "waiting", "answered", "failed"}
Settled(c) == status[c] \in {"answered", "failed"}

Note         == [kind |-> "initialized", id |-> 0, call |-> NoCall]
Request(i,c) == [kind |-> "request", id |-> i, call |-> c]
Message      == [kind: {"request"}, id: Nat, call: Askers] \cup {Note}
Replies      == [id: Nat, for: Askers, refused: BOOLEAN]
NoAnswer     == [for |-> NoCall, id |-> 0, refused |-> FALSE]

(***************************************************************************)
(* The child as Node sees it: exitCode and signalCode are set in the turn  *)
(* that delivers 'exit' (or the spawn's 'error'); a broken stdin is        *)
(* destroyed one turn before its 'error' is delivered.                     *)
(***************************************************************************)
NewProc  == [os: {"running", "unspawnable"}, seen: {FALSE},
             stdin: {"open"}, killed: {FALSE}]
alive(p) == ~proc[p].seen /\ proc[p].stdin = "open"

Init ==
    /\ child = NoProc /\ spawned = 0
    /\ proc = [p \in Procs |-> [os |-> "absent", seen |-> FALSE,
                                stdin |-> "open", killed |-> FALSE]]
    /\ inbox = [p \in Procs |-> <<>>]
    /\ ready = [p \in Procs |-> FALSE]
    /\ working = [p \in Procs |-> {}]
    /\ outbox = [p \in Procs |-> {}]
    /\ pending = {} /\ nextId = 1
    /\ sawInitialized = FALSE /\ lastExit = "null" /\ localInit = "null"
    /\ status = [c \in Calls |-> "idle"]
    /\ reason = [c \in Calls |-> "none"]
    /\ answer = [c \in Calls |-> NoAnswer]
    /\ notes = 0
    /\ sentTo = [c \in Calls |-> NoProc]
    /\ askedAfter = [c \in Calls |-> FALSE]

-----------------------------------------------------------------------------
(***************************************************************************)
(* ensureChild, startChild and writeRaw.                                   *)
(***************************************************************************)
NoBackoff == FALSE                                             \* mutant
Backoff   == lastExit = "recent"

(* What startChild writes before anyone else can: the replayed handshake.  *)
NoReplay(saw) == <<>>                                          \* mutant
Replay(saw) == IF saw /\ lastExit # "null" THEN <<Note>> ELSE <<>>

(* Start a child and make it current, writing `lines` after the replay.    *)
startChild(saw, lines) ==
    /\ child = NoProc /\ ~Backoff /\ spawned < MaxSpawns
    /\ spawned' = spawned + 1
    /\ child' = spawned + 1
    /\ \E new \in NewProc :
         /\ spawned + 1 = MaxSpawns => new.os = "running"
         /\ proc' = [proc EXCEPT ![spawned + 1] = new]
    /\ inbox' = [inbox EXCEPT ![spawned + 1] = Replay(saw) \o lines]
    /\ UNCHANGED <<ready, working>>

writeRaw(p, lines) ==
    /\ alive(p)
    /\ inbox' = [inbox EXCEPT ![p] = @ \o lines]
    /\ UNCHANGED <<child, spawned, proc, ready, working>>

(* The lines reach a child: the current one, or one started for them.      *)
Deliverable(saw, lines) ==
    \/ child # NoProc /\ writeRaw(child, lines)
    \/ startChild(saw, lines)

(* They do not: ensureChild is backing off, or writeRaw throws.            *)
Undeliverable(why) ==
    /\ \/ child = NoProc /\ Backoff /\ why = "exited immediately"
       \/ child # NoProc /\ ~alive(child) /\ why = "not running"
    /\ UNCHANGED procVars

Target == IF child = NoProc THEN spawned + 1 ELSE child

(***************************************************************************)
(* register: the waiter's id is nextId, whatever id the client sent.       *)
(* Map.set replaces an entry with the same key.                            *)
(***************************************************************************)
ClientIdAsKey(a) == IF a = LocalInit THEN nextId ELSE ClientIdOf[a]   \* mutant
ServerId(a) == nextId

register(a) ==
    pending' = {w \in pending : w.id # ServerId(a)}
                   \cup {[id |-> ServerId(a), call |-> a]}

-----------------------------------------------------------------------------
(***************************************************************************)
(* Requests.                                                               *)
(***************************************************************************)
callBridge(c, saw) ==
    /\ askedAfter' = [askedAfter EXCEPT ![c] = saw]
    /\ \/ /\ Deliverable(saw, <<Request(ServerId(c), c)>>)
          /\ register(c)
          /\ nextId' = nextId + 1
          /\ status' = [status EXCEPT ![c] = "waiting"]
          /\ sentTo' = [sentTo EXCEPT ![c] = Target]
          /\ UNCHANGED reason
       \/ \E why \in Reasons :
          /\ Undeliverable(why)
          /\ nextId' = IF why = "not running" THEN nextId + 1 ELSE nextId
          /\ status' = [status EXCEPT ![c] = "failed"]
          /\ reason' = [reason EXCEPT ![c] = why]
          /\ UNCHANGED <<pending, sentTo>>
    /\ UNCHANGED answer

(* POST /mcp with an id. *)
ClientRequest(c) ==
    /\ c \in Calls \ LocalCalls /\ status[c] = "idle"
    /\ callBridge(c, sawInitialized)
    /\ UNCHANGED <<outbox, sawInitialized, lastExit, localInit, notes>>

(* POST /mcp of `initialized`: remembered first, then written or dropped. *)
ClientNotify ==
    /\ notes < MaxNotes
    /\ notes' = notes + 1
    /\ sawInitialized' = TRUE
    /\ \/ Deliverable(sawInitialized', <<Note>>)
       \/ \E why \in Reasons : Undeliverable(why)
    /\ UNCHANGED <<outbox, callVars, nextId, lastExit>>

(***************************************************************************)
(* ensureLocalBridgeInitialized: return if a handshake was ever seen, join *)
(* the one under way, or start one with an `initialize` of its own.        *)
(***************************************************************************)
ensureLocalBridgeInitialized(c) ==
    /\ ~sawInitialized
    /\ \/ /\ localInit = "asking"
          /\ status' = [status EXCEPT ![c] = "initializing"]
          /\ UNCHANGED <<procVars, pending, nextId, localInit, reason>>
       \/ /\ localInit = "null"
          /\ Deliverable(sawInitialized, <<Request(ServerId(LocalInit), LocalInit)>>)
          /\ register(LocalInit)
          /\ nextId' = nextId + 1
          /\ localInit' = "asking"
          /\ status' = [status EXCEPT ![c] = "initializing"]
          /\ UNCHANGED reason
       \/ \E why \in Reasons :
          /\ localInit = "null"
          /\ Undeliverable(why)
          /\ nextId' = IF why = "not running" THEN nextId + 1 ELSE nextId
          /\ status' = [status EXCEPT ![c] = "failed"]
          /\ reason' = [reason EXCEPT ![c] = why]
          /\ UNCHANGED <<pending, localInit>>
    /\ UNCHANGED <<answer, sentTo, askedAfter>>

LocalRequest(c) ==
    /\ c \in LocalCalls /\ status[c] = "idle"
    /\ \/ sawInitialized /\ callBridge(c, TRUE) /\ UNCHANGED localInit
       \/ ensureLocalBridgeInitialized(c)
    /\ UNCHANGED <<outbox, sawInitialized, lastExit, notes>>

(* The await of ensureLocalBridgeInitialized has returned.  (In the code    *)
(* the same turn as the resolution; a turn of its own here, so that more    *)
(* can come in between.)                                                    *)
LocalProceed(c) ==
    /\ status[c] = "proceed"
    /\ callBridge(c, sawInitialized)
    /\ UNCHANGED <<outbox, sawInitialized, lastExit, localInit, notes>>

-----------------------------------------------------------------------------
(***************************************************************************)
(* What comes back.                                                        *)
(***************************************************************************)
Initializing == {c \in LocalCalls : status[c] = "initializing"}

resolve(w, r) ==
    /\ status' = [status EXCEPT ![w.call] = "answered"]
    /\ answer' = [answer EXCEPT ![w.call] =
                    [for |-> r.for, id |-> ClientIdOf[w.call], refused |-> r.refused]]
    /\ sentTo' = [sentTo EXCEPT ![w.call] = NoProc]
    /\ UNCHANGED <<procVars, reason, localInit, nextId, sawInitialized>>

(* The reply to the front end's own `initialize`: `initialized` follows,    *)
(* and every local call that waited proceeds, or fails with the write.      *)
AfterLocalInit == "null"

finishLocalInit ==
    /\ localInit' = AfterLocalInit
    /\ sawInitialized' = TRUE
    /\ \/ /\ Deliverable(TRUE, <<Note>>)
          /\ status' = [c \in Calls |-> IF c \in Initializing THEN "proceed" ELSE status[c]]
          /\ UNCHANGED reason
       \/ \E why \in Reasons :
          /\ Undeliverable(why)
          /\ status' = [c \in Calls |-> IF c \in Initializing THEN "failed" ELSE status[c]]
          /\ reason' = [c \in Calls |-> IF c \in Initializing THEN why ELSE reason[c]]
    /\ UNCHANGED <<answer, sentTo, nextId>>

(* The readline 'line' listener of process p, whichever process is current. *)
DeliverLine(p) ==
    \E r \in outbox[p] :
       /\ outbox' = [outbox EXCEPT ![p] = @ \ {r}]
       /\ \/ \E w \in pending :
               /\ w.id = r.id
               /\ pending' = pending \ {w}
               /\ \/ w.call # LocalInit /\ resolve(w, r)
                  \/ w.call = LocalInit /\ finishLocalInit
          \/ /\ \A w \in pending : w.id # r.id
             /\ UNCHANGED <<procVars, pending, status, reason, answer, localInit,
                            sentTo, nextId, sawInitialized>>
       /\ UNCHANGED <<askedAfter, lastExit, notes>>

(* Reject the waiters W and drop them from the Map; a failed `initialize`   *)
(* fails every local call that waits for it.                                *)
RejectKeepsEntry(W, why) ==                                    \* mutant
    /\ status' = [c \in Calls |-> IF \E w \in W : w.call = c THEN "failed" ELSE status[c]]
    /\ reason' = [c \in Calls |-> IF \E w \in W : w.call = c THEN why ELSE reason[c]]
    /\ UNCHANGED <<pending, localInit, answer, sentTo, askedAfter>>

reject(W, why) ==
    LET local == \E w \in W : w.call = LocalInit
        lost  == {c \in Calls : \/ \E w \in W : w.call = c
                                \/ local /\ c \in Initializing}
    IN  /\ pending' = pending \ W
        /\ status' = [c \in Calls |-> IF c \in lost THEN "failed" ELSE status[c]]
        /\ reason' = [c \in Calls |-> IF c \in lost THEN why ELSE reason[c]]
        /\ sentTo' = [c \in Calls |-> IF c \in lost THEN NoProc ELSE sentTo[c]]
        /\ localInit' = IF local THEN "null" ELSE localInit
        /\ UNCHANGED <<answer, askedAfter>>

KeepPending(why) == UNCHANGED callVars                         \* mutant
failAllPending(why) == reject(pending, why)

TimeOut ==
    /\ \E w \in pending : reject({w}, "timed out")
    /\ UNCHANGED <<procVars, outbox, nextId, sawInitialized, lastExit, notes>>

(***************************************************************************)
(* The three ways a child is lost.  Each listener belongs to one process,  *)
(* but pending is shared by all of them.                                   *)
(***************************************************************************)
discard(p) == child' = IF child = p THEN NoProc ELSE child

processError(p) ==
    /\ proc[p].os = "unspawnable" /\ ~proc[p].seen
    /\ proc' = [proc EXCEPT ![p].seen = TRUE]
    /\ lastExit' = "recent"
    /\ failAllPending("process error")
    /\ discard(p)
    /\ UNCHANGED <<spawned, inbox, ready, working, outbox, nextId, sawInitialized, notes>>

StdinErrorNoKill(p) ==                                         \* mutant
    /\ proc[p].stdin = "destroyed"
    /\ proc' = [proc EXCEPT ![p].stdin = "errored"]
    /\ lastExit' = "recent"
    /\ failAllPending("stdin error")
    /\ discard(p)
    /\ UNCHANGED <<spawned, inbox, ready, working, outbox, nextId, sawInitialized, notes>>

stdinError(p) ==
    /\ proc[p].stdin = "destroyed"
    /\ proc' = [proc EXCEPT ![p].stdin = "errored", ![p].killed = TRUE]
    /\ lastExit' = "recent"
    /\ failAllPending("stdin error")
    /\ discard(p)
    /\ UNCHANGED <<spawned, inbox, ready, working, outbox, nextId, sawInitialized, notes>>

childExit(p) ==
    /\ proc[p].os = "dead" /\ ~proc[p].seen
    /\ proc[p].stdin # "destroyed"      \* its 'error' is delivered on the next tick
    /\ proc' = [proc EXCEPT ![p].seen = TRUE]
    /\ lastExit' = "recent"
    /\ failAllPending("exited")
    /\ discard(p)
    /\ UNCHANGED <<spawned, inbox, ready, working, outbox, nextId, sawInitialized, notes>>

(* Date.now() - lastExit.at reaches RESPAWN_BACKOFF_MS.                     *)
BackoffElapses ==
    /\ lastExit = "recent"
    /\ lastExit' = "past"
    /\ PromptReap => \A p \in Procs : proc[p].killed => proc[p].seen
    /\ UNCHANGED <<procVars, outbox, callVars, nextId, sawInitialized, notes>>

-----------------------------------------------------------------------------
(***************************************************************************)
(* The child process (bridge.mjs) and the operating system.                *)
(***************************************************************************)
(* handleMessage: the handshake gate, before any tool is dispatched.        *)
ChildReads(p) ==
    /\ proc[p].os = "running" /\ inbox[p] # <<>>
    /\ inbox' = [inbox EXCEPT ![p] = Tail(@)]
    /\ LET m == Head(inbox[p])
           open == ready[p] \/ m.call \in Ungated \cup {LocalInit}
       IN  \/ /\ m.kind = "initialized"
              /\ ready' = [ready EXCEPT ![p] = TRUE]
              /\ UNCHANGED <<working, outbox>>
           \/ /\ m.kind = "request" /\ open
              /\ working' = [working EXCEPT ![p] = @ \cup {m}]
              /\ UNCHANGED <<ready, outbox>>
           \/ /\ m.kind = "request" /\ ~open
              /\ outbox' = [outbox EXCEPT ![p] =
                              @ \cup {[id |-> m.id, for |-> m.call, refused |-> TRUE]}]
              /\ UNCHANGED <<ready, working>>
    /\ UNCHANGED <<child, spawned, proc, callVars, nextId, sawInitialized, lastExit, notes>>

(* Handlers are concurrent, so replies come in any order.                   *)
ChildReplies(p) ==
    /\ proc[p].os = "running"
    /\ \E m \in working[p] :
         /\ working' = [working EXCEPT ![p] = @ \ {m}]
         /\ outbox' = [outbox EXCEPT ![p] =
                         @ \cup {[id |-> m.id, for |-> m.call, refused |-> FALSE]}]
    /\ UNCHANGED <<child, spawned, proc, inbox, ready, callVars, nextId,
                   sawInitialized, lastExit, notes>>

(* By itself or by the SIGKILL of stdinError; what it wrote stays readable. *)
ChildDies(p) ==
    /\ proc[p].os = "running"
    /\ proc[p].killed \/ p < MaxSpawns
    /\ proc' = [proc EXCEPT ![p].os = "dead"]
    /\ inbox' = [inbox EXCEPT ![p] = <<>>]
    /\ working' = [working EXCEPT ![p] = {}]
    /\ ready' = [ready EXCEPT ![p] = FALSE]
    /\ UNCHANGED <<child, spawned, outbox, callVars, nextId, sawInitialized,
                   lastExit, notes>>

StdinBreaks(p) ==
    /\ proc[p].os \in {"running", "dead"} /\ alive(p) /\ p < MaxSpawns
    /\ proc' = [proc EXCEPT ![p].stdin = "destroyed"]
    /\ UNCHANGED <<child, spawned, inbox, ready, working, outbox, callVars, nextId,
                   sawInitialized, lastExit, notes>>

-----------------------------------------------------------------------------
Lose(p) == processError(p) \/ stdinError(p) \/ childExit(p)

Next ==
    \/ \E c \in Calls : ClientRequest(c) \/ LocalRequest(c) \/ LocalProceed(c)
    \/ ClientNotify
    \/ TimeOut
    \/ BackoffElapses
    \/ \E p \in Procs : \/ DeliverLine(p) \/ Lose(p)
                        \/ ChildReads(p) \/ ChildReplies(p)
                        \/ ChildDies(p) \/ StdinBreaks(p)

Spec == Init /\ [][Next]_vars

(***************************************************************************)
(* Node delivers every event that has happened, an await that can resume   *)
(* resumes, a SIGKILLed process dies, and a live bridge reads its stdin    *)
(* and finishes what it is working on.  Nobody is obliged to send, to die, *)
(* to break or to time out.                                                *)
(***************************************************************************)
Fairness ==
    /\ WF_vars(BackoffElapses)
    /\ \A c \in Calls : WF_vars(LocalProceed(c))
    /\ \A p \in Procs : /\ WF_vars(DeliverLine(p))
                        /\ WF_vars(Lose(p))
                        /\ WF_vars(ChildReads(p))
                        /\ WF_vars(ChildReplies(p))
                        /\ WF_vars(proc[p].killed /\ ChildDies(p))

FairSpec == Spec /\ Fairness

-----------------------------------------------------------------------------
(***************************************************************************)
(* Correctness.                                                            *)
(***************************************************************************)
ProcType == [os: {"absent", "running", "unspawnable", "dead"}, seen: BOOLEAN,
             stdin: {"open", "destroyed", "errored"}, killed: BOOLEAN]

(* Every variable keeps its type. *)
TypeOK ==
    /\ child \in Procs \cup {NoProc} /\ spawned \in 0..MaxSpawns
    /\ proc \in [Procs -> ProcType]
    /\ inbox \in [Procs -> Seq(Message)]
    /\ ready \in [Procs -> BOOLEAN]
    /\ working \in [Procs -> SUBSET Message]
    /\ outbox \in [Procs -> SUBSET Replies]
    /\ pending \subseteq [id: Nat, call: Askers]
    /\ nextId \in Nat \ {0}
    /\ sawInitialized \in BOOLEAN
    /\ lastExit \in {"null", "recent", "past"}
    /\ localInit \in {"null", "asking"}
    /\ status \in [Calls -> Status]
    /\ reason \in [Calls -> Reasons]
    /\ answer \in [Calls -> [for: Askers \cup {NoCall}, id: {ClientIdOf[c] : c \in Calls} \cup {0},
                             refused: BOOLEAN]]
    /\ notes \in 0..MaxNotes
    /\ sentTo \in [Calls -> Procs \cup {NoProc}]
    /\ askedAfter \in [Calls -> BOOLEAN]

(* A client is only ever answered with the reply to its own request, under  *)
(* its own id, however many clients use that id, whichever request timed    *)
(* out or whichever child died meanwhile (pending, register, wireChild).    *)
RightAnswer ==
    \A c \in Calls : status[c] = "answered" =>
        answer[c].for = c /\ answer[c].id = ClientIdOf[c]

(* Once any client has completed the handshake, no request is refused with  *)
(* -32002, also not by a replacement child: the replay in startChild comes  *)
(* before every request written to it.                                      *)
HandshakeSurvivesRestart ==
    \A c \in Calls : askedAfter[c] => ~answer[c].refused

(* There is one bridge to wait for: whoever waits, waits for the current    *)
(* child, or only its timer could settle it; ensureChild never hands back a *)
(* process whose loss was already reported; and a replacement is never      *)
(* started beside an abandoned unrestricted shell (stdin 'error' listener). *)
OneUsableBridge ==
    /\ \A c \in Calls : status[c] = "waiting" =>
          /\ sentTo[c] = child
          /\ \E w \in pending : w.call = c
    /\ child # NoProc => ~proc[child].seen /\ proc[child].stdin # "errored"
    /\ \A p, q \in Procs :
          /\ proc[p].os = "running" /\ ~proc[p].killed
          /\ proc[q].os = "running" /\ ~proc[q].killed
          => p = q

(* When a SIGKILLed child is reaped within the back-off, a request fails    *)
(* for the loss of a child only if that was the child it was written to.    *)
FailsWithOwnChild ==
    [][\A c \in Calls :
         /\ status[c] = "waiting" /\ status'[c] = "failed" /\ reason'[c] # "timed out"
         => \E p \in Procs :
              /\ p = sentTo[c]
              /\ proc'[p].seen \/ proc'[p].stdin = "errored"]_vars

(* No loss of a child strands a request: without any timer firing, every    *)
(* request that was accepted is answered or fails.                          *)
RequestsSettle ==
    \A c \in Calls : status[c] \in {"initializing", "waiting"} ~> Settled(c)

(***************************************************************************)
(* The front end implements CorrelatedCalls.                               *)
(***************************************************************************)
Correlated == INSTANCE CorrelatedCalls WITH
    state <- [c \in Calls |->
                CASE status[c] \in {"initializing", "proceed", "waiting"} -> "open"
                  [] OTHER -> status[c]],
    reply <- [c \in Calls |-> answer[c].for]

(* Every step of the front end settles requests the way CorrelatedCalls     *)
(* allows: each once, and only with its own reply (wireChild, register).    *)
ImplementsCorrelatedCalls == Correlated!Spec

=============================================================================
