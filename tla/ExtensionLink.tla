--------------------------- MODULE ExtensionLink ---------------------------
(***************************************************************************)
(* The link between the bridge and the Chrome extension: connect of        *)
(* src/chrome-extension/service-worker.js, the native host                 *)
(* src/scripts/chrome-native-host.mjs and the client of the host's socket, *)
(* src/lib/chrome-extension-client.mjs.                                    *)
(*                                                                         *)
(* The worker opens a native port; Chrome starts a host process for it,    *)
(* which listens on a socket whose path all hosts share.  The bridge       *)
(* connects to whatever the path names, once per request.  The host        *)
(* relays the request when the extension has introduced itself from the    *)
(* profile the host is bound to.  A host ends with its port, a worker may  *)
(* be stopped and started at any time, and hosts overlap.                  *)
(*                                                                         *)
(* A host shuts down for one of three reasons: its port was closed, a      *)
(* signal came, or the worker sent it a message of an invalid length.      *)
(* Only the first two make it exit, and what they await can be cut short   *)
(* by the other.                                                           *)
(*                                                                         *)
(* Left out: the pid file, the limits on the sizes of requests and the     *)
(* rule on URL patterns.  The client names its requests by random ids,     *)
(* never twice.                                                            *)
(***************************************************************************)
EXTENDS Naturals, FiniteSets

CONSTANTS Hosts,      \* native host processes; one that exited may be another
          Requests,   \* calls of the bridge, each made once
          None,
          MaxFaults   \* bound: workers stopped, hosts signalled or killed,
                      \* ports refused, answers too large

ASSUME LinkAssumption == None \notin Hosts /\ MaxFaults \in Nat

VARIABLES
    worker,   \* where connect() is in the worker, if there is a worker
    port,     \* the host the worker's port leads to
    profile,  \* what getProfileUserInfo said: the bound profile or another
    host,     \* per host, where it is in its life
    hello,    \* per host, the profile its "ready" message, under way, names
    ready,    \* hosts whose extensionReady is set
    jammed,   \* hosts whose nativeBuffer begins with an invalid length
    path,     \* the host whose socket the path names
    req,      \* per request, what the client knows of it
    at,       \* the host it was sent to
    running,  \* requests dispatched in the worker
    ran,      \* history: the profiles a request ran in
    late,     \* history: hosts made ready after they had begun to close
    faults

link  == <<worker, port, profile>>
hosts == <<host, hello, ready, jammed, late, path>>
calls == <<req, at, running, ran>>
vars  == <<link, hosts, calls, faults>>

(* ending: the port was closed; closing: a signal came; stranding: the     *)
(* host shuts down for an invalid message, and is stranded afterwards.     *)
Closing  == {"ending", "closing", "stranding"}
Profiles == {"bound", "other"}
Waiting  == {"sent", "pending"}

Init ==
    /\ worker = "asking" /\ port = None /\ profile = "other"
    /\ host = [h \in Hosts |-> "exited"] /\ path = None
    /\ hello = [h \in Hosts |-> None] /\ ready = {}
    /\ jammed = {} /\ late = {}
    /\ req = [r \in Requests |-> "new"] /\ at = [r \in Requests |-> None]
    /\ running = {} /\ ran = [r \in Requests |-> {}]
    /\ faults = 0

Fault == faults < MaxFaults /\ faults' = faults + 1

WaitingAt(h) == {r \in Requests : at[r] = h /\ req[r] \in Waiting}
Unused(h)    == host[h] = "exited" /\ h # path /\ h # port

fail(rs) == req' = [r \in Requests |-> IF r \in rs THEN "failed" ELSE req[r]]

-----------------------------------------------------------------------------
(***************************************************************************)
(* The worker.                                                             *)
(***************************************************************************)
(* connect: the profile is read, then the port is opened, or refused.      *)
OpenPort ==
    /\ worker = "asking"
    /\ profile' \in Profiles
    /\ \/ /\ \E h \in Hosts : Unused(h)
          /\ LET h == CHOOSE x \in Hosts : Unused(x)
             IN /\ port' = h
                /\ host' = [host EXCEPT ![h] = "booting"]
                /\ hello' = [hello EXCEPT ![h] = None]
                /\ jammed' = jammed \ {h} /\ late' = late \ {h}
          /\ worker' = "opening"
          /\ UNCHANGED faults
       \/ /\ Fault
          /\ worker' = "waiting"
          /\ UNCHANGED <<port, host, hello, jammed, late>>
    /\ UNCHANGED <<ready, path, calls>>

(* The workspace was looked at; the listeners are attached only now.  The  *)
(* end of a host that exited meanwhile was not heard, and the "ready"      *)
(* message throws: connect ends, and nothing calls it again.               *)
Attach ==
    /\ worker = "opening"
    /\ IF host[port] = "exited"
       THEN worker' = "deaf" /\ UNCHANGED hello
       ELSE worker' = "linked" /\ hello' = [hello EXCEPT ![port] = profile]
    /\ UNCHANGED <<port, profile, host, ready, jammed, late, path, calls, faults>>

(* onDisconnect, and scheduleReconnect.                                    *)
Disconnected ==
    /\ worker = "linked" /\ host[port] = "exited"
    /\ worker' = "waiting" /\ port' = None
    /\ UNCHANGED <<profile, hosts, calls, faults>>

Reconnect ==
    /\ worker = "waiting"
    /\ worker' = "asking"
    /\ UNCHANGED <<port, profile, hosts, calls, faults>>

(* Chrome stops the worker, or reloads the extension, and starts it again. *)
WorkerStops ==
    /\ Fault
    /\ worker # "gone"
    /\ worker' = "gone" /\ port' = None /\ running' = {}
    /\ UNCHANGED <<profile, hosts, req, at, ran>>

WorkerStarts ==
    /\ worker = "gone"
    /\ worker' = "asking"
    /\ UNCHANGED <<port, profile, hosts, calls, faults>>

(* The host reads what its port brings until the port is closed or a       *)
(* length is invalid, while it closes after a signal too.                  *)
Listens(h) == host[h] \in {"open", "closing"} /\ h \notin jammed

(* The answer goes to the port there is by then; a host that does not      *)
(* expect it ignores it.                                                   *)
Answer(r) ==
    /\ r \in running
    /\ running' = running \ {r}
    /\ req' = IF worker = "linked" /\ port = at[r] /\ Listens(port)
                 /\ req[r] = "pending"
              THEN [req EXCEPT ![r] = "answered"] ELSE req
    /\ UNCHANGED <<link, hosts, at, ran, faults>>

-----------------------------------------------------------------------------
(***************************************************************************)
(* The native host.                                                        *)
(***************************************************************************)
KeepSocket(h) ==                                                  \* mutant
    /\ host[h] = "booting"
    /\ host' = [host EXCEPT ![h] = "binding"]
    /\ UNCHANGED <<link, hello, ready, jammed, late, path, calls, faults>>

(* removeSocket: whatever the path names is unlinked.                      *)
Unlink(h) ==
    /\ host[h] = "booting"
    /\ host' = [host EXCEPT ![h] = "binding"]
    /\ path' = None
    /\ UNCHANGED <<link, hello, ready, jammed, late, calls, faults>>

(* listen fails when another host took the path in between.                *)
Listen(h) ==
    /\ host[h] = "binding"
    /\ IF path = None
       THEN host' = [host EXCEPT ![h] = "open"] /\ path' = h
       ELSE host' = [host EXCEPT ![h] = "exited"] /\ UNCHANGED path
    /\ UNCHANGED <<link, hello, ready, jammed, late, calls, faults>>

AnyProfile(h) ==                                                  \* mutant
    /\ Listens(h) /\ hello[h] # None
    /\ ready' = ready \union {h}
    /\ hello' = [hello EXCEPT ![h] = None]
    /\ UNCHANGED <<link, host, jammed, late, path, calls, faults>>

(* The extension introduces itself, to a host that closes already if a     *)
(* signal overtook the message.                                            *)
Ready(h) ==
    /\ Listens(h) /\ hello[h] # None
    /\ ready' = IF hello[h] = "bound" THEN ready \union {h} ELSE ready \ {h}
    /\ late' = IF hello[h] = "bound" /\ host[h] = "closing" THEN late \union {h} ELSE late
    /\ hello' = [hello EXCEPT ![h] = None]
    /\ UNCHANGED <<link, host, jammed, path, calls, faults>>

(* The host reads a request: it is relayed or refused.                     *)
Read(r) ==
    /\ req[r] = "sent"
    /\ IF at[r] \in ready
       THEN /\ req' = [req EXCEPT ![r] = "pending"]
            /\ IF worker = "linked" /\ port = at[r]
               THEN /\ running' = running \union {r}
                    /\ ran' = [ran EXCEPT ![r] = @ \union {profile}]
               ELSE UNCHANGED <<running, ran>>
       ELSE fail({r}) /\ UNCHANGED <<running, ran>>
    /\ UNCHANGED <<link, hosts, at, faults>>

HostTimer(r) ==
    /\ req[r] = "pending"
    /\ fail({r})
    /\ UNCHANGED <<link, hosts, at, running, ran, faults>>

StillReady(h, why) ==                                             \* mutant
    /\ host[h] = "open"
    /\ host' = [host EXCEPT ![h] = why]
    /\ path' = None
    /\ fail({r \in WaitingAt(h) : req[r] = "pending"})
    /\ UNCHANGED <<link, hello, ready, late, at, ran>>

(* shutdown: everything pending is answered, and server.close takes no     *)
(* more connections; with the socket goes whatever the path names by now.  *)
shutdown(h, why) ==
    /\ host[h] = "open"
    /\ host' = [host EXCEPT ![h] = why]
    /\ ready' = ready \ {h}
    /\ path' = None
    /\ fail({r \in WaitingAt(h) : req[r] = "pending"})
    /\ UNCHANGED <<link, hello, late, at, ran>>

(* A second end or signal finds shuttingDown set and awaits nothing: the   *)
(* process exits, and the connections it had break.                        *)
quit(h) ==
    /\ host[h] \in Closing \union {"stranded"}
    /\ host' = [host EXCEPT ![h] = "exited"]
    /\ ready' = ready \ {h}
    /\ fail(WaitingAt(h))
    /\ UNCHANGED <<link, hello, late, path, at, ran>>

StdinEnds(h) ==
    /\ port # h /\ host[h] # "ending"
    /\ shutdown(h, "ending") \/ quit(h)
    /\ UNCHANGED <<jammed, running, faults>>

Signalled(h) ==
    /\ Fault
    /\ shutdown(h, "closing") \/ quit(h)
    /\ UNCHANGED <<jammed, running>>

(* An answer above MAX_NATIVE_MESSAGE_BYTES: the host shuts down without   *)
(* an exit, and reads this length again with whatever comes after it.      *)
TooLarge(r) ==
    /\ Fault
    /\ r \in running /\ worker = "linked" /\ Listens(port) /\ hello[port] = None
    /\ running' = running \ {r}
    /\ jammed' = jammed \union {port}
    /\ \/ shutdown(port, "stranding")
       \/ host[port] = "closing" /\ UNCHANGED <<link, host, hello, ready, late, path, req, at, ran>>

(* server.close has waited for the connections there were; then the path   *)
(* is unlinked, whoever owns it by now.  Only the handlers of stdin's end  *)
(* and of signals exit after that.                                         *)
Leave(h) ==
    /\ host[h] \in Closing /\ WaitingAt(h) = {}
    /\ host' = [host EXCEPT ![h] = IF @ = "stranding" THEN "stranded" ELSE "exited"]
    /\ ready' = ready \ {h}
    /\ path' = None
    /\ UNCHANGED <<link, hello, jammed, late, calls, faults>>

(* Killed, or ended by an error before it listens; the path stays.         *)
Killed(h) ==
    /\ Fault
    /\ host[h] # "exited"
    /\ host' = [host EXCEPT ![h] = "exited"]
    /\ ready' = ready \ {h}
    /\ fail(WaitingAt(h))
    /\ UNCHANGED <<link, hello, jammed, late, path, at, running, ran>>

-----------------------------------------------------------------------------
(***************************************************************************)
(* The client: backgroundChromeCall.                                       *)
(***************************************************************************)
Call(r) ==
    /\ req[r] = "new"
    /\ IF path # None /\ host[path] = "open"
       THEN req' = [req EXCEPT ![r] = "sent"] /\ at' = [at EXCEPT ![r] = path]
       ELSE fail({r}) /\ UNCHANGED at
    /\ UNCHANGED <<link, hosts, running, ran, faults>>

ClientTimer(r) ==
    /\ req[r] \in Waiting
    /\ fail({r})
    /\ UNCHANGED <<link, hosts, at, running, ran, faults>>

WorkerStep == OpenPort \/ Attach \/ Disconnected \/ Reconnect \/ WorkerStarts
HostStep(h) == Unlink(h) \/ Listen(h) \/ Ready(h) \/ StdinEnds(h) \/ Leave(h)
RequestStep(r) == Read(r) \/ Answer(r) \/ HostTimer(r) \/ ClientTimer(r)

Next ==
    \/ WorkerStep \/ WorkerStops
    \/ \E h \in Hosts : HostStep(h) \/ Signalled(h) \/ Killed(h)
    \/ \E r \in Requests : Call(r) \/ RequestStep(r) \/ TooLarge(r)

Spec == Init /\ [][Next]_vars

(* Chrome runs the worker, the system the hosts; timers fire and sockets   *)
(* are read.                                                               *)
Fairness == /\ WF_vars(WorkerStep)
            /\ \A h \in Hosts : WF_vars(HostStep(h))
            /\ \A r \in Requests : WF_vars(RequestStep(r))

FairSpec == Spec /\ Fairness

-----------------------------------------------------------------------------
(* Every variable has its type.                                            *)
TypeOK ==
    /\ worker \in {"asking", "opening", "linked", "waiting", "deaf", "gone"}
    /\ port \in Hosts \union {None} /\ profile \in Profiles
    /\ host \in [Hosts -> {"booting", "binding", "open", "stranded", "exited"} \union Closing]
    /\ hello \in [Hosts -> Profiles \union {None}] /\ ready \subseteq Hosts
    /\ jammed \subseteq Hosts /\ late \subseteq Hosts
    /\ path \in Hosts \union {None}
    /\ req \in [Requests -> Waiting \union {"new", "answered", "failed"}]
    /\ at \in [Requests -> Hosts \union {None}] /\ running \subseteq Requests
    /\ ran \in [Requests -> SUBSET Profiles] /\ faults \in 0..MaxFaults

(* A host that shuts down answers what it owes: a request it relayed does  *)
(* not outlive the shutdown, so that closing waits for nobody but readers  *)
(* of a refusal.  The one exception is a host the extension introduced     *)
(* itself to while it closed, after a signal: it relays again, and closing *)
(* waits for the answer or a timer.  None leaves before it has settled     *)
(* all (shutdown, rejectAll, the socket handler's extensionReady).         *)
ShutdownAnswersAll ==
    /\ TypeOK
    /\ \A r \in Requests : req[r] \in Waiting =>
          /\ host[at[r]] \in {"open"} \union Closing
          /\ req[r] = "pending" =>
                host[at[r]] = "open" \/ (host[at[r]] = "closing" /\ at[r] \in late)

(* Nothing is done in a profile the host is not bound to, however workers, *)
(* ports and hosts overlap; and what is answered was done                  *)
(* (handleNativeMessage, the socket handler).                              *)
RunsInBoundProfile ==
    \A r \in Requests : /\ ran[r] \subseteq {"bound"}
                        /\ req[r] = "answered" => ran[r] # {}

(* Once workers and hosts are left alone, the extension is linked to a     *)
(* host that runs.  Two workers are lost to it: one whose host exited      *)
(* before onDisconnect was attached, and one that sent its host an invalid *)
(* length, whose host has shut down and keeps the port open                *)
(* (connect, scheduleReconnect, parseNativeChunk).                         *)
Reconnects ==
    <>[](\/ worker = "deaf"
         \/ worker = "linked" /\ host[port] \in {"open", "stranded"})
=============================================================================
