----------------------- MODULE ExtensionLink_proofs -----------------------
(***************************************************************************)
(* The safety of the extension link, for any number of hosts, requests and *)
(* faults.                                                                 *)
(*                                                                         *)
(* RunsInBoundProfile rests on what a "ready" message can mean by the time *)
(* it is read: it is on its way only to the host whose port the worker     *)
(* had when it attached, it names the profile the worker had then, and a   *)
(* process that was just started has seen none.  ShutdownAnswersAll rests  *)
(* on readiness ending with the shutdown: a host is ready only while it is *)
(* open, or if it was made ready again after a signal.                     *)
(***************************************************************************)
EXTENDS ExtensionLink, TLAPS

(* What a host was told agrees with the worker whose port leads to it.     *)
ToldTheProfile ==
    /\ worker = "opening" => port \in Hosts /\ hello[port] = None /\ port \notin ready
    /\ worker = "linked" => /\ port \in Hosts
                            /\ hello[port] \in {None, profile}
                            /\ port \in ready => profile = "bound"

ReadyIsOpen ==
    \A h \in ready : host[h] = "open" \/ (host[h] = "closing" /\ h \in late)

WaitingIsServed ==
    \A r \in Requests : req[r] \in Waiting =>
        /\ at[r] \in Hosts
        /\ host[at[r]] \in {"open"} \union Closing
        /\ req[r] = "pending" =>
              host[at[r]] = "open" \/ (host[at[r]] = "closing" /\ at[r] \in late)

RanBound ==
    \A r \in Requests : /\ ran[r] \subseteq {"bound"}
                        /\ r \in running \/ req[r] = "answered" => ran[r] # {}

Inv == TypeOK /\ ToldTheProfile /\ ReadyIsOpen /\ WaitingIsServed /\ RanBound

-----------------------------------------------------------------------------
LEMMA InvInit == Init => Inv
<1> SUFFICES ASSUME Init PROVE Inv
  OBVIOUS
<1>1. TypeOK
  BY LinkAssumption DEF Init, TypeOK, Profiles, Waiting
<1>2. ToldTheProfile /\ ReadyIsOpen
  BY DEF Init, ToldTheProfile, ReadyIsOpen
<1>3. WaitingIsServed /\ RanBound
  BY DEF Init, WaitingIsServed, RanBound, Waiting
<1> QED
  BY <1>1, <1>2, <1>3 DEF Inv

(* A fault is one more of those allowed.                                   *)
LEMMA FaultType ==
    ASSUME faults \in 0..MaxFaults, Fault
    PROVE  faults' \in 0..MaxFaults
BY LinkAssumption DEF Fault

(* Requests that fail need nothing of their host.                          *)
LEMMA FailKeeps ==
    ASSUME TypeOK, NEW rs \in SUBSET Requests, fail(rs)
    PROVE  /\ req' \in [Requests -> Waiting \union {"new", "answered", "failed"}]
           /\ \A r \in Requests : req'[r] = IF r \in rs THEN "failed" ELSE req[r]
BY DEF TypeOK, fail

-----------------------------------------------------------------------------
(* The worker's steps leave requests and sockets alone.                    *)
LEMMA WorkerKeeps == Inv /\ (WorkerStep \/ WorkerStops) => Inv'
<1> SUFFICES ASSUME Inv, WorkerStep \/ WorkerStops PROVE Inv'
  OBVIOUS
<1> USE DEF Inv, calls, hosts, link
<1>1. CASE OpenPort
  <2>1. CASE worker' = "waiting" /\ Fault /\ UNCHANGED <<port, host, hello, ready, jammed, late, path, calls>>
             /\ profile' \in Profiles
    <3>1. TypeOK'
      BY <2>1, FaultType DEF TypeOK
    <3> QED
      BY <2>1, <3>1 DEF ToldTheProfile, ReadyIsOpen, WaitingIsServed, RanBound
  <2>2. ASSUME NEW h \in Hosts, Unused(h), port' = h, worker' = "opening",
               host' = [host EXCEPT ![h] = "booting"],
               hello' = [hello EXCEPT ![h] = None],
               jammed' = jammed \ {h}, late' = late \ {h},
               UNCHANGED <<faults, ready, path, calls>>, profile' \in Profiles
        PROVE  Inv'
    <3>1. TypeOK'
      BY <2>2 DEF TypeOK
    <3>2. h \notin ready /\ host[h] = "exited"
      BY <2>2 DEF Unused, ReadyIsOpen
    <3>3. ToldTheProfile' /\ ReadyIsOpen'
      BY <2>2, <3>2 DEF ToldTheProfile, ReadyIsOpen, TypeOK
    <3>4. WaitingIsServed' /\ RanBound'
      BY <2>2, <3>2 DEF WaitingIsServed, RanBound, TypeOK, Closing
    <3> QED
      BY <3>1, <3>3, <3>4
  <2> QED
    BY <1>1, <2>1, <2>2 DEF OpenPort
<1>2. CASE Attach
  <2>1. TypeOK'
    BY <1>2 DEF Attach, TypeOK, ToldTheProfile
  <2>2. ToldTheProfile'
    BY <1>2 DEF Attach, TypeOK, ToldTheProfile
  <2> QED
    BY <1>2, <2>1, <2>2 DEF Attach, ReadyIsOpen, WaitingIsServed, RanBound
<1>3. CASE Disconnected \/ Reconnect \/ WorkerStarts
  <2>1. TypeOK'
    BY <1>3 DEF Disconnected, Reconnect, WorkerStarts, TypeOK
  <2> QED
    BY <1>3, <2>1 DEF Disconnected, Reconnect, WorkerStarts, ToldTheProfile,
       ReadyIsOpen, WaitingIsServed, RanBound
<1>4. CASE WorkerStops
  <2>1. TypeOK'
    BY <1>4, FaultType DEF WorkerStops, TypeOK
  <2> QED
    BY <1>4, <2>1 DEF WorkerStops, ToldTheProfile, ReadyIsOpen, WaitingIsServed, RanBound
<1> QED
  BY <1>1, <1>2, <1>3, <1>4 DEF WorkerStep

(* A host that comes up has nothing relayed and is not ready.              *)
LEMMA BootKeeps ==
    ASSUME Inv, NEW h \in Hosts, Unlink(h) \/ Listen(h) \/ Ready(h)
    PROVE  Inv'
<1> USE DEF Inv, calls, hosts, link
<1>1. CASE Unlink(h) \/ Listen(h)
  <2>1. host[h] \in {"booting", "binding"} /\ h \notin ready
    BY <1>1 DEF Unlink, Listen, ReadyIsOpen
  <2>2. /\ UNCHANGED <<worker, port, profile, hello, ready, jammed, late, req, at,
                        running, ran, faults>>
        /\ host' \in [Hosts -> {"booting", "binding", "open", "stranded", "exited"}
                                \union Closing]
        /\ \A g \in Hosts \ {h} : host'[g] = host[g]
        /\ path' \in Hosts \union {None}
    BY <1>1 DEF Unlink, Listen, TypeOK
  <2>3. TypeOK' /\ ToldTheProfile' /\ RanBound'
    BY <2>2 DEF TypeOK, ToldTheProfile, RanBound
  <2>4. ReadyIsOpen'
    BY <2>1, <2>2 DEF ReadyIsOpen, TypeOK
  <2>5. WaitingIsServed'
    BY <2>1, <2>2 DEF WaitingIsServed, Closing
  <2> QED
    BY <2>3, <2>4, <2>5
<1>2. CASE Ready(h)
  <2>1. TypeOK'
    BY <1>2 DEF Ready, TypeOK
  <2>2. ToldTheProfile'
    BY <1>2 DEF Ready, TypeOK, ToldTheProfile
  <2>3. ReadyIsOpen'
    BY <1>2 DEF Ready, Listens, ReadyIsOpen
  <2>4. late \subseteq late'
    BY <1>2 DEF Ready
  <2>5. WaitingIsServed'
    BY <1>2, <2>4 DEF Ready, WaitingIsServed
  <2> QED
    BY <1>2, <2>1, <2>2, <2>3, <2>5 DEF Ready, RanBound
<1> QED
  BY <1>1, <1>2

(* A host that shuts down is not ready any more and owes nothing.          *)
LEMMA ShutdownKeeps ==
    ASSUME Inv, NEW h \in Hosts, NEW why \in Closing, shutdown(h, why),
           jammed' \in SUBSET Hosts, running' \in SUBSET running, faults' \in 0..MaxFaults
    PROVE  Inv'
<1> USE DEF Inv, calls, hosts, link
<1>1. /\ UNCHANGED <<worker, port, profile, hello, late, at, ran>>
      /\ host[h] = "open" /\ host' = [host EXCEPT ![h] = why]
      /\ ready' = ready \ {h} /\ path' = None
      /\ \A r \in Requests : req'[r] = IF at[r] = h /\ req[r] = "pending"
                                       THEN "failed" ELSE req[r]
      /\ req' \in [Requests -> Waiting \union {"new", "answered", "failed"}]
  <2>1. {r \in WaitingAt(h) : req[r] = "pending"} \in SUBSET Requests
    BY DEF WaitingAt
  <2> QED
    BY <2>1, FailKeeps DEF shutdown, WaitingAt, Waiting
<1>2. TypeOK'
  BY <1>1 DEF TypeOK
<1>3. ToldTheProfile' /\ ReadyIsOpen'
  BY <1>1 DEF ToldTheProfile, ReadyIsOpen, TypeOK
<1>4. WaitingIsServed'
  <2> SUFFICES ASSUME NEW r \in Requests, req'[r] \in Waiting
               PROVE  /\ at'[r] \in Hosts
                      /\ host'[at'[r]] \in {"open"} \union Closing
                      /\ req'[r] = "pending" =>
                            \/ host'[at'[r]] = "open"
                            \/ host'[at'[r]] = "closing" /\ at'[r] \in late'
    BY DEF WaitingIsServed
  <2>1. req[r] = req'[r] /\ at' = at /\ (at[r] = h => req[r] # "pending")
    BY <1>1 DEF Waiting
  <2>2. CASE at[r] = h
    BY <1>1, <2>1, <2>2 DEF TypeOK
  <2>3. CASE at[r] # h
    BY <1>1, <2>1, <2>3 DEF TypeOK, WaitingIsServed
  <2> QED
    BY <2>2, <2>3
<1>5. RanBound'
  BY <1>1 DEF RanBound
<1> QED
  BY <1>2, <1>3, <1>4, <1>5

(* A host leaves when nobody waits for it, or takes its requests along.    *)
LEMMA EndKeeps ==
    ASSUME Inv, NEW h \in Hosts, Leave(h) \/ Killed(h) \/ quit(h),
           jammed' = jammed, running' = running, faults' \in 0..MaxFaults
    PROVE  Inv'
<1> USE DEF Inv, calls, hosts, link
<1>1. /\ UNCHANGED <<worker, port, profile, hello, late, at, ran>>
      /\ \E end \in {"stranded", "exited"} : host' = [host EXCEPT ![h] = end]
      /\ ready' = ready \ {h}
      /\ \A r \in Requests : \/ req'[r] = "failed" /\ req[r] # "answered"
                             \/ req'[r] = req[r] /\ (req[r] \in Waiting => at[r] # h)
      /\ req' \in [Requests -> Waiting \union {"new", "answered", "failed"}]
      /\ path' \in {path, None}
  <2>1. CASE Leave(h)
    BY <2>1 DEF Leave, WaitingAt, TypeOK
  <2>2. CASE Killed(h) \/ quit(h)
    <3>1. WaitingAt(h) \in SUBSET Requests
      BY DEF WaitingAt
    <3> QED
      BY <2>2, <3>1, FailKeeps DEF Killed, quit, WaitingAt, Waiting
  <2> QED
    BY <2>1, <2>2
<1>2. TypeOK'
  BY <1>1 DEF TypeOK
<1>3. ToldTheProfile'
  BY <1>1 DEF ToldTheProfile
<1>4. ReadyIsOpen'
  BY <1>1 DEF ReadyIsOpen, TypeOK
<1>5. WaitingIsServed'
  BY <1>1 DEF WaitingIsServed, TypeOK, Waiting
<1>6. RanBound'
  BY <1>1 DEF RanBound
<1> QED
  BY <1>2, <1>3, <1>4, <1>5, <1>6

(* A host that cannot read any more shuts down, or closes already.         *)
LEMMA TooLargeKeeps ==
    ASSUME Inv, NEW r \in Requests, TooLarge(r)
    PROVE  Inv'
<1> USE DEF Inv, calls, hosts, link
<1>1. /\ port \in Hosts /\ running' \in SUBSET running
      /\ jammed' \in SUBSET Hosts /\ faults' \in 0..MaxFaults
  BY FaultType DEF TooLarge, ToldTheProfile, TypeOK
<1>2. CASE shutdown(port, "stranding")
  BY <1>1, <1>2, ShutdownKeeps DEF Closing
<1>3. CASE UNCHANGED <<link, host, hello, ready, late, path, req, at, ran>>
  BY <1>1, <1>3 DEF TypeOK, ToldTheProfile, ReadyIsOpen, WaitingIsServed, RanBound
<1> QED
  BY <1>2, <1>3 DEF TooLarge

(* The life of one request.                                                *)
LEMMA RequestKeeps ==
    ASSUME Inv, NEW r \in Requests, Call(r) \/ RequestStep(r)
    PROVE  Inv'
<1> USE DEF Inv, calls, hosts, link
<1>1. CASE Call(r)
  <2>1. CASE path # None /\ host[path] = "open"
    <3>1. /\ req' = [req EXCEPT ![r] = "sent"] /\ at' = [at EXCEPT ![r] = path]
          /\ req[r] = "new" /\ UNCHANGED <<link, hosts, running, ran, faults>>
      BY <1>1, <2>1 DEF Call
    <3>2. path \in Hosts
      BY <2>1 DEF TypeOK
    <3>3. TypeOK'
      BY <3>1, <3>2 DEF TypeOK, Waiting
    <3>4. WaitingIsServed'
      BY <2>1, <3>1, <3>2 DEF WaitingIsServed, TypeOK, Waiting
    <3> QED
      BY <3>1, <3>3, <3>4 DEF ToldTheProfile, ReadyIsOpen, RanBound, TypeOK
  <2>2. CASE ~(path # None /\ host[path] = "open")
    <3>1. fail({r}) /\ UNCHANGED <<link, hosts, at, running, ran, faults>>
      BY <1>1, <2>2 DEF Call
    <3>2. /\ req' \in [Requests -> Waiting \union {"new", "answered", "failed"}]
          /\ \A q \in Requests : req'[q] = IF q = r THEN "failed" ELSE req[q]
      BY <3>1, FailKeeps
    <3> QED
      BY <3>1, <3>2 DEF TypeOK, ToldTheProfile, ReadyIsOpen, WaitingIsServed, RanBound, Waiting
  <2> QED
    BY <2>1, <2>2
<1>2. CASE Read(r)
  <2>1. CASE at[r] \in ready
    <3>1. /\ req' = [req EXCEPT ![r] = "pending"] /\ req[r] = "sent"
          /\ UNCHANGED <<link, hosts, at, faults>>
          /\ \/ /\ worker = "linked" /\ port = at[r]
                /\ running' = running \union {r}
                /\ ran' = [ran EXCEPT ![r] = @ \union {profile}]
             \/ UNCHANGED <<running, ran>>
      BY <1>2, <2>1 DEF Read
    <3>2. TypeOK'
      BY <3>1 DEF TypeOK, Waiting
    <3>3. WaitingIsServed'
      BY <2>1, <3>1 DEF WaitingIsServed, ReadyIsOpen, TypeOK, Waiting
    <3>4. RanBound'
      <4>1. CASE UNCHANGED <<running, ran>>
        BY <3>1, <4>1 DEF RanBound, TypeOK
      <4>2. CASE /\ worker = "linked" /\ port = at[r]
                 /\ running' = running \union {r}
                 /\ ran' = [ran EXCEPT ![r] = @ \union {profile}]
        <5>1. profile = "bound"
          BY <2>1, <4>2 DEF ToldTheProfile
        <5> QED
          BY <3>1, <4>2, <5>1 DEF RanBound, TypeOK
      <4> QED
        BY <3>1, <4>1, <4>2
    <3> QED
      BY <3>1, <3>2, <3>3, <3>4 DEF ToldTheProfile, ReadyIsOpen
  <2>2. CASE at[r] \notin ready
    <3>1. fail({r}) /\ UNCHANGED <<link, hosts, at, running, ran, faults>>
      BY <1>2, <2>2 DEF Read
    <3>2. /\ req' \in [Requests -> Waiting \union {"new", "answered", "failed"}]
          /\ \A q \in Requests : req'[q] = IF q = r THEN "failed" ELSE req[q]
      BY <3>1, FailKeeps
    <3> QED
      BY <3>1, <3>2 DEF TypeOK, ToldTheProfile, ReadyIsOpen, WaitingIsServed, RanBound, Waiting
  <2> QED
    BY <2>1, <2>2
<1>3. CASE HostTimer(r) \/ ClientTimer(r)
  <2>1. fail({r}) /\ UNCHANGED <<link, hosts, at, running, ran, faults>>
    BY <1>3 DEF HostTimer, ClientTimer
  <2>2. /\ req' \in [Requests -> Waiting \union {"new", "answered", "failed"}]
        /\ \A q \in Requests : req'[q] = IF q = r THEN "failed" ELSE req[q]
    BY <2>1, FailKeeps
  <2> QED
    BY <2>1, <2>2 DEF TypeOK, ToldTheProfile, ReadyIsOpen, WaitingIsServed, RanBound, Waiting
<1>4. CASE Answer(r)
  <2>1. /\ r \in running /\ running' = running \ {r}
        /\ req' \in {req, [req EXCEPT ![r] = "answered"]}
        /\ UNCHANGED <<link, hosts, at, ran, faults>>
    BY <1>4 DEF Answer
  <2>2. TypeOK'
    BY <2>1 DEF TypeOK
  <2>3. WaitingIsServed' /\ RanBound'
    BY <2>1 DEF WaitingIsServed, RanBound, TypeOK, Waiting
  <2> QED
    BY <2>1, <2>2, <2>3 DEF ToldTheProfile, ReadyIsOpen
<1> QED
  BY <1>1, <1>2, <1>3, <1>4 DEF RequestStep

-----------------------------------------------------------------------------
LEMMA InvNext == Inv /\ [Next]_vars => Inv'
<1> SUFFICES ASSUME Inv, [Next]_vars PROVE Inv'
  OBVIOUS
<1>1. CASE WorkerStep \/ WorkerStops
  BY <1>1, WorkerKeeps
<1>2. ASSUME NEW h \in Hosts, HostStep(h) \/ Signalled(h) \/ Killed(h) PROVE Inv'
  <2>1. CASE StdinEnds(h) \/ Signalled(h)
    <3>1. /\ \/ quit(h) \/ \E why \in Closing : shutdown(h, why)
          /\ jammed' = jammed /\ running' = running
          /\ faults' \in 0..MaxFaults /\ jammed \in SUBSET Hosts
      BY <2>1, FaultType DEF StdinEnds, Signalled, Inv, TypeOK, Closing
    <3> QED
      BY <3>1, ShutdownKeeps, EndKeeps
  <2>2. CASE Leave(h) \/ Killed(h)
    <3>1. jammed' = jammed /\ running' = running /\ faults' \in 0..MaxFaults
      BY <2>2, FaultType DEF Leave, Killed, Inv, TypeOK, calls
    <3> QED
      BY <2>2, <3>1, EndKeeps
  <2> QED
    BY <1>2, <2>1, <2>2, BootKeeps DEF HostStep
<1>3. ASSUME NEW r \in Requests, Call(r) \/ RequestStep(r) \/ TooLarge(r) PROVE Inv'
  BY <1>3, RequestKeeps, TooLargeKeeps
<1>4. CASE UNCHANGED vars
  BY <1>4 DEF vars, link, hosts, calls, Inv, TypeOK, ToldTheProfile, ReadyIsOpen,
     WaitingIsServed, RanBound
<1> QED
  BY <1>1, <1>2, <1>3, <1>4 DEF Next

LEMMA InvHolds == Spec => []Inv
BY InvInit, InvNext, PTL DEF Spec

(* For any hosts and requests, a host that shuts down answers what it      *)
(* owes, and one made ready again while it closes does before it leaves    *)
(* (shutdown, rejectAll).                                                  *)
THEOREM ShutdownAnswers == Spec => []ShutdownAnswersAll
<1>1. Inv => ShutdownAnswersAll
  BY DEF Inv, WaitingIsServed, ShutdownAnswersAll
<1> QED
  BY <1>1, InvHolds, PTL

(* For any overlap of workers, ports and hosts, nothing runs outside the   *)
(* bound profile (handleNativeMessage).                                    *)
THEOREM OnlyTheBoundProfile == Spec => []RunsInBoundProfile
<1>1. Inv => RunsInBoundProfile
  BY DEF Inv, RanBound, RunsInBoundProfile
<1> QED
  BY <1>1, InvHolds, PTL

=============================================================================
