-------------------------- MODULE Provider_proofs --------------------------
(***************************************************************************)
(* What is proved of a stdio provider, for any number of starts, restarts  *)
(* and approvals: no process escapes, revocation reaches all of them, and  *)
(* a personal-profile session has one grant.                               *)
(*                                                                         *)
(* A new child overwrites this.child and this.pgid, and onExit clears them *)
(* without asking which child exited.  That this loses no process rests on *)
(* an order nothing in the object records: at most one start attempt is on *)
(* its way to the end of its handshake, none that has yet to spawn runs    *)
(* beside a child, and a restart timer is armed only when there is neither *)
(* -- except for an attempt that awaits its metadata write, which the      *)
(* timer outlasts when the disk is prompt.                                 *)
(***************************************************************************)
EXTENDS Provider, TLAPS

Object ==
    [state : {"configured", "starting", "ready", "restarting", "failed", "stopped"},
     child : 0..MaxStarts, pgid : 0..MaxStarts,
     killed : BOOLEAN, stopping : BOOLEAN, failedTerminally : BOOLEAN,
     everSpawned : BOOLEAN, registered : BOOLEAN,
     grant : {"null", "live", "past"}, grantTimer : BOOLEAN,
     restartTimer : BOOLEAN, graceTimer : BOOLEAN, attempts : 0..RestartMax]

Unspawned == {"mkdir", "approval", "probe"}
OnItsWay  == Unspawned \cup {"spawning", "metadata", "handshake", "rejected"}
Running   == {"alive", "dead"}           \* as long as 'exit' was not delivered

(* The object knows the one process there is.                              *)
ChildIsTheProcess ==
    /\ \A p \in Starts : os[p] \in Running => this.child = p
    /\ this.child # None => os[this.child] \in Running \cup {"unspawnable"}
    /\ this.pgid = IF this.child # None /\ os[this.child] \in Running
                   THEN this.child ELSE None

OneOnItsWay ==
    \A r, s \in Starts : pc[r] \in OnItsWay /\ pc[s] \in OnItsWay => r = s

(* Where a start attempt awaits says whether it has a child.               *)
ChildAtPc ==
    \A s \in Starts :
        /\ pc[s] \in Unspawned \cup {"idle"} => os[s] = "none" /\ ~heard[s]
        /\ pc[s] \in Unspawned \cup {"rejected"} => this.child = None
        /\ pc[s] = "spawning"  => this.child = s /\ ~heard[s]
        /\ pc[s] = "metadata"  => this.child \in {s, None}
        /\ pc[s] = "handshake" => this.child = s

FirstIsFirst == pc[1] = "idle" => \A s \in Starts : pc[s] = "idle"

TimerMeansNoChild ==
    this.restartTimer =>
        /\ this.child = None /\ pc[1] # "idle" /\ this.attempts < RestartMax
        /\ \A s \in Starts : pc[s] \in OnItsWay => pc[s] \in {"metadata", "rejected"}

ApprovalsCounted == consumed <= approved /\ (approval => consumed < approved)

GrantIsUp == lapsed \/ (this.grant # "null" /\ this.grantTimer)

(* A personal-profile provider starts once, and spawns under its grant.    *)
OneSession ==
    mode = "personal" =>
        /\ ~this.restartTimer
        /\ \A s \in Starts \ {1} : pc[s] = "idle"
        /\ consumed <= 1
        /\ pc[1] \in {"idle", "mkdir", "approval"} => consumed = 0
        /\ pc[1] \in Unspawned => this.state # "ready"
        /\ pc[1] = "probe" => this.killed \/ GrantIsUp
        /\ \A p \in Starts : os[p] = "alive" /\ signal[p] = "none" => GrantIsUp

Inv == /\ ObjectTypeOK /\ ChildIsTheProcess /\ OneOnItsWay /\ ChildAtPc /\ FirstIsFirst
       /\ TimerMeansNoChild /\ ChildrenContained /\ ApprovalsCounted /\ OneSession

-----------------------------------------------------------------------------
LEMMA FirstExists == 1 \in Starts
BY ProviderAssumption DEF Starts

(* What the handlers do to the object (stop, scheduleRestart and the two   *)
(* catch blocks).                                                          *)
LEMMA StopKeeps ==
    ASSUME NEW T \in Object
    PROVE  /\ stop(T) \in Object
           /\ stop(T).child = T.child /\ stop(T).pgid = T.pgid
           /\ stop(T).killed = T.killed /\ stop(T).attempts = T.attempts
           /\ stop(T).state = T.state /\ stop(T).grant = T.grant
           /\ ~stop(T).restartTimer
BY DEF stop, Object

LEMMA ScheduleKeeps ==
    ASSUME NEW T \in Object
    PROVE  LET U == scheduleRestart(T)
           IN /\ U \in Object
              /\ U.child = T.child /\ U.pgid = T.pgid
              /\ U.killed = T.killed /\ U.attempts = T.attempts
              /\ U.state # "ready"
              /\ U.restartTimer => T.restartTimer
                                   \/ (mode # "personal" /\ T.attempts < RestartMax)
<1>1. CASE mode = "personal"
  BY <1>1 DEF scheduleRestart, Object
<1>2. CASE mode # "personal" /\ T.attempts >= RestartMax
  BY <1>2 DEF scheduleRestart, Object
<1>3. CASE mode # "personal" /\ ~(T.attempts >= RestartMax)
  <2>1. T.attempts < RestartMax
    BY <1>3, ProviderAssumption DEF Object
  <2> QED
    BY <1>3, <2>1 DEF scheduleRestart, Object
<1> QED
  BY <1>1, <1>2, <1>3

Signals == {"none", "TERM", "KILL"}

LEMMA KillKeeps ==
    ASSUME NEW sent \in [Starts -> Signals], NEW sig \in {"TERM", "KILL"}, NEW g
    PROVE  LET after == killGroup(g, sig, sent)
           IN /\ after \in [Starts -> Signals]
              /\ \A p \in Starts : sent[p] = "KILL" => after[p] = "KILL"
              /\ \A p \in Starts : sent[p] # "none" => after[p] # "none"
              /\ \A p \in Starts : p = g /\ os[p] = "alive" => after[p] \in {sig, "KILL"}
BY DEF killGroup, Signals

(* A start attempt throws (the catch blocks of startOne and of the restart *)
(* timer): the child stays, signalled if there is one; a timer is armed    *)
(* only without a child, and only by a failure that is not terminal.       *)
LEMMA Thrown ==
    ASSUME NEW s \in Starts, NEW T \in Object, NEW sent \in [Starts -> Signals],
           NEW terminal \in BOOLEAN, Throw(s, T, sent, terminal)
    PROVE  /\ pc' = [pc EXCEPT ![s] = "failed"]
           /\ this' \in Object
           /\ this'.child = T.child /\ this'.pgid = T.pgid
           /\ this'.killed = T.killed /\ this'.attempts = T.attempts
           /\ this'.restartTimer =>
                 T.restartTimer \/ /\ T.child = None /\ ~terminal
                                   /\ mode # "personal" /\ T.attempts < RestartMax
           /\ signal' \in [Starts -> Signals]
           /\ \A p \in Starts : sent[p] = "KILL" => signal'[p] = "KILL"
           /\ \A p \in Starts : sent[p] # "none" => signal'[p] # "none"
           /\ T.child # None =>
                 \A p \in Starts : p = T.pgid /\ os[p] = "alive" => signal'[p] # "none"
<1>1. /\ pc' = [pc EXCEPT ![s] = "failed"]
      /\ signal' = IF T.child = None THEN sent
                   ELSE killGroup(T.pgid, IF s = 1 THEN "TERM" ELSE "KILL", sent)
      /\ this' = IF s = 1 THEN startOneCatch(T, terminal) ELSE restartCatch(T, terminal)
  BY DEF Throw
<1>2. /\ signal' \in [Starts -> Signals]
      /\ \A p \in Starts : sent[p] = "KILL" => signal'[p] = "KILL"
      /\ \A p \in Starts : sent[p] # "none" => signal'[p] # "none"
      /\ T.child # None =>
            \A p \in Starts : p = T.pgid /\ os[p] = "alive" => signal'[p] # "none"
  <2>1. CASE T.child = None
    BY <1>1, <2>1
  <2>2. CASE T.child # None
    BY <1>1, <2>2, KillKeeps
  <2> QED
    BY <2>1, <2>2
<1> DEFINE Kept(U) == /\ U \in Object
                      /\ U.child = T.child /\ U.pgid = T.pgid
                      /\ U.killed = T.killed /\ U.attempts = T.attempts
                      /\ U.restartTimer =>
                            T.restartTimer \/ /\ T.child = None /\ ~terminal
                                              /\ mode # "personal"
                                              /\ T.attempts < RestartMax
<1>3. Kept(startOneCatch(T, terminal))
  <2>1. CASE crashed(T) /\ ~terminal
    BY <2>1, ScheduleKeeps DEF startOneCatch, crashed
  <2>2. CASE ~(crashed(T) /\ ~terminal)
    <3> DEFINE F == [T EXCEPT !.state = "failed", !.failedTerminally = TRUE]
    <3>1. /\ F \in Object /\ F.child = T.child /\ F.pgid = T.pgid
          /\ F.killed = T.killed /\ F.attempts = T.attempts
      BY DEF Object
    <3>2. startOneCatch(T, terminal) = stop(F)
      BY <2>2 DEF startOneCatch
    <3> HIDE DEF F
    <3> QED
      BY <3>1, <3>2, StopKeeps
  <2> QED
    BY <2>1, <2>2
<1>4. Kept(restartCatch(T, terminal))
  <2>1. CASE T.child # None
    BY <2>1 DEF restartCatch
  <2>2. CASE T.child = None /\ terminal
    BY <2>2 DEF restartCatch, Object
  <2>3. CASE T.child = None /\ ~terminal
    BY <2>3, ScheduleKeeps DEF restartCatch
  <2> QED
    BY <2>1, <2>2, <2>3
<1> QED
  BY <1>1, <1>2, <1>3, <1>4

-----------------------------------------------------------------------------
(* A start attempt that throws keeps the invariant, whatever T made of the *)
(* object before: its child is the same, and so is its grant if there is   *)
(* one to lose.                                                            *)
LEMMA ThrowKeepsInv ==
    ASSUME Inv, NEW s \in Starts, NEW T \in Object,
           NEW sent \in [Starts -> Signals], NEW terminal \in BOOLEAN,
           Throw(s, T, sent, terminal),
           T.child = this.child, T.pgid = this.pgid, T.killed = this.killed,
           T.restartTimer => this.restartTimer /\ T.attempts = this.attempts,
           \A p \in Starts : signal[p] = "KILL" => sent[p] = "KILL",
           \A p \in Starts : signal[p] # "none" => sent[p] # "none",
           pc[s] \in OnItsWay \/ terminal,
           s = 1 \/ (pc[1] # "idle" /\ mode # "personal"),
           UNCHANGED <<mode, flagCheck, os, heard, gate, approved, lapsed>>,
           approval' \in BOOLEAN, consumed' \in Nat,
           ApprovalsCounted', mode = "personal" => consumed' <= 1
    PROVE  Inv'
<1>1. /\ pc' = [pc EXCEPT ![s] = "failed"]
      /\ this' \in Object
      /\ this'.child = this.child /\ this'.pgid = this.pgid
      /\ this'.killed = this.killed
      /\ this'.restartTimer =>
            \/ this.restartTimer /\ this'.attempts = this.attempts
            \/ /\ this.child = None /\ ~terminal
               /\ mode # "personal" /\ this'.attempts < RestartMax
      /\ signal' \in [Starts -> Signals]
      /\ \A p \in Starts : signal[p] = "KILL" => signal'[p] = "KILL"
      /\ this.child # None =>
            \A p \in Starts : p = this.pgid /\ os[p] = "alive" => signal'[p] # "none"
  BY Thrown
<1>2. ObjectTypeOK'
  <2>1. consumed' \in 0..MaxApprovals
    BY ProviderAssumption DEF ApprovalsCounted, Inv, ObjectTypeOK
  <2> QED
    BY <1>1, <2>1 DEF Inv, ObjectTypeOK, Object, Signals
<1>3. ChildIsTheProcess'
  BY <1>1 DEF Inv, ChildIsTheProcess
<1>4. /\ \A r \in Starts : pc'[r] = IF r = s THEN "failed" ELSE pc[r]
      /\ \A r \in Starts : pc'[r] \in OnItsWay => pc[r] \in OnItsWay /\ r # s
  BY <1>1 DEF Inv, ObjectTypeOK, OnItsWay, Unspawned
<1>5. OneOnItsWay'
  BY <1>4 DEF Inv, OneOnItsWay
<1>6. ChildAtPc'
  BY <1>1, <1>4 DEF Inv, ChildAtPc, Unspawned
<1>7. FirstIsFirst'
  BY <1>4, FirstExists DEF Inv, FirstIsFirst
<1>8. TimerMeansNoChild'
  <2> SUFFICES ASSUME this'.restartTimer PROVE TimerMeansNoChild'
    BY DEF TimerMeansNoChild
  <2>1. CASE this.restartTimer /\ this'.attempts = this.attempts
    BY <1>1, <1>4, <2>1, ProviderAssumption DEF Inv, TimerMeansNoChild, Starts
  <2>2. CASE /\ this.child = None /\ ~terminal
             /\ mode # "personal" /\ this'.attempts < RestartMax
    <3>1. pc[s] \in OnItsWay
      BY <2>2
    <3>2. \A r \in Starts : pc'[r] \notin OnItsWay
      BY <1>4, <3>1 DEF Inv, OneOnItsWay
    <3>3. pc'[1] # "idle"
      BY <1>4, ProviderAssumption DEF Starts
    <3> QED
      BY <1>1, <2>2, <3>2, <3>3 DEF TimerMeansNoChild
  <2> QED
    BY <1>1, <2>1, <2>2
<1>9. ChildrenContained'
  BY <1>1 DEF Inv, ChildrenContained
<1>10. OneSession'
  <2> SUFFICES ASSUME mode = "personal" PROVE OneSession'
    BY DEF OneSession
  <2>1. s = 1
    OBVIOUS
  <2>2. ~this'.restartTimer
    BY <1>1 DEF Inv, OneSession
  <2>3. \A r \in Starts \ {1} : pc'[r] = "idle"
    BY <1>4, <2>1 DEF Inv, OneSession
  <2>4. pc'[1] = "failed"
    BY <1>4, <2>1
  <2>5. \A p \in Starts : os'[p] = "alive" => signal'[p] # "none"
    BY <1>1 DEF Inv, ChildIsTheProcess, Running, Starts, None
  <2> QED
    BY <2>2, <2>3, <2>4, <2>5 DEF OneSession, Unspawned
<1> QED
  BY <1>2, <1>3, <1>5, <1>6, <1>7, <1>8, <1>9, <1>10 DEF Inv

(* So does a step that leaves the child and the start attempts alone, arms *)
(* no restart timer and withdraws no signal.                               *)
LEMMA AsideKeepsInv ==
    ASSUME Inv, UNCHANGED <<mode, flagCheck, pc, os, heard>>,
           this' \in Object, this'.child = this.child, this'.pgid = this.pgid,
           this'.restartTimer => this.restartTimer /\ this'.attempts <= this.attempts,
           signal' \in [Starts -> Signals],
           gate' \in BOOLEAN, approval' \in BOOLEAN, lapsed' \in BOOLEAN,
           approved' \in 0..MaxApprovals, UNCHANGED consumed, ApprovalsCounted',
           ChildrenContained', OneSession'
    PROVE  Inv'
<1>1. ObjectTypeOK'
  BY DEF Inv, ObjectTypeOK, Object, Signals
<1>2. ChildIsTheProcess' /\ OneOnItsWay' /\ ChildAtPc' /\ FirstIsFirst'
  BY DEF Inv, ChildIsTheProcess, OneOnItsWay, ChildAtPc, FirstIsFirst
<1>3. TimerMeansNoChild'
  BY ProviderAssumption DEF Inv, TimerMeansNoChild, Object, ObjectTypeOK
<1> QED
  BY <1>1, <1>2, <1>3 DEF Inv

LEMMA InvInit == Init => Inv
<1> SUFFICES ASSUME Init PROVE Inv
  OBVIOUS
<1>1. ObjectTypeOK
  <2>1. this \in Object
    <3>1. 0 \in 0..MaxStarts /\ 0 \in 0..RestartMax
      BY ProviderAssumption
    <3> QED
      BY <3>1 DEF Init, NewProvider, Object, None
  <2>2. approved \in 0..MaxApprovals /\ consumed \in 0..MaxApprovals
    BY ProviderAssumption DEF Init
  <2> QED
    BY <2>1, <2>2 DEF Init, ObjectTypeOK, Object
<1>2. /\ ChildIsTheProcess /\ OneOnItsWay /\ ChildAtPc /\ FirstIsFirst
      /\ TimerMeansNoChild /\ ChildrenContained /\ ApprovalsCounted
  BY DEF Init, NewProvider, ChildIsTheProcess, OneOnItsWay, ChildAtPc, FirstIsFirst,
         TimerMeansNoChild, ChildrenContained, ApprovalsCounted, OnItsWay, Unspawned,
         Running, None
<1>3. OneSession
  BY FirstExists DEF Init, NewProvider, OneSession, Unspawned
<1> QED
  BY <1>1, <1>2, <1>3 DEF Inv

-----------------------------------------------------------------------------
(* The steps of start().                                                   *)
(* A start begins when nothing is on its way and there is no child.        *)
LEMMA BeginKeepsInv ==
    ASSUME Inv, NEW s \in Starts, NEW T \in Object, Begin(s, T),
           pc[s] = "idle", T.child = this.child, T.pgid = this.pgid,
           T.killed = this.killed, ~T.restartTimer,
           s = 1 \/ (pc[1] # "idle" /\ mode # "personal"),
           this.child = None, \A r \in Starts : pc[r] \notin OnItsWay,
           UNCHANGED <<mode, flagCheck, os, heard, world, lapsed>>
    PROVE  Inv'
<1>1. CASE T.killed
  <2>1. Throw(s, T, signal, TRUE)
    BY <1>1 DEF Begin
  <2>2. signal \in [Starts -> Signals]
    BY DEF Inv, ObjectTypeOK, Signals
  <2>3. /\ approval' \in BOOLEAN /\ consumed' \in Nat /\ ApprovalsCounted'
        /\ (mode = "personal" => consumed' <= 1)
        /\ UNCHANGED <<mode, flagCheck, os, heard, gate, approved, lapsed>>
    BY DEF Inv, ObjectTypeOK, ApprovalsCounted, OneSession, world
  <2> QED
    BY <2>1, <2>2, <2>3, ThrowKeepsInv
<1>2. CASE ~T.killed
  <2>1. /\ this' = [T EXCEPT !.state = "starting", !.stopping = FALSE]
        /\ pc' = [pc EXCEPT ![s] = "mkdir"]
        /\ UNCHANGED <<signal, os, heard, mode, flagCheck, lapsed,
                       gate, approval, approved, consumed>>
    BY <1>2 DEF Begin, world
  <2>2. /\ this' \in Object /\ this'.child = None /\ this'.pgid = this.pgid
        /\ ~this'.killed /\ ~this'.restartTimer /\ this'.state = "starting"
    BY <1>2, <2>1 DEF Object
  <2>3. \A r \in Starts : pc'[r] = IF r = s THEN "mkdir" ELSE pc[r]
    BY <2>1 DEF Inv, ObjectTypeOK
  <2>4. ObjectTypeOK'
    BY <2>1, <2>2 DEF Inv, ObjectTypeOK, Object
  <2>5. ChildIsTheProcess'
    BY <2>1, <2>2 DEF Inv, ChildIsTheProcess
  <2>6. OneOnItsWay' /\ ChildAtPc' /\ FirstIsFirst' /\ TimerMeansNoChild'
    BY <2>1, <2>2, <2>3, FirstExists
       DEF Inv, OneOnItsWay, ChildAtPc, FirstIsFirst, TimerMeansNoChild, OnItsWay, Unspawned
  <2>7. ChildrenContained' /\ ApprovalsCounted'
    BY <2>1, <2>2 DEF Inv, ChildrenContained, ApprovalsCounted
  <2>8. OneSession'
    <3> SUFFICES ASSUME mode = "personal" PROVE OneSession'
      BY <2>1 DEF OneSession
    <3>1. s = 1
      OBVIOUS
    <3>2. \A p \in Starts : os[p] # "alive"
      BY DEF Inv, ChildIsTheProcess, Running, Starts, None
    <3> QED
      BY <2>1, <2>2, <2>3, <3>1, <3>2, FirstExists DEF Inv, OneSession, Unspawned
  <2> QED
    BY <2>4, <2>5, <2>6, <2>7, <2>8 DEF Inv
<1> QED
  BY <1>1, <1>2

LEMMA FirstStartKeepsInv == Inv /\ FirstStart => Inv'
<1> SUFFICES ASSUME Inv, FirstStart PROVE Inv'
  OBVIOUS
<1>1. /\ \A r \in Starts : pc[r] = "idle" /\ os[r] = "none"
      /\ ~this.restartTimer /\ this.child = None
  BY FirstExists DEF FirstStart, Inv, FirstIsFirst, ChildAtPc, TimerMeansNoChild,
                     ChildIsTheProcess, Running, ObjectTypeOK, Starts, None
<1> QED
  BY <1>1, FirstExists, BeginKeepsInv
     DEF FirstStart, Inv, ObjectTypeOK, Object, OnItsWay, Unspawned

(* The timer fires only when no attempt is on its way: one that throws     *)
(* next would be a microtask, and a metadata write has ended (PromptDisk). *)
LEMMA RestartKeepsInv == PromptDisk /\ Inv /\ RestartTimerFires => Inv'
<1> SUFFICES ASSUME PromptDisk, Inv, RestartTimerFires PROVE Inv'
  OBVIOUS
<1> DEFINE T == [this EXCEPT !.restartTimer = FALSE, !.attempts = @ + 1]
<1>1. PICK s \in Starts \ {1} : /\ pc[s] = "idle" /\ \A r \in 1..(s-1) : pc[r] # "idle"
                                /\ \A r \in Starts : pc[r] # "metadata"
                                /\ Begin(s, T)
  BY DEF RestartTimerFires
<1>2. this.restartTimer /\ Turn /\ UNCHANGED <<mode, flagCheck, os, heard, world, lapsed>>
  BY DEF RestartTimerFires
<1>3. this.child = None /\ pc[1] # "idle" /\ this.attempts < RestartMax
  BY <1>2 DEF Inv, TimerMeansNoChild
<1>4. \A r \in Starts : pc[r] \notin OnItsWay
  BY <1>1, <1>2 DEF Inv, TimerMeansNoChild, Turn, Drained
<1>5. mode # "personal"
  BY <1>2 DEF Inv, OneSession
<1>6. /\ T \in Object /\ T.child = this.child /\ T.pgid = this.pgid
      /\ T.killed = this.killed /\ ~T.restartTimer
  <2>1. this \in Object
    BY DEF Inv, ObjectTypeOK, Object
  <2>2. this.attempts + 1 \in 0..RestartMax
    BY <1>3, <2>1, ProviderAssumption DEF Object
  <2> QED
    BY <2>1, <2>2 DEF Object
<1> HIDE DEF T
<1> QED
  BY <1>1, <1>2, <1>3, <1>4, <1>5, <1>6, BeginKeepsInv

(* A start attempt that was begun is the first one, or not a personal one. *)
LEMMA BegunIsAllowed ==
    ASSUME Inv, NEW s \in Starts, pc[s] # "idle"
    PROVE  s = 1 \/ (pc[1] # "idle" /\ mode # "personal")
BY DEF Inv, FirstIsFirst, OneSession

LEMMA ThrowInPlace ==
    ASSUME Inv, NEW s \in Starts, NEW sent \in [Starts -> Signals],
           NEW terminal \in BOOLEAN, Throw(s, this, sent, terminal),
           pc[s] # "idle", pc[s] \in OnItsWay \/ terminal,
           \A p \in Starts : signal[p] = "KILL" => sent[p] = "KILL",
           \A p \in Starts : signal[p] # "none" => sent[p] # "none",
           UNCHANGED <<mode, flagCheck, os, heard, world, lapsed>>
    PROVE  Inv'
<1>1. s = 1 \/ (pc[1] # "idle" /\ mode # "personal")
  BY BegunIsAllowed
<1>2. this \in Object
  BY DEF Inv, ObjectTypeOK, Object
<1>3. /\ approval' \in BOOLEAN /\ consumed' \in Nat /\ ApprovalsCounted'
      /\ (mode = "personal" => consumed' <= 1)
      /\ UNCHANGED <<mode, flagCheck, os, heard, gate, approved, lapsed>>
  BY DEF Inv, ObjectTypeOK, ApprovalsCounted, OneSession, world
<1> QED
  BY <1>1, <1>2, <1>3, ThrowKeepsInv

(* An approval that is there may be consumed.                              *)
LEMMA ConsumptionCounted ==
    ASSUME Inv, approval, approval' = FALSE, consumed' = consumed + 1, UNCHANGED approved
    PROVE  approval' \in BOOLEAN /\ consumed' \in Nat /\ ApprovalsCounted'
<1>1. consumed < approved /\ consumed \in Nat /\ approved \in Nat
  <2>1. consumed < approved
    BY Zenon DEF Inv, ApprovalsCounted
  <2> QED
    BY <2>1, ProviderAssumption DEF Inv, ObjectTypeOK
<1>2. consumed' <= approved' /\ consumed' \in Nat
  BY <1>1
<1> QED
  BY <1>2, Zenon DEF ApprovalsCounted

LEMMA SignalsTyped ==
    ASSUME Inv
    PROVE  /\ signal \in [Starts -> Signals] /\ this \in Object
           /\ \A s \in Starts : pc[s] = "idle" => pc[s] \notin OnItsWay
BY DEF Inv, ObjectTypeOK, Object, Signals, OnItsWay, Unspawned

(* So does an attempt that moves on with the same child and signals.       *)
LEMMA MoveKeepsInv ==
    ASSUME Inv, NEW s \in Starts,
           NEW next \in {"approval", "probe", "metadata", "handshake", "gate", "done"},
           pc' = [pc EXCEPT ![s] = next],
           pc[s] # "idle", pc[s] \in OnItsWay \/ next \notin OnItsWay,
           next \in OnItsWay => next = "metadata" \/ ~this.restartTimer,
           this' \in Object, this'.child = this.child, this'.pgid = this.pgid,
           this'.killed = this.killed, this'.restartTimer = this.restartTimer,
           this'.attempts = this.attempts,
           UNCHANGED <<mode, flagCheck, os, signal, gate, approved, lapsed>>,
           heard' \in [Starts -> BOOLEAN],
           approval' \in BOOLEAN, consumed' \in Nat, ApprovalsCounted',
           ChildAtPc', OneSession'
    PROVE  Inv'
<1>1. \A r \in Starts : pc'[r] = IF r = s THEN next ELSE pc[r]
  BY DEF Inv, ObjectTypeOK
<1>2. \A r \in Starts : pc'[r] \in OnItsWay => pc[r] \in OnItsWay
  BY <1>1
<1>3. ObjectTypeOK'
  <2>1. consumed' \in 0..MaxApprovals
    BY ProviderAssumption DEF ApprovalsCounted, Inv, ObjectTypeOK
  <2> QED
    BY <2>1 DEF Inv, ObjectTypeOK, Object
<1>4. ChildIsTheProcess' /\ ChildrenContained'
  BY DEF Inv, ChildIsTheProcess, ChildrenContained
<1>5. OneOnItsWay'
  BY <1>2 DEF Inv, OneOnItsWay
<1>6. FirstIsFirst'
  BY <1>1, FirstExists DEF Inv, FirstIsFirst
<1>7. TimerMeansNoChild'
  BY <1>1, <1>2, FirstExists DEF Inv, TimerMeansNoChild
<1> QED
  BY <1>3, <1>4, <1>5, <1>6, <1>7 DEF Inv

(* The flag probe begins: in a personal session, under the grant.          *)
LEMMA ProbeKeepsInv ==
    ASSUME Inv, NEW s \in Starts, NEW T \in Object, BeginProbe(s, T),
           pc[s] \in {"mkdir", "approval"},
           \/ T = this /\ mode # "personal" /\ UNCHANGED <<approval, consumed>>
           \/ /\ T = takeGrant(this) /\ pc[s] = "approval"
              /\ approval /\ approval' = FALSE /\ consumed' = consumed + 1,
           UNCHANGED <<mode, flagCheck, os, heard, gate, approved, lapsed>>
    PROVE  Inv'
<1>1. s = 1 \/ (pc[1] # "idle" /\ mode # "personal")
  BY BegunIsAllowed
<1>2. /\ T.child = this.child /\ T.pgid = this.pgid /\ T.killed = this.killed
      /\ T.restartTimer = this.restartTimer /\ T.attempts = this.attempts
      /\ T.state = this.state
  BY SignalsTyped DEF takeGrant, Object
<1>3. approval' \in BOOLEAN /\ consumed' \in Nat /\ ApprovalsCounted'
  <2>1. CASE UNCHANGED <<approval, consumed>>
    BY <2>1, ProviderAssumption DEF Inv, ObjectTypeOK, ApprovalsCounted
  <2> QED
    BY <2>1, ConsumptionCounted
<1>4. mode = "personal" => consumed' = 1
  BY <1>1 DEF Inv, OneSession
<1>5. pc[s] \in OnItsWay /\ ~this.restartTimer
  BY DEF Inv, TimerMeansNoChild, OnItsWay, Unspawned
<1>6. ASSUME NEW terminal \in BOOLEAN, Throw(s, T, signal, terminal) PROVE Inv'
  <2>1. (mode = "personal" => consumed' <= 1) /\ signal \in [Starts -> Signals]
    BY <1>4, SignalsTyped
  <2> QED
    BY <1>1, <1>2, <1>3, <1>5, <1>6, <2>1, ThrowKeepsInv
<1>7. CASE /\ ~T.killed /\ this' = T /\ pc' = [pc EXCEPT ![s] = "probe"]
           /\ UNCHANGED signal
  <2>1. \A r \in Starts : pc'[r] = IF r = s THEN "probe" ELSE pc[r]
    BY <1>7 DEF Inv, ObjectTypeOK
  <2>2. ChildAtPc'
    BY <1>2, <1>7, <2>1 DEF Inv, ChildAtPc, Unspawned
  <2>3. OneSession'
    <3> SUFFICES ASSUME mode = "personal" PROVE OneSession'
      BY DEF OneSession
    <3>1. s = 1 /\ T = takeGrant(this)
      BY <1>1
    <3>2. this'.grant = "live" /\ this'.grantTimer
      BY <1>7, <3>1, SignalsTyped DEF takeGrant, Object
    <3>3. this'.state # "ready"
      BY <1>2, <1>7, <3>1 DEF Inv, OneSession, Unspawned
    <3> QED
      BY <1>2, <1>4, <1>5, <1>7, <2>1, <3>1, <3>2, <3>3
         DEF Inv, OneSession, GrantIsUp, Unspawned
  <2>4. heard' \in [Starts -> BOOLEAN]
    BY DEF Inv, ObjectTypeOK
  <2> QED
    BY <1>2, <1>3, <1>5, <1>7, <2>2, <2>3, <2>4, MoveKeepsInv DEF Inv, ObjectTypeOK
<1> QED
  BY <1>6, <1>7 DEF BeginProbe, ProbeGate

(* spawn(): the attempt is the only one on its way, and there is no child. *)
LEMMA SpawnKeepsInv ==
    ASSUME Inv, NEW s \in Starts, Spawn(s, this), pc[s] \in {"mkdir", "probe"},
           pc[s] = "mkdir" => mode # "personal",
           UNCHANGED <<mode, flagCheck, heard, world, lapsed>>
    PROVE  Inv'
<1>1. pc[s] \in Unspawned /\ pc[s] \in OnItsWay /\ pc[s] # "idle"
  BY DEF Unspawned, OnItsWay
<1>2. CASE \E terminal \in BOOLEAN : Throw(s, this, signal, terminal) /\ UNCHANGED os
  BY <1>1, <1>2, SignalsTyped, ThrowInPlace
<1>3. ASSUME ~this.killed, NEW outcome \in {"alive", "unspawnable"},
             os' = [os EXCEPT ![s] = outcome],
             this' = [this EXCEPT !.child = s, !.everSpawned = TRUE,
                                  !.pgid = IF outcome = "alive" THEN s ELSE None],
             pc' = [pc EXCEPT ![s] = "spawning"],
             UNCHANGED signal
      PROVE  Inv'
  <2>1. /\ this' \in Object /\ this'.child = s /\ ~this'.killed
        /\ this'.pgid = (IF outcome = "alive" THEN s ELSE None)
        /\ this'.restartTimer = this.restartTimer /\ this'.state = this.state
        /\ this'.grant = this.grant /\ this'.grantTimer = this.grantTimer
    <3>1. this \in Object /\ s \in 0..MaxStarts /\ None \in 0..MaxStarts
      BY SignalsTyped, ProviderAssumption DEF Starts, None
    <3>2. CASE outcome = "alive"
      BY <1>3, <3>1, <3>2 DEF Object
    <3>3. CASE outcome = "unspawnable"
      BY <1>3, <3>1, <3>3 DEF Object
    <3> QED
      BY <1>3, <3>2, <3>3
  <2>2. /\ \A r \in Starts : pc'[r] = IF r = s THEN "spawning" ELSE pc[r]
        /\ \A r \in Starts : os'[r] = IF r = s THEN outcome ELSE os[r]
    BY <1>3 DEF Inv, ObjectTypeOK
  <2>3. this.child = None /\ os[s] = "none" /\ ~heard[s] /\ ~this.restartTimer
    BY <1>1 DEF Inv, ChildAtPc, TimerMeansNoChild, Unspawned
  <2>4. \A r \in Starts : os[r] \notin Running
    BY <2>3 DEF Inv, ChildIsTheProcess, Starts, None
  <2>5. ObjectTypeOK'
    BY <1>3, <2>1 DEF Inv, ObjectTypeOK, Object, world
  <2>6. ChildIsTheProcess'
    BY <2>1, <2>2, <2>4 DEF ChildIsTheProcess, Running, Starts, None
  <2>7. OneOnItsWay'
    BY <1>1, <2>2 DEF Inv, OneOnItsWay
  <2>8. \A r \in Starts \ {s} : pc[r] \notin OnItsWay
    BY <1>1 DEF Inv, OneOnItsWay
  <2>9. ChildAtPc'
    BY <2>1, <2>2, <2>3, <2>8 DEF Inv, ChildAtPc, OnItsWay, Unspawned
  <2>10. FirstIsFirst'
    BY <1>1, <2>2, FirstExists DEF Inv, FirstIsFirst
  <2>11. TimerMeansNoChild' /\ ChildrenContained' /\ ApprovalsCounted'
    BY <1>3, <2>1, <2>3 DEF Inv, TimerMeansNoChild, ChildrenContained,
                            ApprovalsCounted, world
  <2>12. OneSession'
    <3> SUFFICES ASSUME mode = "personal" PROVE OneSession'
      BY DEF OneSession
    <3>1. s = 1 /\ pc[1] = "probe"
      BY <1>1, BegunIsAllowed
    <3>2. GrantIsUp
      BY <1>3, <3>1 DEF Inv, OneSession
    <3>3. GrantIsUp'
      BY <2>1, <3>2 DEF GrantIsUp
    <3> QED
      BY <2>1, <2>2, <2>3, <3>1, <3>3, FirstExists
         DEF Inv, OneSession, Unspawned, world
  <2> QED
    BY <2>5, <2>6, <2>7, <2>9, <2>10, <2>11, <2>12 DEF Inv
<1> QED
  BY <1>2, <1>3 DEF Spawn, SpawnGate

LEMMA AfterMkdirKeepsInv ==
    ASSUME Inv, NEW s \in Starts, AfterMkdir(s)
    PROVE  Inv'
<1>1. pc[s] = "mkdir" /\ UNCHANGED <<mode, flagCheck, heard, world, lapsed>>
  BY DEF AfterMkdir
<1>2. /\ UNCHANGED <<gate, approval, approved, consumed>>
      /\ ~this.restartTimer /\ pc[s] \in OnItsWay
  BY <1>1 DEF world, Inv, TimerMeansNoChild, OnItsWay, Unspawned
<1>3. CASE mode = "personal" /\ pc' = [pc EXCEPT ![s] = "approval"]
           /\ UNCHANGED <<this, signal, os>>
  <2>1. \A r \in Starts : pc'[r] = IF r = s THEN "approval" ELSE pc[r]
    BY <1>3 DEF Inv, ObjectTypeOK
  <2>2. ChildAtPc'
    BY <1>1, <1>3, <2>1 DEF Inv, ChildAtPc, Unspawned
  <2>3. s = 1
    BY <1>1, <1>3, BegunIsAllowed
  <2>4. OneSession' /\ ApprovalsCounted'
    BY <1>1, <1>2, <1>3, <2>1, <2>3
       DEF Inv, OneSession, ApprovalsCounted, GrantIsUp, Unspawned
  <2>5. heard' \in [Starts -> BOOLEAN] /\ approval' \in BOOLEAN /\ consumed' \in Nat
    BY <1>1, <1>2 DEF Inv, ObjectTypeOK
  <2> QED
    BY <1>1, <1>2, <1>3, <2>2, <2>4, <2>5, SignalsTyped, MoveKeepsInv
<1>4. CASE mode = "isolated" /\ BeginProbe(s, this) /\ UNCHANGED os
  BY <1>1, <1>2, <1>4, SignalsTyped, ProbeKeepsInv
<1>5. CASE mode = "isolated" /\ Spawn(s, this)
  BY <1>1, <1>5, SpawnKeepsInv
<1> QED
  BY <1>3, <1>4, <1>5 DEF AfterMkdir

LEMMA ConsumeKeepsInv ==
    ASSUME Inv, NEW s \in Starts, ConsumeApproval(s)
    PROVE  Inv'
<1>1. /\ pc[s] = "approval"
      /\ UNCHANGED <<mode, flagCheck, os, heard, gate, approved, lapsed>>
  BY DEF ConsumeApproval
<1>2. pc[s] \in OnItsWay /\ pc[s] # "idle"
  BY <1>1 DEF OnItsWay, Unspawned
<1>3. CASE Throw(s, this, signal, TRUE) /\ UNCHANGED <<approval, consumed>>
  BY <1>1, <1>2, <1>3, SignalsTyped, ThrowInPlace DEF world
<1>4. ASSUME approval, approval' = FALSE, consumed' = consumed + 1
      PROVE  /\ takeGrant(this) \in Object
             /\ BeginProbe(s, takeGrant(this)) => Inv'
             /\ Throw(s, takeGrant(this), signal, TRUE) => Inv'
  <2> DEFINE T == takeGrant(this)
  <2>1. /\ T \in Object /\ T.child = this.child /\ T.pgid = this.pgid
        /\ T.killed = this.killed /\ T.restartTimer = this.restartTimer
        /\ T.attempts = this.attempts
    BY SignalsTyped DEF takeGrant, Object
  <2>2. approval' \in BOOLEAN /\ consumed' \in Nat /\ ApprovalsCounted'
    BY <1>1, <1>4, ConsumptionCounted
  <2>3. s = 1 \/ (pc[1] # "idle" /\ mode # "personal")
    BY <1>2, BegunIsAllowed
  <2>4. mode = "personal" => consumed' <= 1
    BY <1>1, <1>4, <2>3 DEF Inv, OneSession
  <2>5. ASSUME BeginProbe(s, T) PROVE Inv'
    BY <1>1, <1>4, <2>1, <2>5, ProbeKeepsInv
  <2>6. ASSUME Throw(s, T, signal, TRUE) PROVE Inv'
    <3> HIDE DEF T
    <3> QED
      BY <1>1, <1>2, <2>1, <2>2, <2>3, <2>4, <2>6, SignalsTyped, ThrowKeepsInv
  <2> QED
    BY <2>1, <2>5, <2>6
<1> QED
  BY <1>3, <1>4 DEF ConsumeApproval

LEMMA ProbeEndsKeepsInv ==
    ASSUME Inv, NEW s \in Starts, ProbeEnds(s)
    PROVE  Inv'
<1>1. pc[s] = "probe" /\ UNCHANGED <<mode, flagCheck, heard, world, lapsed>>
  BY DEF ProbeEnds
<1>2. CASE Spawn(s, this)
  BY <1>1, <1>2, SpawnKeepsInv
<1>3. CASE \E terminal \in BOOLEAN : Throw(s, this, signal, terminal) /\ UNCHANGED os
  BY <1>1, <1>3, SignalsTyped, ThrowInPlace DEF OnItsWay, Unspawned
<1> QED
  BY <1>2, <1>3 DEF ProbeEnds

LEMMA SpawnedKeepsInv ==
    ASSUME Inv, NEW s \in Starts, Spawned(s)
    PROVE  Inv'
<1>1. /\ pc[s] = "spawning" /\ pc[s] \in OnItsWay /\ pc[s] # "idle"
      /\ UNCHANGED <<mode, flagCheck, os, world, lapsed>>
  BY DEF Spawned, OnItsWay
<1>2. CASE Throw(s, this, signal, FALSE) /\ UNCHANGED heard
  BY <1>1, <1>2, SignalsTyped, ThrowInPlace
<1>3. CASE /\ heard' = [heard EXCEPT ![s] = TRUE]
           /\ pc' = [pc EXCEPT ![s] = "metadata"] /\ UNCHANGED <<this, signal>>
  <2>1. /\ \A r \in Starts : pc'[r] = IF r = s THEN "metadata" ELSE pc[r]
        /\ \A r \in Starts : heard'[r] = IF r = s THEN TRUE ELSE heard[r]
        /\ heard' \in [Starts -> BOOLEAN]
    BY <1>3 DEF Inv, ObjectTypeOK
  <2>2. ChildAtPc'
    BY <1>1, <1>3, <2>1 DEF Inv, ChildAtPc, Unspawned
  <2>3. OneSession' /\ ApprovalsCounted'
    BY <1>1, <1>3, <2>1, BegunIsAllowed, FirstExists
       DEF Inv, OneSession, ApprovalsCounted, GrantIsUp, Unspawned, world
  <2>4. approval' \in BOOLEAN /\ consumed' \in Nat /\ UNCHANGED <<gate, approved>>
    BY <1>1 DEF Inv, ObjectTypeOK, world
  <2> QED
    BY <1>1, <1>3, <2>1, <2>2, <2>3, <2>4, SignalsTyped, MoveKeepsInv
<1> QED
  BY <1>2, <1>3 DEF Spawned

(* The handshake begins with a child; registerTools ends it.               *)
LEMMA WithChildKeepsInv ==
    ASSUME Inv, NEW s \in Starts, NEW next \in {"handshake", "gate", "done"},
           pc' = [pc EXCEPT ![s] = next],
           pc[s] \in {"metadata", "handshake", "gate"},
           pc[s] = "metadata" => this.child # None,
           pc[s] = "gate" => next = "done",
           this' = [this EXCEPT !.state = "ready", !.registered = TRUE] \/ UNCHANGED this,
           UNCHANGED <<mode, flagCheck, os, heard, signal, world, lapsed>>
    PROVE  Inv'
<1>1. /\ this' \in Object /\ this'.child = this.child /\ this'.pgid = this.pgid
      /\ this'.killed = this.killed /\ this'.restartTimer = this.restartTimer
      /\ this'.attempts = this.attempts /\ this'.grant = this.grant
      /\ this'.grantTimer = this.grantTimer
  BY SignalsTyped DEF Object
<1>2. \A r \in Starts : pc'[r] = IF r = s THEN next ELSE pc[r]
  BY DEF Inv, ObjectTypeOK
<1>3. next \in OnItsWay => ~this.restartTimer
  BY DEF Inv, ChildAtPc, TimerMeansNoChild, OnItsWay, Unspawned, Starts, None
<1>4. ChildAtPc'
  BY <1>1, <1>2 DEF Inv, ChildAtPc, Unspawned
<1>5. OneSession' /\ ApprovalsCounted'
  BY <1>1, <1>2, BegunIsAllowed, FirstExists
     DEF Inv, OneSession, ApprovalsCounted, GrantIsUp, Unspawned, world
<1>6. /\ approval' \in BOOLEAN /\ consumed' \in Nat /\ UNCHANGED <<gate, approved>>
      /\ heard' \in [Starts -> BOOLEAN]
  BY DEF Inv, ObjectTypeOK, world
<1>7. pc[s] # "idle" /\ (pc[s] \in OnItsWay \/ next \notin OnItsWay)
  BY DEF OnItsWay, Unspawned
<1> QED
  BY <1>1, <1>3, <1>4, <1>5, <1>6, <1>7, MoveKeepsInv

LEMMA MetadataKeepsInv ==
    ASSUME Inv, NEW s \in Starts, MetadataWritten(s)
    PROVE  Inv'
<1>1. /\ pc[s] = "metadata" /\ pc[s] \in OnItsWay /\ pc[s] # "idle"
      /\ UNCHANGED <<mode, flagCheck, os, heard, world, lapsed>>
  BY DEF MetadataWritten, OnItsWay
<1>2. CASE Throw(s, this, killGroup(this.pgid, "KILL", signal), TRUE)
  <2> DEFINE sent == killGroup(this.pgid, "KILL", signal)
  <2>1. /\ sent \in [Starts -> Signals]
        /\ \A p \in Starts : signal[p] = "KILL" => sent[p] = "KILL"
        /\ \A p \in Starts : signal[p] # "none" => sent[p] # "none"
    BY SignalsTyped, KillKeeps
  <2> HIDE DEF sent
  <2> QED
    BY <1>1, <1>2, <2>1, ThrowInPlace DEF sent
<1>3. CASE \E terminal \in BOOLEAN : Throw(s, this, signal, terminal)
  BY <1>1, <1>3, SignalsTyped, ThrowInPlace
<1>4. CASE /\ this.child # None /\ pc' = [pc EXCEPT ![s] = "handshake"]
           /\ UNCHANGED <<this, signal>>
  BY <1>1, <1>4, WithChildKeepsInv
<1> QED
  BY <1>2, <1>3, <1>4 DEF MetadataWritten

LEMMA RegisterKeepsInv ==
    ASSUME Inv, NEW s \in Starts, Register(s), pc[s] \in {"handshake", "gate"},
           UNCHANGED <<mode, flagCheck, os, heard, world, lapsed>>
    PROVE  Inv'
<1>1. CASE Throw(s, this, signal, TRUE)
  BY <1>1, SignalsTyped, ThrowInPlace
<1>2. CASE ~Throw(s, this, signal, TRUE)
  BY <1>2, WithChildKeepsInv DEF Register
<1> QED
  BY <1>1, <1>2

LEMMA HandshakeKeepsInv ==
    ASSUME Inv, NEW s \in Starts, HandshakeDone(s) \/ HandshakeFails(s) \/ Rejected(s)
    PROVE  Inv'
<1>1. CASE HandshakeDone(s)
  <2>1. CASE s = 1 /\ ~gate
    BY <1>1, <2>1, WithChildKeepsInv DEF HandshakeDone
  <2>2. CASE ~(s = 1 /\ ~gate)
    BY <1>1, <2>2, RegisterKeepsInv DEF HandshakeDone
  <2> QED
    BY <2>1, <2>2
<1>2. CASE HandshakeFails(s) \/ Rejected(s)
  BY <1>2, SignalsTyped, ThrowInPlace DEF HandshakeFails, Rejected, OnItsWay
<1> QED
  BY <1>1, <1>2

LEMMA GateResumeKeepsInv == Inv /\ GateResume => Inv'
BY FirstExists, RegisterKeepsInv DEF GateResume

-----------------------------------------------------------------------------
(* What happens between the steps of start().                              *)
LEMMA DiesKeepsInv ==
    ASSUME Inv, NEW p \in Starts, Dies(p)
    PROVE  Inv'
<1>1. /\ os[p] = "alive"
      /\ UNCHANGED <<mode, flagCheck, this, pc, signal, heard, lapsed,
                     gate, approval, approved, consumed>>
      /\ os' \in [Starts -> {"none", "unspawnable", "alive", "dead", "reaped"}]
      /\ \A q \in Starts : os'[q] = IF q = p THEN "dead" ELSE os[q]
  BY DEF Dies, Inv, ObjectTypeOK, world
<1>2. ObjectTypeOK'
  BY <1>1 DEF Inv, ObjectTypeOK
<1>3. ChildIsTheProcess'
  <2>1. this.child \in 0..MaxStarts
    BY SignalsTyped DEF Object
  <2>2. this.child # None => this.child \in Starts
    BY <2>1, ProviderAssumption DEF Starts, None
  <2> QED
    BY <1>1, <2>2 DEF Inv, ChildIsTheProcess, Running
<1>4. /\ OneOnItsWay' /\ ChildAtPc' /\ FirstIsFirst' /\ TimerMeansNoChild'
      /\ ChildrenContained' /\ ApprovalsCounted' /\ OneSession'
  BY <1>1 DEF Inv, OneOnItsWay, ChildAtPc, FirstIsFirst, TimerMeansNoChild,
              ChildrenContained, ApprovalsCounted, OneSession, GrantIsUp
<1> QED
  BY <1>2, <1>3, <1>4 DEF Inv

(* onExit: the child that exited is the one the object knows, and no       *)
(* attempt is before the end of its spawn.                                 *)
LEMMA ExitKeepsInv ==
    ASSUME Inv, NEW p \in Starts, Exit(p)
    PROVE  Inv'
<1> DEFINE T == [this EXCEPT !.child = None, !.pgid = None]
<1>1. /\ os[p] = "dead" /\ heard[p]
      /\ os' = [os EXCEPT ![p] = "reaped"]
      /\ signal' = killGroup(this.pgid, "KILL", signal)
      /\ this' = AfterExit(T)
      /\ pc' = [s \in Starts |-> IF pc[s] = "handshake" THEN "rejected" ELSE pc[s]]
      /\ UNCHANGED <<mode, flagCheck, heard, gate, approval, approved, consumed, lapsed>>
  BY DEF Exit, world
<1>2. this.child = p /\ p # None /\ ~this.restartTimer
  BY <1>1, ProviderAssumption
     DEF Inv, ChildIsTheProcess, TimerMeansNoChild, Running, Starts, None
<1>3. /\ T \in Object /\ T.child = None /\ T.pgid = None /\ ~T.restartTimer
      /\ T.killed = this.killed
  <2>1. this \in Object /\ None \in 0..MaxStarts
    BY SignalsTyped, ProviderAssumption DEF None
  <2>2. T.restartTimer = this.restartTimer
    BY <2>1 DEF Object
  <2> QED
    BY <1>2, <2>1, <2>2 DEF Object
<1>4. /\ this' \in Object /\ this'.child = None /\ this'.pgid = None
      /\ this'.killed = this.killed
      /\ this'.restartTimer => mode # "personal" /\ this'.attempts < RestartMax
  <2> HIDE DEF T
  <2>1. CASE T.stopping
    BY <1>1, <1>3, <2>1 DEF AfterExit, Object
  <2>2. CASE ~T.stopping
    BY <1>1, <1>3, <2>2, ScheduleKeeps DEF AfterExit
  <2> QED
    BY <2>1, <2>2
<1> HIDE DEF T
<1>5. \A s \in Starts : /\ pc[s] \notin Unspawned \cup {"spawning", "rejected"}
                        /\ pc'[s] = IF pc[s] = "handshake" THEN "rejected" ELSE pc[s]
  BY <1>1, <1>2 DEF Inv, ChildAtPc
<1>6. \A q \in Starts : os[q] \in Running => q = p
  BY <1>2 DEF Inv, ChildIsTheProcess
<1>7. \A q \in Starts : os'[q] \notin Running
  BY <1>1, <1>6 DEF Inv, ObjectTypeOK, Running
<1>8. ObjectTypeOK'
  <2>1. signal' \in [Starts -> Signals]
    BY <1>1, SignalsTyped, KillKeeps
  <2> QED
    BY <1>1, <1>4, <2>1 DEF Inv, ObjectTypeOK, Object, Signals
<1>9. ChildIsTheProcess' /\ ChildrenContained'
  BY <1>4, <1>7 DEF ChildIsTheProcess, ChildrenContained, Running
<1>10. \A s \in Starts : pc'[s] \in OnItsWay =>
            pc[s] \in OnItsWay /\ pc'[s] \in {"metadata", "rejected"}
  BY <1>5 DEF OnItsWay, Unspawned
<1>11. OneOnItsWay'
  BY <1>10 DEF Inv, OneOnItsWay
<1>12. ChildAtPc'
  <2>1. \A s \in Starts : os[s] = "none" => os'[s] = "none"
    BY <1>1 DEF Inv, ObjectTypeOK
  <2> QED
    BY <1>1, <1>4, <1>5, <2>1 DEF Inv, ChildAtPc, Unspawned
<1>13. pc[1] # "idle" /\ pc'[1] # "idle" /\ FirstIsFirst'
  <2>1. pc[p] # "idle"
    BY <1>1 DEF Inv, ChildAtPc
  <2> QED
    BY <1>5, <2>1, FirstExists DEF Inv, FirstIsFirst
<1>14. TimerMeansNoChild'
  BY <1>4, <1>10, <1>13 DEF TimerMeansNoChild
<1>15. ApprovalsCounted'
  BY <1>1 DEF Inv, ApprovalsCounted
<1>16. OneSession'
  <2> SUFFICES ASSUME mode = "personal" PROVE OneSession'
    BY <1>1 DEF OneSession
  <2>1. \A q \in Starts : os'[q] # "alive"
    BY <1>7 DEF Running
  <2>2. pc'[1] \notin Unspawned \cup {"idle"}
    BY <1>5, <1>13, FirstExists DEF Unspawned
  <2>3. \A s \in Starts \ {1} : pc'[s] = "idle"
    BY <1>5 DEF Inv, OneSession
  <2> QED
    BY <1>1, <1>4, <2>1, <2>2, <2>3 DEF Inv, OneSession, Unspawned
<1> QED
  BY <1>8, <1>9, <1>11, <1>12, <1>13, <1>14, <1>15, <1>16 DEF Inv

(* The steps that signal this.pgid: the child is the process it names.     *)
LEMMA GroupSignalled ==
    ASSUME Inv, NEW sig \in {"TERM", "KILL"}, signal' = killGroup(this.pgid, sig, signal)
    PROVE  /\ signal' \in [Starts -> Signals]
           /\ \A p \in Starts : signal[p] = "KILL" => signal'[p] = "KILL"
           /\ \A p \in Starts : signal[p] # "none" => signal'[p] # "none"
           /\ \A p \in Starts : os[p] = "alive" =>
                 this.child # None /\ signal'[p] \in {sig, "KILL"}
<1>1. \A p \in Starts : os[p] = "alive" => p = this.pgid /\ this.child # None
  BY ProviderAssumption DEF Inv, ChildIsTheProcess, Running, Starts, None
<1> QED
  BY <1>1, SignalsTyped, KillKeeps

(* A timer or a call that leaves the attempts and the processes alone: it  *)
(* may end the grant only of a session whose processes it signals.         *)
LEMMA TimerKeepsInv ==
    ASSUME Inv, UNCHANGED <<mode, flagCheck, pc, os, heard, world>>,
           this' \in Object, this'.child = this.child, this'.pgid = this.pgid,
           this'.restartTimer => this.restartTimer /\ this'.attempts <= this.attempts,
           this'.state = "ready" => this.state = "ready",
           lapsed' \in BOOLEAN, signal' \in [Starts -> Signals],
           \A p \in Starts : signal[p] = "KILL" => signal'[p] = "KILL",
           \A p \in Starts : signal[p] # "none" => signal'[p] # "none",
           this.killed => this'.killed,
           this'.killed =>
              this.killed \/ \A p \in Starts : os[p] = "alive" => signal'[p] = "KILL",
           \/ GrantIsUp => GrantIsUp'
           \/ /\ mode = "personal" /\ pc[1] = "probe" => this'.killed
              /\ \A p \in Starts : os[p] = "alive" => signal'[p] # "none"
    PROVE  Inv'
<1>1. /\ approval' \in BOOLEAN /\ gate' \in BOOLEAN /\ approved' \in 0..MaxApprovals
      /\ UNCHANGED consumed /\ ApprovalsCounted'
  BY DEF world, Inv, ObjectTypeOK, ApprovalsCounted
<1>2. ChildrenContained'
  BY DEF Inv, ChildrenContained
<1>3. OneSession'
  <2> SUFFICES ASSUME mode = "personal" PROVE OneSession'
    BY DEF OneSession
  <2>1. /\ pc[1] = "probe" => this.killed \/ GrantIsUp
        /\ \A p \in Starts : os[p] = "alive" /\ signal[p] = "none" => GrantIsUp
    BY DEF Inv, OneSession
  <2>2. /\ pc[1] = "probe" => this'.killed \/ GrantIsUp'
        /\ \A p \in Starts : os[p] = "alive" /\ signal'[p] = "none" => GrantIsUp'
    BY <2>1
  <2>3. /\ ~this'.restartTimer
        /\ \A s \in Starts \ {1} : pc'[s] = "idle"
        /\ consumed' <= 1
        /\ pc'[1] \in {"idle", "mkdir", "approval"} => consumed' = 0
        /\ pc'[1] \in Unspawned => this'.state # "ready"
    BY <1>1 DEF Inv, OneSession
  <2> QED
    BY <2>2, <2>3 DEF OneSession
<1> QED
  BY <1>1, <1>2, <1>3, AsideKeepsInv

LEMMA PingKillsKeepsInv == Inv /\ PingKills => Inv'
<1> SUFFICES ASSUME Inv, PingKills PROVE Inv'
  OBVIOUS
<1>1. /\ signal' = killGroup(this.pgid, "KILL", signal)
      /\ UNCHANGED <<mode, flagCheck, this, pc, os, heard, world, lapsed>>
  BY DEF PingKills
<1>2. lapsed' \in BOOLEAN /\ (GrantIsUp => GrantIsUp')
  BY <1>1 DEF Inv, ObjectTypeOK, GrantIsUp
<1>3. /\ this' \in Object
      /\ (this'.restartTimer => this.restartTimer /\ this'.attempts <= this.attempts)
  BY <1>1, SignalsTyped, ProviderAssumption DEF Object
<1> QED
  BY <1>1, <1>2, <1>3, GroupSignalled, TimerKeepsInv

LEMMA GrantRunsOutKeepsInv == Inv /\ GrantRunsOut => Inv'
<1> SUFFICES ASSUME Inv, GrantRunsOut PROVE Inv'
  OBVIOUS
<1>1. /\ this.grant = "live" /\ this' = [this EXCEPT !.grant = "past"]
      /\ UNCHANGED <<mode, flagCheck, pc, os, signal, heard, world, lapsed>>
  BY DEF GrantRunsOut, procs
<1>2. /\ this' \in Object /\ this'.child = this.child /\ this'.pgid = this.pgid
      /\ this'.restartTimer = this.restartTimer /\ this'.attempts = this.attempts
      /\ this'.state = this.state /\ this'.killed = this.killed
      /\ this'.grantTimer = this.grantTimer /\ this'.grant = "past"
  BY <1>1, SignalsTyped DEF Object
<1>3. lapsed' \in BOOLEAN /\ signal' \in [Starts -> Signals] /\ (GrantIsUp => GrantIsUp')
  BY <1>1, <1>2, SignalsTyped DEF Inv, ObjectTypeOK, GrantIsUp
<1>4. this'.attempts <= this.attempts
  BY <1>2, SignalsTyped, ProviderAssumption DEF Object
<1> QED
  BY <1>1, <1>2, <1>3, <1>4, TimerKeepsInv

(* endSession, shared by the expiry timer and by a call that meets it.     *)
LEMMA EndSessionKeeps ==
    ASSUME NEW T \in Object
    PROVE  /\ endSession(T) \in Object
           /\ endSession(T).child = T.child /\ endSession(T).pgid = T.pgid
           /\ endSession(T).killed = T.killed /\ endSession(T).state = T.state
           /\ ~endSession(T).restartTimer
<1> DEFINE U == [T EXCEPT !.grant = "null", !.failedTerminally = TRUE]
<1>1. /\ U \in Object /\ U.child = T.child /\ U.pgid = T.pgid
      /\ U.killed = T.killed /\ U.state = T.state
  BY DEF Object
<1> HIDE DEF U
<1>2. endSession(T) = stop(U)
  BY DEF endSession, U
<1> QED
  BY <1>1, <1>2, StopKeeps

LEMMA GrantTimerKeepsInv == Inv /\ GrantTimerFires => Inv'
<1> SUFFICES ASSUME Inv, GrantTimerFires PROVE Inv'
  OBVIOUS
<1>1. /\ this' = [endSession(this) EXCEPT !.state = "failed"]
      /\ signal' = killGroup(this.pgid, "TERM", signal)
      /\ lapsed' = (lapsed \/ this.child = None)
      /\ UNCHANGED <<mode, flagCheck, pc, os, heard, world>>
  BY DEF GrantTimerFires
<1>2. /\ this' \in Object /\ this'.child = this.child /\ this'.pgid = this.pgid
      /\ ~this'.restartTimer /\ this'.state = "failed" /\ this'.killed = this.killed
  <2> DEFINE U == endSession(this)
  <2>1. /\ U \in Object /\ U.child = this.child /\ U.pgid = this.pgid
        /\ U.killed = this.killed /\ ~U.restartTimer
    BY SignalsTyped, EndSessionKeeps
  <2> HIDE DEF U
  <2>2. this' = [U EXCEPT !.state = "failed"]
    BY <1>1 DEF U
  <2> QED
    BY <2>1, <2>2 DEF Object
<1>3. \/ GrantIsUp => GrantIsUp'
      \/ /\ mode = "personal" /\ pc[1] = "probe" => this'.killed
         /\ \A p \in Starts : os[p] = "alive" => signal'[p] # "none"
  <2>1. CASE this.child = None
    BY <1>1, <2>1 DEF GrantIsUp
  <2>2. CASE this.child # None
    BY <1>1, <2>2, GroupSignalled, FirstExists DEF Inv, ChildAtPc, Unspawned
  <2> QED
    BY <2>1, <2>2
<1>4. lapsed' \in BOOLEAN
  BY <1>1 DEF Inv, ObjectTypeOK
<1> QED
  BY <1>1, <1>2, <1>3, <1>4, GroupSignalled, TimerKeepsInv

LEMMA ExpiryNoticedKeepsInv == Inv /\ CallNoticesExpiry => Inv'
<1> SUFFICES ASSUME Inv, CallNoticesExpiry PROVE Inv'
  OBVIOUS
<1>1. /\ this.state = "ready" /\ this' = endSession(this)
      /\ signal' = killGroup(this.pgid, "TERM", signal)
      /\ UNCHANGED <<mode, flagCheck, pc, os, heard, world, lapsed>>
  BY DEF CallNoticesExpiry
<1>2. /\ this' \in Object /\ this'.child = this.child /\ this'.pgid = this.pgid
      /\ ~this'.restartTimer /\ this'.state = this.state /\ this'.killed = this.killed
  BY <1>1, SignalsTyped, EndSessionKeeps
<1>3. mode = "personal" => pc[1] # "probe"
  BY <1>1 DEF Inv, OneSession, Unspawned
<1>4. lapsed' \in BOOLEAN
  BY <1>1 DEF Inv, ObjectTypeOK
<1> QED
  BY <1>1, <1>2, <1>3, <1>4, GroupSignalled, TimerKeepsInv

LEMMA GraceKeepsInv == Inv /\ GraceFires => Inv'
<1> SUFFICES ASSUME Inv, GraceFires PROVE Inv'
  OBVIOUS
<1>1. /\ this' = [this EXCEPT !.graceTimer = FALSE]
      /\ signal' = killGroup(this.pgid, "KILL", signal)
      /\ UNCHANGED <<mode, flagCheck, pc, os, heard, world, lapsed>>
  BY DEF GraceFires
<1>2. /\ this' \in Object /\ this'.child = this.child /\ this'.pgid = this.pgid
      /\ this'.restartTimer = this.restartTimer /\ this'.attempts = this.attempts
      /\ this'.state = this.state /\ this'.killed = this.killed
      /\ this'.grantTimer = this.grantTimer /\ this'.grant = this.grant
  BY <1>1, SignalsTyped DEF Object
<1>3. lapsed' \in BOOLEAN /\ (GrantIsUp => GrantIsUp')
  BY <1>1, <1>2 DEF Inv, ObjectTypeOK, GrantIsUp
<1>4. this'.attempts <= this.attempts
  BY <1>2, SignalsTyped, ProviderAssumption DEF Object
<1> QED
  BY <1>1, <1>2, <1>3, <1>4, GroupSignalled, TimerKeepsInv

LEMMA KillNowKeepsInv == Inv /\ KillNow => Inv'
<1> SUFFICES ASSUME Inv, KillNow PROVE Inv'
  OBVIOUS
<1>1. /\ this' = [this EXCEPT !.killed = TRUE, !.stopping = TRUE, !.state = "stopped",
                              !.grantTimer = FALSE, !.restartTimer = FALSE]
      /\ signal' = killGroup(this.pgid, "KILL", signal)
      /\ UNCHANGED <<mode, flagCheck, pc, os, heard, world, lapsed>>
  BY DEF KillNow
<1>2. /\ this' \in Object /\ this'.child = this.child /\ this'.pgid = this.pgid
      /\ ~this'.restartTimer /\ this'.state = "stopped" /\ this'.killed
  BY <1>1, SignalsTyped DEF Object
<1>3. lapsed' \in BOOLEAN
  BY <1>1 DEF Inv, ObjectTypeOK
<1>4. \A p \in Starts : os[p] = "alive" => signal'[p] = "KILL" /\ signal'[p] # "none"
  BY <1>1, GroupSignalled
<1> QED
  BY <1>1, <1>2, <1>3, <1>4, GroupSignalled, TimerKeepsInv

LEMMA AttemptAgesKeepsInv == Inv /\ AttemptAges => Inv'
<1> SUFFICES ASSUME Inv, AttemptAges PROVE Inv'
  OBVIOUS
<1>1. /\ this.attempts > 0 /\ this' = [this EXCEPT !.attempts = this.attempts - 1]
      /\ UNCHANGED <<mode, flagCheck, pc, os, signal, heard, world, lapsed>>
  BY DEF AttemptAges, procs
<1>2. this.attempts - 1 \in 0..RestartMax /\ this.attempts - 1 <= this.attempts
  BY <1>1, SignalsTyped, ProviderAssumption DEF Object
<1>3. /\ this' \in Object /\ this'.child = this.child /\ this'.pgid = this.pgid
      /\ this'.restartTimer = this.restartTimer /\ this'.attempts = this.attempts - 1
      /\ this'.state = this.state /\ this'.killed = this.killed
      /\ this'.grantTimer = this.grantTimer /\ this'.grant = this.grant
  BY <1>1, <1>2, SignalsTyped DEF Object
<1>4. lapsed' \in BOOLEAN /\ signal' \in [Starts -> Signals] /\ (GrantIsUp => GrantIsUp')
  BY <1>1, <1>3, SignalsTyped DEF Inv, ObjectTypeOK, GrantIsUp
<1> QED
  BY <1>1, <1>2, <1>3, <1>4, TimerKeepsInv

LEMMA OutsideKeepsInv == Inv /\ (GateOpens \/ OperatorApproves) => Inv'
<1> SUFFICES ASSUME Inv, GateOpens \/ OperatorApproves PROVE Inv'
  OBVIOUS
<1>1. /\ UNCHANGED <<mode, flagCheck, this, pc, os, signal, heard, consumed, lapsed>>
      /\ \/ gate' = TRUE /\ UNCHANGED <<approval, approved>>
         \/ /\ approved < MaxApprovals /\ approval' = TRUE /\ approved' = approved + 1
            /\ UNCHANGED gate
  BY DEF GateOpens, OperatorApproves, procs
<1>2. /\ gate' \in BOOLEAN /\ approval' \in BOOLEAN /\ approved' \in 0..MaxApprovals
      /\ lapsed' \in BOOLEAN
  <2>1. approved \in 0..MaxApprovals /\ MaxApprovals \in Nat
    BY ProviderAssumption DEF Inv, ObjectTypeOK
  <2>2. approved' \in 0..MaxApprovals
    BY <1>1, <2>1
  <2> QED
    BY <1>1, <2>2 DEF Inv, ObjectTypeOK
<1>3. ApprovalsCounted'
  <2>1. CASE UNCHANGED <<approval, approved>>
    BY <1>1, <2>1 DEF Inv, ApprovalsCounted
  <2>2. CASE approved' = approved + 1
    <3>1. consumed' < approved' /\ consumed' <= approved'
      <4>1. consumed <= approved /\ consumed \in Nat /\ approved \in Nat
        BY ProviderAssumption DEF Inv, ObjectTypeOK, ApprovalsCounted
      <4> QED
        BY <1>1, <2>2, <4>1
    <3> QED
      BY <3>1 DEF ApprovalsCounted
  <2> QED
    BY <1>1, <2>1, <2>2
<1>4. ChildrenContained' /\ OneSession'
  BY <1>1 DEF Inv, ChildrenContained, OneSession, GrantIsUp
<1>5. this'.restartTimer => this.restartTimer /\ this'.attempts <= this.attempts
  BY <1>1, SignalsTyped, ProviderAssumption DEF Object
<1> QED
  BY <1>1, <1>2, <1>3, <1>4, <1>5, SignalsTyped, AsideKeepsInv

-----------------------------------------------------------------------------
LEMMA NothingOfInv ==
    ASSUME Inv, UNCHANGED <<mode, flagCheck, this, pc, os, signal, heard, world, lapsed>>
    PROVE  Inv'
BY DEF world, Inv, ObjectTypeOK, ChildIsTheProcess, OneOnItsWay, ChildAtPc, FirstIsFirst,
       TimerMeansNoChild, ChildrenContained, ApprovalsCounted, OneSession, GrantIsUp

LEMMA NextKeepsInv ==
    ASSUME PromptDisk \/ mode = "personal", Inv, [Next]_vars
    PROVE  Inv'
<1>1. CASE FirstStart
  BY <1>1, FirstStartKeepsInv
<1>2. CASE RestartTimerFires
  <2>1. mode # "personal"
    BY <1>2 DEF RestartTimerFires, Inv, OneSession
  <2> QED
    BY <1>2, <2>1, RestartKeepsInv
<1>3. ASSUME NEW s \in Starts, StartStep(s) PROVE Inv'
  BY <1>3, AfterMkdirKeepsInv, ConsumeKeepsInv, ProbeEndsKeepsInv, SpawnedKeepsInv,
     MetadataKeepsInv, HandshakeKeepsInv DEF StartStep
<1>4. ASSUME NEW p \in Starts, Dies(p) \/ Exit(p) \/ ProbeExits(p) PROVE Inv'
  <2>1. CASE ProbeExits(p)
    BY <2>1, NothingOfInv DEF ProbeExits, procs
  <2> QED
    BY <1>4, <2>1, DiesKeepsInv, ExitKeepsInv
<1>5. CASE PingKills \/ GrantRunsOut \/ GrantTimerFires \/ CallNoticesExpiry
  BY <1>5, PingKillsKeepsInv, GrantRunsOutKeepsInv, GrantTimerKeepsInv,
     ExpiryNoticedKeepsInv
<1>6. CASE GraceFires \/ KillNow \/ AttemptAges
  BY <1>6, GraceKeepsInv, KillNowKeepsInv, AttemptAgesKeepsInv
<1>7. CASE GateResume \/ GateOpens \/ OperatorApproves
  BY <1>7, GateResumeKeepsInv, OutsideKeepsInv
<1>8. CASE BridgeExits \/ UNCHANGED vars
  BY <1>8, NothingOfInv DEF BridgeExits, vars, procs
<1> QED
  BY <1>1, <1>2, <1>3, <1>4, <1>5, <1>6, <1>7, <1>8 DEF Next

(* A flag probe runs only while its start attempt awaits it.               *)
ProbeAwaited ==
    /\ probe \in [Starts -> {"none", "running", "exited"}] /\ up \in BOOLEAN
    /\ \A s \in Starts : probe[s] = "running" => pc[s] = "probe"

Quiet == UNCHANGED <<probe, up>>

Moves(s) == \E next : pc' = [pc EXCEPT ![s] = next]

(* So does an attempt that was awaiting something else and moves on.       *)
LEMMA ElsewhereKeepsProbe ==
    ASSUME Inv, ProbeAwaited, Quiet, NEW s \in Starts, pc[s] # "probe",
           Moves(s)
    PROVE  ProbeAwaited'
<1>1. \A r \in Starts \ {s} : pc'[r] = pc[r]
  BY DEF Inv, ObjectTypeOK, Moves
<1> QED
  BY <1>1 DEF ProbeAwaited, Quiet

LEMMA AttemptMoves ==
    ASSUME NEW s \in Starts
    PROVE  /\ \A T, sent, terminal : Throw(s, T, sent, terminal) => Moves(s)
           /\ \A T : Begin(s, T) \/ Spawn(s, T) => Moves(s)
           /\ Register(s) => Moves(s)
<1>1. ASSUME NEW T, NEW sent, NEW terminal, Throw(s, T, sent, terminal) PROVE Moves(s)
  BY <1>1 DEF Throw, Moves
<1>2. ASSUME NEW T, Begin(s, T) PROVE Moves(s)
  <2>1. CASE T.killed
    BY <1>1, <1>2, <2>1 DEF Begin
  <2>2. CASE ~T.killed
    BY <1>2, <2>2 DEF Begin, Moves
  <2> QED
    BY <2>1, <2>2
<1>3. ASSUME NEW T, Spawn(s, T) PROVE Moves(s)
  <2>1. CASE \E terminal : Throw(s, T, signal, terminal)
    BY <1>1, <2>1
  <2>2. CASE ~\E terminal : Throw(s, T, signal, terminal)
    BY <1>3, <2>2 DEF Spawn, Moves
  <2> QED
    BY <2>1, <2>2
<1>4. ASSUME Register(s) PROVE Moves(s)
  <2>1. CASE Throw(s, this, signal, TRUE)
    BY <1>1, <2>1
  <2>2. CASE ~Throw(s, this, signal, TRUE)
    BY <1>4, <2>2 DEF Register, Moves
  <2> QED
    BY <2>1, <2>2
<1> QED
  BY <1>1, <1>2, <1>3, <1>4

(* So every await of start() but the probe's ends with a move of its own.  *)
LEMMA StepMoves ==
    ASSUME NEW s \in Starts, StartStep(s),
           ~(AfterMkdir(s) /\ BeginProbe(s, this)),
           ~(ConsumeApproval(s) /\ BeginProbe(s, takeGrant(this)))
    PROVE  Moves(s) /\ (Quiet \/ ProbeEnds(s)) /\ (pc[s] # "probe" \/ ProbeEnds(s))
<1>1. CASE AfterMkdir(s) \/ ConsumeApproval(s)
  <2>1. CASE pc' = [pc EXCEPT ![s] = "approval"]
    BY <1>1, <2>1 DEF AfterMkdir, ConsumeApproval, Throw, Spawn, Moves, Quiet
  <2>2. CASE ~(pc' = [pc EXCEPT ![s] = "approval"])
    BY <1>1, <2>2, AttemptMoves DEF AfterMkdir, ConsumeApproval, Quiet
  <2> QED
    BY <2>1, <2>2
<1>2. CASE ProbeEnds(s)
  BY <1>2, AttemptMoves DEF ProbeEnds
<1>3. CASE Spawned(s) \/ MetadataWritten(s) \/ HandshakeDone(s)
  <2>1. CASE \E next : pc' = [pc EXCEPT ![s] = next]
    BY <1>3, <2>1 DEF Moves, Spawned, MetadataWritten, HandshakeDone, Quiet
  <2>2. CASE ~\E next : pc' = [pc EXCEPT ![s] = next]
    <3>1. Register(s) \/ \E sent, terminal : Throw(s, this, sent, terminal)
      BY <1>3, <2>2 DEF Spawned, MetadataWritten, HandshakeDone
    <3> QED
      BY <3>1, <2>2, AttemptMoves DEF Moves
  <2> QED
    BY <2>1, <2>2
<1>4. CASE HandshakeFails(s) \/ Rejected(s)
  BY <1>4, AttemptMoves DEF HandshakeFails, Rejected, Quiet
<1> QED
  BY <1>1, <1>2, <1>3, <1>4 DEF StartStep

LEMMA ProbeBegins ==
    ASSUME Inv, ProbeAwaited, NEW s \in Starts, NEW T, BeginProbe(s, T),
           pc[s] # "probe", UNCHANGED up
    PROVE  ProbeAwaited'
<1>1. CASE /\ \E outcome \in {"running", "none"} : probe' = [probe EXCEPT ![s] = outcome]
           /\ pc' = [pc EXCEPT ![s] = "probe"]
  <2>1. \A r \in Starts : pc'[r] = IF r = s THEN "probe" ELSE pc[r]
    BY <1>1 DEF Inv, ObjectTypeOK
  <2>2. /\ probe' \in [Starts -> {"none", "running", "exited"}]
        /\ \A r \in Starts \ {s} : probe'[r] = probe[r]
    BY <1>1 DEF ProbeAwaited
  <2> QED
    BY <2>1, <2>2 DEF ProbeAwaited
<1>2. CASE UNCHANGED probe /\ \E terminal \in BOOLEAN : Throw(s, T, signal, terminal)
  BY <1>2, AttemptMoves, ElsewhereKeepsProbe DEF Quiet
<1> QED
  BY <1>1, <1>2 DEF BeginProbe

LEMMA NextKeepsProbe ==
    ASSUME Inv, ProbeAwaited, [Next]_vars
    PROVE  ProbeAwaited'
<1>1. CASE FirstStart \/ GateResume
  <2>1. Quiet /\ pc[1] # "probe" /\ Moves(1)
    BY <1>1, FirstExists, AttemptMoves DEF FirstStart, GateResume, Quiet
  <2> QED
    BY <2>1, FirstExists, ElsewhereKeepsProbe
<1>2. CASE RestartTimerFires
  <2>1. \E s \in Starts : pc[s] = "idle" /\ Moves(s)
    BY <1>2, AttemptMoves DEF RestartTimerFires
  <2> QED
    BY <1>2, <2>1, ElsewhereKeepsProbe DEF RestartTimerFires, Quiet
<1>3. ASSUME NEW s \in Starts, StartStep(s) PROVE ProbeAwaited'
  <2>1. CASE BeginProbe(s, this) /\ AfterMkdir(s)
    BY <2>1, ProbeBegins DEF AfterMkdir
  <2>2. CASE BeginProbe(s, takeGrant(this)) /\ ConsumeApproval(s)
    BY <2>2, ProbeBegins DEF ConsumeApproval
  <2>3. CASE ProbeEnds(s)
    <3>1. \A r \in Starts \ {s} : pc'[r] = pc[r]
      BY <1>3, <2>3, AttemptMoves DEF ProbeEnds, Moves, Inv, ObjectTypeOK
    <3>2. probe' = [probe EXCEPT ![s] = "none"] /\ UNCHANGED up
      BY <2>3 DEF ProbeEnds
    <3> QED
      BY <3>1, <3>2 DEF ProbeAwaited
  <2>4. CASE Quiet /\ Moves(s) /\ pc[s] # "probe"
    BY <2>4, ElsewhereKeepsProbe
  <2> QED
    BY <1>3, <2>1, <2>2, <2>3, <2>4, StepMoves
<1>4. ASSUME NEW p \in Starts, Dies(p) \/ Exit(p) \/ ProbeExits(p) PROVE ProbeAwaited'
  BY <1>4 DEF Dies, Exit, ProbeExits, ProbeAwaited, procs
<1>5. CASE BridgeExits
  BY <1>5 DEF BridgeExits, ProbeAwaited
<1>6. CASE \/ PingKills \/ GrantRunsOut \/ GrantTimerFires \/ CallNoticesExpiry
           \/ GraceFires \/ KillNow \/ AttemptAges \/ GateOpens \/ OperatorApproves
           \/ UNCHANGED vars
  <2>1. UNCHANGED <<pc, probe, up>>
    BY <1>6 DEF PingKills, GrantRunsOut, GrantTimerFires, CallNoticesExpiry, GraceFires,
                KillNow, AttemptAges, GateOpens, OperatorApproves, vars
  <2> QED
    BY <2>1 DEF ProbeAwaited
<1> QED
  BY <1>1, <1>2, <1>3, <1>4, <1>5, <1>6 DEF Next

(* The strengthened invariant holds of every run whose disk is prompt.     *)
THEOREM ProviderInvariant == PromptDisk => (Spec => [](Inv /\ ProbeAwaited))
<1> SUFFICES ASSUME PromptDisk PROVE Spec => [](Inv /\ ProbeAwaited)
  OBVIOUS
<1>1. Init => ProbeAwaited
  BY DEF Init, ProbeAwaited
<1>2. Inv /\ ProbeAwaited /\ [Next]_vars => Inv' /\ ProbeAwaited'
  BY NextKeepsInv, NextKeepsProbe
<1> QED
  BY <1>1, <1>2, InvInit, PTL DEF Spec

(* A living process that was not sent SIGKILL is the one this.pgid names,  *)
(* however exits, restarts, failures and signals are interleaved: the      *)
(* group every kill path uses is never lost by a later start.              *)
THEOREM NoProcessEscapes == PromptDisk => (Spec => []NoOrphan)
<1> SUFFICES ASSUME PromptDisk PROVE Spec => []NoOrphan
  OBVIOUS
<1>1. Inv /\ ProbeAwaited => NoOrphan
  BY ProviderAssumption DEF Inv, ProbeAwaited, NoOrphan, TypeOK, ChildIsTheProcess,
                            Running, Starts, None
<1> QED
  BY <1>1, ProviderInvariant, PTL

(* Whatever start() was awaiting when killNow ran, every living child has  *)
(* been sent SIGKILL since; the one process that need not have been is the *)
(* flag probe that the attempt on its way awaits.                          *)
THEOREM RevocationContains == PromptDisk => (Spec => []RevokedIsContained)
<1> SUFFICES ASSUME PromptDisk PROVE Spec => []RevokedIsContained
  OBVIOUS
<1>1. Inv /\ ProbeAwaited => RevokedIsContained
  BY DEF Inv, ProbeAwaited, RevokedIsContained, OneOnItsWay, OnItsWay, Unspawned
<1> QED
  BY <1>1, ProviderInvariant, PTL

(* Once killNow has run no process begins, child or probe: each of the two *)
(* calls of spawn() is behind the latch, with no await between.            *)
THEOREM NothingStartsRevoked == PromptDisk => (Spec => RevocationStartsNothing)
<1> SUFFICES ASSUME PromptDisk PROVE Spec => RevocationStartsNothing
  OBVIOUS
<1> DEFINE Begun == \A s \in Starts : /\ os'[s] = "alive" => os[s] = "alive"
                                      /\ probe'[s] = "running" => probe[s] = "running"
<1>1. ASSUME Inv, ProbeAwaited, [Next]_vars, this.killed PROVE Begun
  <2>1. takeGrant(this).killed
    BY <1>1, SignalsTyped DEF takeGrant, Object
  <2>2. ASSUME NEW s \in Starts, StartStep(s) PROVE Begun
    <3>1. UNCHANGED os
      BY <1>1, <2>2 DEF StartStep, AfterMkdir, ConsumeApproval, ProbeEnds, Spawn, SpawnGate,
             Spawned, MetadataWritten, HandshakeDone, HandshakeFails, Rejected
    <3>2. UNCHANGED probe \/ probe' = [probe EXCEPT ![s] = "none"]
      BY <1>1, <2>1, <2>2 DEF StartStep, AfterMkdir, ConsumeApproval, ProbeEnds, BeginProbe,
             ProbeGate, Spawned, MetadataWritten, HandshakeDone, HandshakeFails, Rejected
    <3> QED
      BY <1>1, <3>1, <3>2 DEF ProbeAwaited
  <2>3. ASSUME NEW p \in Starts, Dies(p) \/ Exit(p) \/ ProbeExits(p) PROVE Begun
    BY <1>1, <2>3 DEF Dies, Exit, ProbeExits, ProbeAwaited, Inv, ObjectTypeOK, procs
  <2>4. CASE ~\E s \in Starts : StartStep(s) \/ Dies(s) \/ Exit(s) \/ ProbeExits(s)
    BY <1>1, <2>4 DEF Next, vars, procs, FirstStart, RestartTimerFires, GateOpens, GateResume,
           PingKills, GrantRunsOut, GrantTimerFires, CallNoticesExpiry, GraceFires, KillNow,
           BridgeExits, AttemptAges, OperatorApproves
  <2> QED
    BY <2>2, <2>3, <2>4
<1>2. Inv /\ ProbeAwaited /\ [Next]_vars => [this.killed => Begun]_vars
  BY <1>1
<1> QED
  BY <1>2, ProviderInvariant, PTL DEF Spec, RevocationStartsNothing

(* A personal-profile provider consumes one approval in its life, and a    *)
(* child nobody has signalled runs under a grant whose timer is armed,     *)
(* unless the grant ran out before the spawn.  No assumption on the disk:  *)
(* no restart timer is ever armed in a personal session.                   *)
THEOREM PersonalGrantIsSingleUse == Spec => []OneGrantPerSession
<1> DEFINE PersonalInv == mode = "personal" => Inv
<1>1. Init => PersonalInv
  BY InvInit
<1>2. PersonalInv /\ [Next]_vars => PersonalInv'
  <2> SUFFICES ASSUME PersonalInv, [Next]_vars, mode' = "personal" PROVE Inv'
    OBVIOUS
  <2>1. mode' = mode
    BY DEF Next, vars, StartStep, FirstStart, RestartTimerFires, GateOpens, GateResume,
           AfterMkdir, ConsumeApproval, ProbeEnds, Spawned, MetadataWritten, HandshakeDone,
           HandshakeFails, Rejected, Dies, Exit, PingKills, GrantRunsOut, GrantTimerFires,
           CallNoticesExpiry, GraceFires, KillNow, AttemptAges, OperatorApproves, ProbeExits,
           BridgeExits
  <2> QED
    BY <2>1, NextKeepsInv
<1>3. PersonalInv => OneGrantPerSession
  BY DEF Inv, OneSession, OneGrantPerSession, GrantIsUp
<1> QED
  BY <1>1, <1>2, <1>3, PTL DEF Spec

=============================================================================
