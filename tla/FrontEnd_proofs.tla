-------------------------- MODULE FrontEnd_proofs --------------------------
(***************************************************************************)
(* For every set of clients, every assignment of client ids, and any       *)
(* number of children: FrontEnd keeps its types, answers a client only     *)
(* with the reply to its own request, has one usable bridge at a time,     *)
(* hands every new child the handshake of the old one, fails a request     *)
(* only with the child it was sent to, and implements CorrelatedCalls.     *)
(*                                                                         *)
(* RightAnswer is not inductive by itself: what makes a reply the right    *)
(* one was decided when the request was registered.  The invariant follows *)
(* the id: whatever carries an id already handed out, in a pipe or in the  *)
(* child's hands, belongs to the waiter registered under that id, if there *)
(* still is one.                                                           *)
(***************************************************************************)
EXTENDS FrontEnd, SequenceTheorems, TLAPS

Owns(id, call) == /\ id < nextId
                  /\ \A w \in pending : w.id = id => w.call = call

OwnedMessages == {m \in Message : m.kind = "request" => Owns(m.id, m.call)}
OwnedReplies  == {r \in Replies : Owns(r.id, r.for)}

WorkingOwned ==
    /\ working \in [Procs -> SUBSET OwnedMessages]
    /\ \A p \in Procs : \A m \in working[p] : m.kind = "request"

Owned ==
    /\ inbox \in [Procs -> Seq(OwnedMessages)]
    /\ WorkingOwned
    /\ outbox \in [Procs -> SUBSET OwnedReplies]
    /\ \A w \in pending : w.id < nextId

(* TypeOK without the three pipes, which Owned types more strictly.        *)
SupervisorOK ==
    /\ child \in Procs \cup {NoProc} /\ spawned \in 0..MaxSpawns
    /\ proc \in [Procs -> ProcType]
    /\ ready \in [Procs -> BOOLEAN]

CallsOK ==
    /\ pending \subseteq [id: Nat, call: Askers]
    /\ nextId \in Nat \ {0}
    /\ sawInitialized \in BOOLEAN
    /\ lastExit \in {"null", "recent", "past"}
    /\ localInit \in {"null", "asking"}
    /\ status \in [Calls -> Status]
    /\ reason \in [Calls -> Reasons]
    /\ answer \in [Calls -> [for: Askers \cup {NoCall}, id: {ClientIdOf[c] : c \in Calls} \cup {0},
                             refused: BOOLEAN]]
    /\ notes \in 0..MaxNotes
    /\ sentTo \in [Calls -> Procs \cup {NoProc}]
    /\ askedAfter \in [Calls -> BOOLEAN]

IInv == SupervisorOK /\ CallsOK /\ Owned /\ RightAnswer

-----------------------------------------------------------------------------
(* What is owned is a message or a reply of the right type.                *)
LEMMA OwnedTypes == IInv => TypeOK
<1> SUFFICES ASSUME IInv PROVE TypeOK
  OBVIOUS
<1>1. OwnedMessages \subseteq Message /\ OwnedReplies \subseteq Replies
  BY DEF OwnedMessages, OwnedReplies
<1>2. \A p \in Procs : inbox[p] \in Seq(Message)
  BY <1>1, SeqMonotonic DEF IInv, Owned
<1>3. QED
  BY <1>1, <1>2 DEF IInv, Owned, WorkingOwned, SupervisorOK, CallsOK, TypeOK

(* Ids are never reused, so what was owned stays owned while waiters come  *)
(* under the next id or go.                                                *)
LEMMA OwnershipIsStable ==
  ASSUME nextId \in Nat, nextId' \in Nat, nextId' >= nextId,
         \A w \in pending' : w \in pending \/ w.id = nextId
  PROVE  OwnedMessages \subseteq OwnedMessages' /\ OwnedReplies \subseteq OwnedReplies'
<1>1. \A id \in Nat : \A call : Owns(id, call) => Owns(id, call)'
  BY DEF Owns
<1>2. \A m \in Message : m.id \in Nat
  BY DEF Message, Note
<1>3. \A r \in Replies : r.id \in Nat
  BY DEF Replies
<1>4. \A m \in OwnedMessages : m \in OwnedMessages'
  BY <1>1, <1>2 DEF OwnedMessages
<1>5. \A r \in OwnedReplies : r \in OwnedReplies'
  BY <1>1, <1>3 DEF OwnedReplies
<1>6. QED BY <1>4, <1>5

(* Lines that are owned once the step is done leave every pipe owned.       *)
LEMMA DeliveryKeepsOwned ==
  ASSUME SupervisorOK, Owned, OwnedMessages \subseteq OwnedMessages',
         NEW saw \in BOOLEAN, NEW lines \in Seq(OwnedMessages'),
         Deliverable(saw, lines)
  PROVE  /\ SupervisorOK'
         /\ inbox' \in [Procs -> Seq(OwnedMessages')]
         /\ WorkingOwned'
         /\ spawned' >= spawned
         /\ Target \in Procs
<1> DEFINE M == OwnedMessages'
<1>1. \A p \in Procs : inbox[p] \in Seq(M)
  BY SeqMonotonic DEF Owned
<1>2. /\ working \in [Procs -> SUBSET M]
      /\ \A p \in Procs : \A m \in working[p] : m.kind = "request"
  BY DEF Owned, WorkingOwned
<1>3. MaxSpawns \in Nat
  BY FrontEndAssumption
<1>4. CASE child # NoProc /\ writeRaw(child, lines)
  <2>1. child \in Procs /\ Target = child
    BY <1>4 DEF SupervisorOK, Target
  <2>2. inbox[child] \o lines \in Seq(M)
    BY <1>1, <2>1, ConcatProperties
  <2>3. inbox' = [inbox EXCEPT ![child] = @ \o lines]
    BY <1>4 DEF writeRaw
  <2>4. inbox' \in [Procs -> Seq(M)]
    <3> HIDE DEF M
    <3> QED BY <1>1, <2>2, <2>3 DEF Owned
  <2>5. QED BY <1>2, <1>4, <2>1, <2>4 DEF writeRaw, SupervisorOK, WorkingOwned
<1>5. CASE startChild(saw, lines)
  <2>1. spawned + 1 \in Procs /\ spawned' = spawned + 1 /\ Target = spawned + 1
    BY <1>3, <1>5 DEF startChild, SupervisorOK, Procs, Target
  <2>2. Note \in M
    BY DEF OwnedMessages, Message, Note
  <2>3. Replay(saw) \in Seq(M)
    <3> HIDE DEF M
    <3> QED BY <2>2 DEF Replay
  <2>4. Replay(saw) \o lines \in Seq(M)
    BY <2>3, ConcatProperties
  <2>5. inbox' \in [Procs -> Seq(M)]
    <3> HIDE DEF M
    <3>1. inbox' = [inbox EXCEPT ![spawned + 1] = Replay(saw) \o lines]
      BY <1>5 DEF startChild
    <3> QED BY <1>1, <2>4, <3>1 DEF Owned
  <2>6. proc' \in [Procs -> ProcType]
    <3>1. NewProc \subseteq ProcType
      BY DEF NewProc, ProcType
    <3>2. QED BY <1>5, <3>1 DEF startChild, SupervisorOK
  <2>7. QED
    BY <1>2, <1>3, <1>5, <2>1, <2>5, <2>6 DEF startChild, SupervisorOK, Procs, WorkingOwned
<1>6. QED BY <1>4, <1>5 DEF Deliverable

(* A request registered under the next id owns that id.                     *)
LEMMA RegisteredIsOwned ==
  ASSUME IInv, NEW a \in Askers, register(a), nextId' = nextId + 1
  PROVE  /\ OwnedMessages \subseteq OwnedMessages' /\ OwnedReplies \subseteq OwnedReplies'
         /\ <<Request(ServerId(a), a)>> \in Seq(OwnedMessages')
         /\ pending' \subseteq [id: Nat, call: Askers]
         /\ \A w \in pending' : w.id < nextId'
         /\ nextId' \in Nat \ {0}
<1> USE DEF IInv, CallsOK, Owned
<1>1. nextId \in Nat /\ nextId' \in Nat \ {0} /\ nextId' >= nextId
  OBVIOUS
<1>2. \A w \in pending' : w \in pending \/ w = [id |-> nextId, call |-> a]
  BY DEF register, ServerId
<1>3. OwnedMessages \subseteq OwnedMessages' /\ OwnedReplies \subseteq OwnedReplies'
  <2>1. \A w \in pending' : w \in pending \/ w.id = nextId
    BY <1>2
  <2>2. QED BY <1>1, <2>1, OwnershipIsStable
<1>4. \A w \in pending' : w.id = nextId => w.call = a
  BY DEF register, ServerId
<1>5. Request(ServerId(a), a) \in OwnedMessages'
  <2>1. Request(ServerId(a), a) \in Message
    BY <1>1 DEF Request, ServerId, Message
  <2>2. nextId < nextId' /\ \A w \in pending' : w.id = nextId => w.call = a
    BY <1>1, <1>4
  <2>3. QED BY <2>1, <2>2 DEF OwnedMessages, Request, ServerId, Owns
<1>6. \A w \in pending' : w.id \in Nat /\ w.id < nextId' /\ w \in [id: Nat, call: Askers]
  BY <1>1, <1>2
<1>7. QED BY <1>1, <1>3, <1>5, <1>6

(* Nothing that leaves pending and the ids alone, or only drops waiters,    *)
(* disowns anything.                                                        *)
LEMMA DroppedIsOwned ==
  ASSUME IInv, pending' \subseteq pending, UNCHANGED nextId
  PROVE  /\ OwnedMessages \subseteq OwnedMessages' /\ OwnedReplies \subseteq OwnedReplies'
         /\ pending' \subseteq [id: Nat, call: Askers]
         /\ \A w \in pending' : w.id < nextId'
         /\ nextId' \in Nat \ {0}
<1>1. OwnedMessages \subseteq OwnedMessages' /\ OwnedReplies \subseteq OwnedReplies'
  BY OwnershipIsStable DEF IInv, CallsOK
<1>2. QED BY <1>1 DEF IInv, CallsOK, Owned

(* callBridge, whoever calls it.                                            *)
LEMMA CallBridgeStep ==
  ASSUME IInv, NEW c \in Calls, NEW saw \in BOOLEAN, callBridge(c, saw),
         UNCHANGED <<outbox, sawInitialized, lastExit, localInit, notes>>
  PROVE  IInv'
<1> USE DEF IInv
<1>0. askedAfter' \in [Calls -> BOOLEAN] /\ answer' = answer
  BY DEF callBridge, CallsOK
<1>1. CASE /\ Deliverable(saw, <<Request(ServerId(c), c)>>)
           /\ register(c)
           /\ nextId' = nextId + 1
           /\ status' = [status EXCEPT ![c] = "waiting"]
           /\ sentTo' = [sentTo EXCEPT ![c] = Target]
           /\ UNCHANGED reason
  <2>1. /\ OwnedMessages \subseteq OwnedMessages' /\ OwnedReplies \subseteq OwnedReplies'
        /\ <<Request(ServerId(c), c)>> \in Seq(OwnedMessages')
        /\ pending' \subseteq [id: Nat, call: Askers]
        /\ \A w \in pending' : w.id < nextId'
        /\ nextId' \in Nat \ {0}
    BY <1>1, RegisteredIsOwned DEF Askers
  <2>2. /\ SupervisorOK'
        /\ inbox' \in [Procs -> Seq(OwnedMessages')]
        /\ WorkingOwned'
        /\ Target \in Procs
    BY <1>1, <2>1, DeliveryKeepsOwned
  <2>3. Owned'
    BY <2>1, <2>2 DEF Owned
  <2>4. CallsOK'
    BY <1>0, <1>1, <2>1, <2>2 DEF CallsOK, Status
  <2>5. RightAnswer'
    BY <1>0, <1>1 DEF RightAnswer, CallsOK
  <2>6. QED BY <2>2, <2>3, <2>4, <2>5
<1>2. CASE \E why \in Reasons :
             /\ Undeliverable(why)
             /\ nextId' = IF why = "not running" THEN nextId + 1 ELSE nextId
             /\ status' = [status EXCEPT ![c] = "failed"]
             /\ reason' = [reason EXCEPT ![c] = why]
             /\ UNCHANGED <<pending, sentTo>>
  <2>0. PICK why \in Reasons :
             /\ Undeliverable(why)
             /\ nextId' = IF why = "not running" THEN nextId + 1 ELSE nextId
             /\ status' = [status EXCEPT ![c] = "failed"]
             /\ reason' = [reason EXCEPT ![c] = why]
             /\ UNCHANGED <<pending, sentTo>>
    BY <1>2
  <2>1. nextId' \in Nat \ {0} /\ nextId' >= nextId
    <3>1. nextId \in Nat \ {0}
      BY DEF CallsOK
    <3>2. nextId' = nextId + 1 \/ nextId' = nextId
      BY <2>0
    <3>3. QED BY <3>1, <3>2
  <2>2. OwnedMessages \subseteq OwnedMessages' /\ OwnedReplies \subseteq OwnedReplies'
    BY <2>0, <2>1, OwnershipIsStable DEF CallsOK
  <2>3. UNCHANGED <<child, spawned, proc, inbox, ready, working>>
    BY <2>0 DEF Undeliverable, procVars
  <2>5. Owned'
    <3>1. \A p \in Procs : inbox[p] \in Seq(OwnedMessages')
      BY <2>2, SeqMonotonic DEF Owned
    <3>2. inbox' \in [Procs -> Seq(OwnedMessages')]
      BY <2>3, <3>1 DEF Owned
    <3>3. /\ WorkingOwned'
          /\ outbox' \in [Procs -> SUBSET OwnedReplies']
      BY <2>2, <2>3 DEF Owned, WorkingOwned
    <3>4. \A w \in pending' : w.id < nextId'
      <4>1. \A w \in pending : w.id \in Nat /\ w.id < nextId
        BY DEF Owned, CallsOK
      <4>2. nextId \in Nat /\ pending' = pending
        BY <2>0 DEF CallsOK
      <4>3. QED BY <2>1, <4>1, <4>2
    <3>5. QED BY <3>2, <3>3, <3>4 DEF Owned
  <2>6. CallsOK'
    BY <1>0, <2>0, <2>1 DEF CallsOK, Status
  <2>7. RightAnswer'
    BY <1>0, <2>0 DEF CallsOK, RightAnswer
  <2>8. QED BY <2>3, <2>5, <2>6, <2>7 DEF SupervisorOK
<1>3. QED BY <1>1, <1>2 DEF callBridge

(* Losing or timing out waiters answers nobody.                             *)
LEMMA RejectStep ==
  ASSUME IInv, NEW W \in SUBSET pending, NEW why \in Reasons, reject(W, why),
         UNCHANGED <<nextId, sawInitialized, notes>>,
         lastExit' \in {"null", "recent", "past"}
  PROVE  /\ CallsOK' /\ RightAnswer'
         /\ OwnedMessages \subseteq OwnedMessages' /\ OwnedReplies \subseteq OwnedReplies'
         /\ \A w \in pending' : w.id < nextId'
<1> USE DEF IInv
<1>1. /\ pending' = pending \ W
      /\ localInit' \in {"null", localInit}
      /\ \E lost \in SUBSET Calls :
           /\ status' = [c \in Calls |-> IF c \in lost THEN "failed" ELSE status[c]]
           /\ reason' = [c \in Calls |-> IF c \in lost THEN why ELSE reason[c]]
           /\ sentTo' = [c \in Calls |-> IF c \in lost THEN NoProc ELSE sentTo[c]]
      /\ UNCHANGED <<answer, askedAfter>>
  BY DEF reject
<1>2. PICK lost \in SUBSET Calls :
           /\ status' = [c \in Calls |-> IF c \in lost THEN "failed" ELSE status[c]]
           /\ reason' = [c \in Calls |-> IF c \in lost THEN why ELSE reason[c]]
           /\ sentTo' = [c \in Calls |-> IF c \in lost THEN NoProc ELSE sentTo[c]]
  BY <1>1
<1>3. /\ OwnedMessages \subseteq OwnedMessages' /\ OwnedReplies \subseteq OwnedReplies'
      /\ pending' \subseteq [id: Nat, call: Askers]
      /\ \A w \in pending' : w.id < nextId'
      /\ nextId' \in Nat \ {0}
  BY <1>1, DroppedIsOwned
<1>4. CallsOK'
  BY <1>1, <1>2, <1>3 DEF CallsOK, Status
<1>5. RightAnswer'
  BY <1>1, <1>2 DEF RightAnswer, CallsOK
<1>6. QED BY <1>3, <1>4, <1>5

(* The pipes stay owned when nothing is written to them.                    *)
LEMMA PipesStay ==
  ASSUME Owned, OwnedMessages \subseteq OwnedMessages', OwnedReplies \subseteq OwnedReplies',
         UNCHANGED <<inbox, working>>, outbox' \in [Procs -> SUBSET Replies],
         \A p \in Procs : outbox'[p] \subseteq outbox[p],
         \A w \in pending' : w.id < nextId'
  PROVE  Owned'
<1>1. \A p \in Procs : inbox'[p] \in Seq(OwnedMessages')
  BY SeqMonotonic DEF Owned
<1>2. inbox' \in [Procs -> Seq(OwnedMessages')]
  BY <1>1 DEF Owned
<1>3. WorkingOwned'
  BY DEF Owned, WorkingOwned
<1>4. outbox' \in [Procs -> SUBSET OwnedReplies']
  BY DEF Owned
<1>5. QED BY <1>2, <1>3, <1>4 DEF Owned

LEMMA ClientNotifyStep == ASSUME IInv, ClientNotify PROVE IInv'
<1> USE DEF IInv
<1>1. /\ UNCHANGED <<outbox, nextId, lastExit, pending, status, reason, answer,
                     localInit, sentTo, askedAfter>>
      /\ sawInitialized' = TRUE /\ notes' = notes + 1 /\ notes < MaxNotes
  BY DEF ClientNotify, callVars
<1>2. CallsOK' /\ RightAnswer'
  BY <1>1, FrontEndAssumption DEF CallsOK, RightAnswer
<1>3. /\ OwnedMessages \subseteq OwnedMessages' /\ OwnedReplies \subseteq OwnedReplies'
      /\ \A w \in pending' : w.id < nextId'
  BY <1>1, DroppedIsOwned
<1>4. CASE Deliverable(sawInitialized', <<Note>>)
  <2>1. Note \in OwnedMessages'
    BY DEF OwnedMessages, Message, Note
  <2>2. <<Note>> \in Seq(OwnedMessages') /\ sawInitialized' \in BOOLEAN
    BY <1>1, <2>1
  <2>3. /\ SupervisorOK'
        /\ inbox' \in [Procs -> Seq(OwnedMessages')]
        /\ WorkingOwned'
    BY <1>3, <1>4, <2>2, DeliveryKeepsOwned
  <2>4. outbox' \in [Procs -> SUBSET OwnedReplies']
    BY <1>1, <1>3 DEF Owned
  <2>5. QED BY <1>2, <1>3, <2>3, <2>4 DEF Owned
<1>5. CASE \E why \in Reasons : Undeliverable(why)
  <2>1. UNCHANGED <<child, spawned, proc, inbox, ready, working>>
    BY <1>5 DEF Undeliverable, procVars
  <2>2. outbox \in [Procs -> SUBSET Replies]
    BY DEF Owned, OwnedReplies
  <2>3. Owned'
    BY <1>1, <1>3, <2>1, <2>2, PipesStay
  <2>4. QED BY <1>2, <2>1, <2>3 DEF SupervisorOK
<1>6. QED BY <1>4, <1>5 DEF ClientNotify

LEMMA EnsureLocalStep ==
  ASSUME IInv, NEW c \in Calls, ensureLocalBridgeInitialized(c),
         UNCHANGED <<outbox, sawInitialized, lastExit, notes>>
  PROVE  IInv'
<1> USE DEF IInv
<1>0. UNCHANGED <<answer, sentTo, askedAfter>>
  BY DEF ensureLocalBridgeInitialized
<1>a. outbox \in [Procs -> SUBSET Replies]
  BY DEF Owned, OwnedReplies
<1>1. CASE /\ localInit = "asking"
           /\ status' = [status EXCEPT ![c] = "initializing"]
           /\ UNCHANGED <<procVars, pending, nextId, localInit, reason>>
  <2>1. UNCHANGED <<child, spawned, proc, inbox, ready, working>>
    BY <1>1 DEF procVars
  <2>2. /\ OwnedMessages \subseteq OwnedMessages' /\ OwnedReplies \subseteq OwnedReplies'
        /\ \A w \in pending' : w.id < nextId'
    BY <1>1, DroppedIsOwned
  <2>3. Owned'
    BY <1>a, <2>1, <2>2, PipesStay
  <2>4. CallsOK' /\ RightAnswer'
    BY <1>0, <1>1 DEF CallsOK, RightAnswer, Status
  <2>5. QED BY <2>1, <2>3, <2>4 DEF SupervisorOK
<1>2. CASE /\ localInit = "null"
           /\ Deliverable(sawInitialized, <<Request(ServerId(LocalInit), LocalInit)>>)
           /\ register(LocalInit)
           /\ nextId' = nextId + 1
           /\ localInit' = "asking"
           /\ status' = [status EXCEPT ![c] = "initializing"]
           /\ UNCHANGED reason
  <2>1. /\ OwnedMessages \subseteq OwnedMessages' /\ OwnedReplies \subseteq OwnedReplies'
        /\ <<Request(ServerId(LocalInit), LocalInit)>> \in Seq(OwnedMessages')
        /\ pending' \subseteq [id: Nat, call: Askers]
        /\ \A w \in pending' : w.id < nextId'
        /\ nextId' \in Nat \ {0}
    BY <1>2, RegisteredIsOwned DEF Askers
  <2>2. sawInitialized \in BOOLEAN
    BY DEF CallsOK
  <2>3. /\ SupervisorOK'
        /\ inbox' \in [Procs -> Seq(OwnedMessages')]
        /\ WorkingOwned'
    BY <1>2, <2>1, <2>2, DeliveryKeepsOwned
  <2>4. Owned'
    BY <2>1, <2>3 DEF Owned
  <2>5. CallsOK' /\ RightAnswer'
    BY <1>0, <1>2, <2>1 DEF CallsOK, RightAnswer, Status
  <2>6. QED BY <2>3, <2>4, <2>5
<1>3. ASSUME NEW why \in Reasons,
             Undeliverable(why),
             nextId' = IF why = "not running" THEN nextId + 1 ELSE nextId,
             status' = [status EXCEPT ![c] = "failed"],
             reason' = [reason EXCEPT ![c] = why],
             UNCHANGED <<pending, localInit>>
      PROVE  IInv'
  <2>1. nextId \in Nat \ {0} /\ (nextId' = nextId \/ nextId' = nextId + 1)
    BY <1>3 DEF CallsOK
  <2>2. nextId' \in Nat \ {0} /\ nextId' >= nextId
    BY <2>1
  <2>3. OwnedMessages \subseteq OwnedMessages' /\ OwnedReplies \subseteq OwnedReplies'
    BY <1>3, <2>2, OwnershipIsStable DEF CallsOK
  <2>4. UNCHANGED <<child, spawned, proc, inbox, ready, working>>
    BY <1>3 DEF Undeliverable, procVars
  <2>5. \A w \in pending' : w.id < nextId'
    <3>1. \A w \in pending : w.id \in Nat /\ w.id < nextId
      BY DEF Owned, CallsOK
    <3>2. pending' = pending
      BY <1>3
    <3>3. QED BY <2>1, <2>2, <3>1, <3>2
  <2>6. Owned'
    BY <1>a, <2>3, <2>4, <2>5, PipesStay
  <2>7. CallsOK' /\ RightAnswer'
    BY <1>0, <1>3, <2>2 DEF CallsOK, RightAnswer, Status
  <2>8. QED BY <2>4, <2>6, <2>7 DEF SupervisorOK
<1>4. QED BY <1>1, <1>2, <1>3 DEF ensureLocalBridgeInitialized

(* A reply finds the waiter that registered its id, or nobody.              *)
LEMMA DeliverLineStep == ASSUME IInv, NEW p \in Procs, DeliverLine(p) PROVE IInv'
<1> USE DEF IInv
<1>1. PICK r \in outbox[p] :
       /\ outbox' = [outbox EXCEPT ![p] = @ \ {r}]
       /\ \/ \E w \in pending :
               /\ w.id = r.id
               /\ pending' = pending \ {w}
               /\ \/ w.call # LocalInit /\ resolve(w, r)
                  \/ w.call = LocalInit /\ finishLocalInit
          \/ /\ \A w \in pending : w.id # r.id
             /\ UNCHANGED <<procVars, pending, status, reason, answer, localInit,
                            sentTo, nextId, sawInitialized>>
       /\ UNCHANGED <<askedAfter, lastExit, notes>>
  BY DEF DeliverLine
<1>2. r \in Replies /\ Owns(r.id, r.for)
  BY DEF Owned, OwnedReplies
<1>3. /\ outbox' \in [Procs -> SUBSET Replies]
      /\ \A q \in Procs : outbox'[q] \subseteq outbox[q]
  BY <1>1 DEF Owned, OwnedReplies
<1>4. ASSUME pending' \subseteq pending, UNCHANGED nextId
      PROVE  /\ OwnedMessages \subseteq OwnedMessages' /\ OwnedReplies \subseteq OwnedReplies'
             /\ \A w \in pending' : w.id < nextId'
             /\ pending' \subseteq [id: Nat, call: Askers]
             /\ nextId' \in Nat \ {0}
  BY <1>4, DroppedIsOwned
<1>5. ASSUME pending' \subseteq pending, UNCHANGED nextId,
             UNCHANGED <<child, spawned, proc, inbox, ready, working>>
      PROVE  SupervisorOK' /\ Owned'
  <2>1. Owned'
    BY <1>3, <1>4, <1>5, PipesStay
  <2>2. QED BY <1>5, <2>1 DEF SupervisorOK
<1>6. ASSUME NEW w \in pending, w.id = r.id, pending' = pending \ {w},
             w.call # LocalInit, resolve(w, r)
      PROVE  IInv'
  <2>1. w.call \in Calls /\ r.for = w.call
    BY <1>2, <1>6 DEF CallsOK, Askers, Owns
  <2>2. /\ UNCHANGED <<child, spawned, proc, inbox, ready, working, nextId>>
        /\ UNCHANGED <<reason, localInit, sawInitialized>>
        /\ status' = [status EXCEPT ![w.call] = "answered"]
        /\ sentTo' = [sentTo EXCEPT ![w.call] = NoProc]
        /\ answer' = [answer EXCEPT ![w.call] =
                        [for |-> r.for, id |-> ClientIdOf[w.call], refused |-> r.refused]]
    BY <1>6 DEF resolve, procVars
  <2>3. SupervisorOK' /\ Owned'
    BY <1>5, <1>6, <2>2
  <2>4. answer' \in [Calls -> [for: Askers \cup {NoCall},
                               id: {ClientIdOf[c] : c \in Calls} \cup {0}, refused: BOOLEAN]]
    BY <1>2, <2>1, <2>2 DEF CallsOK, Replies, Askers
  <2>5. CallsOK'
    BY <1>1, <1>4, <1>6, <2>1, <2>2, <2>4 DEF CallsOK, Status
  <2>6. RightAnswer'
    BY <2>1, <2>2 DEF RightAnswer, CallsOK
  <2>7. QED BY <2>3, <2>5, <2>6
<1>7. ASSUME NEW w \in pending, pending' = pending \ {w}, finishLocalInit
      PROVE  IInv'
  <2>1. /\ UNCHANGED <<answer, sentTo, nextId>>
        /\ localInit' = "null" /\ sawInitialized' = TRUE
    BY <1>7 DEF finishLocalInit, AfterLocalInit
  <2>2. /\ status' \in [Calls -> Status] /\ reason' \in [Calls -> Reasons]
        /\ \A c \in Calls : status'[c] = "answered" => status[c] = "answered"
    BY <1>7 DEF finishLocalInit, CallsOK, Status
  <2>3. CallsOK' /\ RightAnswer'
    BY <1>1, <1>4, <1>7, <2>1, <2>2 DEF CallsOK, RightAnswer
  <2>4. CASE Deliverable(TRUE, <<Note>>)
    <3>1. Note \in OwnedMessages'
      BY DEF OwnedMessages, Message, Note
    <3>2. <<Note>> \in Seq(OwnedMessages')
      BY <3>1
    <3>3. /\ OwnedMessages \subseteq OwnedMessages' /\ OwnedReplies \subseteq OwnedReplies'
          /\ \A x \in pending' : x.id < nextId'
      BY <1>4, <1>7, <2>1
    <3>4. /\ SupervisorOK'
          /\ inbox' \in [Procs -> Seq(OwnedMessages')]
          /\ WorkingOwned'
      BY <2>4, <3>2, <3>3, DeliveryKeepsOwned
    <3>5. outbox' \in [Procs -> SUBSET OwnedReplies']
      BY <1>3, <3>3 DEF Owned
    <3>6. QED BY <2>3, <3>3, <3>4, <3>5 DEF Owned
  <2>5. CASE \E why \in Reasons : Undeliverable(why)
    <3>1. UNCHANGED <<child, spawned, proc, inbox, ready, working>>
      BY <2>5 DEF Undeliverable, procVars
    <3>2. QED BY <1>5, <1>7, <2>1, <2>3, <3>1
  <2>6. QED BY <1>7, <2>4, <2>5 DEF finishLocalInit
<1>8. ASSUME UNCHANGED <<procVars, pending, status, reason, answer, localInit,
                         sentTo, nextId, sawInitialized>>
      PROVE  IInv'
  <2>1. SupervisorOK' /\ Owned'
    BY <1>5, <1>8 DEF procVars
  <2>2. CallsOK' /\ RightAnswer'
    BY <1>1, <1>8 DEF CallsOK, RightAnswer
  <2>3. QED BY <2>1, <2>2
<1>9. QED BY <1>1, <1>6, <1>7, <1>8

(* Each way of losing a child, whichever child it is.                       *)
LEMMA LoseStep == ASSUME IInv, NEW p \in Procs, Lose(p) PROVE IInv'
<1> USE DEF IInv
<1>1. PICK why \in Reasons : failAllPending(why)
  BY DEF Lose, processError, stdinError, childExit, Reasons
<1>2. /\ UNCHANGED <<spawned, inbox, ready, working, outbox, nextId, sawInitialized, notes>>
      /\ lastExit' = "recent"
      /\ child' = IF child = p THEN NoProc ELSE child
  BY DEF Lose, processError, stdinError, childExit, discard
<1>3. proc' \in [Procs -> ProcType]
  <2>1. CASE proc' = [proc EXCEPT ![p].seen = TRUE]
    BY <2>1 DEF SupervisorOK, ProcType
  <2>2. CASE proc' = [proc EXCEPT ![p].stdin = "errored", ![p].killed = TRUE]
    <3>1. proc[p] \in ProcType
      BY DEF SupervisorOK
    <3>2. [proc[p] EXCEPT !.stdin = "errored", !.killed = TRUE] \in ProcType
      BY <3>1 DEF ProcType
    <3>3. proc' = [proc EXCEPT ![p] = [proc[p] EXCEPT !.stdin = "errored", !.killed = TRUE]]
      BY <2>2 DEF SupervisorOK
    <3>4. QED BY <3>2, <3>3 DEF SupervisorOK
  <2>3. QED BY <2>1, <2>2 DEF Lose, processError, stdinError, childExit
<1>4. reject(pending, why)
  BY <1>1 DEF failAllPending
<1>5. /\ CallsOK' /\ RightAnswer'
      /\ OwnedMessages \subseteq OwnedMessages' /\ OwnedReplies \subseteq OwnedReplies'
      /\ \A w \in pending' : w.id < nextId'
  BY <1>2, <1>4, RejectStep
<1>6. outbox' \in [Procs -> SUBSET Replies] /\ UNCHANGED outbox
  BY <1>2 DEF Owned, OwnedReplies
<1>7. Owned'
  BY <1>2, <1>5, <1>6, PipesStay
<1>8. QED BY <1>2, <1>3, <1>5, <1>7 DEF SupervisorOK

LEMMA TimeOutStep == ASSUME IInv, TimeOut PROVE IInv'
<1> USE DEF IInv
<1>1. PICK w \in pending : reject({w}, "timed out")
  BY DEF TimeOut
<1>2. UNCHANGED <<child, spawned, proc, inbox, ready, working, outbox, nextId,
                  sawInitialized, lastExit, notes>>
  BY DEF TimeOut, procVars
<1>3. /\ CallsOK' /\ RightAnswer'
      /\ OwnedMessages \subseteq OwnedMessages' /\ OwnedReplies \subseteq OwnedReplies'
      /\ \A x \in pending' : x.id < nextId'
  <2>1. {w} \in SUBSET pending /\ "timed out" \in Reasons
    BY DEF Reasons
  <2>2. lastExit' \in {"null", "recent", "past"}
    BY <1>2 DEF CallsOK
  <2>3. QED BY <1>1, <1>2, <2>1, <2>2, RejectStep
<1>4. outbox' \in [Procs -> SUBSET Replies]
  BY <1>2 DEF Owned, OwnedReplies
<1>5. Owned'
  BY <1>2, <1>3, <1>4, PipesStay
<1>6. QED BY <1>2, <1>3, <1>5 DEF SupervisorOK

(* The child hands on what it was given, under the id it was given.         *)
LEMMA ChildStep ==
  ASSUME IInv, NEW p \in Procs,
         ChildReads(p) \/ ChildReplies(p) \/ ChildDies(p) \/ StdinBreaks(p)
  PROVE  IInv'
<1> USE DEF IInv
<1>1. UNCHANGED <<child, spawned, pending, status, reason, answer, localInit, sentTo,
                  askedAfter, nextId, sawInitialized, lastExit, notes>>
  BY DEF ChildReads, ChildReplies, ChildDies, StdinBreaks, callVars
<1>2. CallsOK' /\ RightAnswer'
  BY <1>1 DEF CallsOK, RightAnswer
<1>3. OwnedMessages' = OwnedMessages /\ OwnedReplies' = OwnedReplies
  BY <1>1 DEF OwnedMessages, OwnedReplies, Owns
<1>4. \A w \in pending' : w.id < nextId'
  BY <1>1 DEF Owned
<1>5. \A m \in OwnedMessages, refused \in BOOLEAN :
        m.kind = "request" => [id |-> m.id, for |-> m.call, refused |-> refused] \in OwnedReplies
  BY DEF OwnedMessages, OwnedReplies, Message, Note, Replies
<1>6. CASE ChildReads(p)
  <2>1. inbox[p] \in Seq(OwnedMessages) /\ inbox[p] # <<>>
    BY <1>6 DEF ChildReads, Owned
  <2>2. Head(inbox[p]) \in OwnedMessages /\ Tail(inbox[p]) \in Seq(OwnedMessages)
    BY <2>1, HeadTailProperties
  <2>3. inbox' \in [Procs -> Seq(OwnedMessages)]
    BY <1>6, <2>2 DEF ChildReads, Owned
  <2> DEFINE m == Head(inbox[p])
  <2>5. /\ working' \in [Procs -> SUBSET OwnedMessages]
        /\ \A q \in Procs : \A x \in working'[q] : x.kind = "request"
        /\ outbox' \in [Procs -> SUBSET OwnedReplies]
        /\ ready' \in [Procs -> BOOLEAN]
    <3>1. m \in OwnedMessages
      BY <2>2
    <3>2. CASE m.kind = "initialized"
      <4>1. ready' = [ready EXCEPT ![p] = TRUE] /\ UNCHANGED <<working, outbox>>
        BY <1>6, <3>2 DEF ChildReads
      <4>2. QED BY <4>1 DEF Owned, WorkingOwned, SupervisorOK
    <3>3. CASE m.kind = "request" /\ working' = [working EXCEPT ![p] = @ \cup {m}]
                                 /\ UNCHANGED <<ready, outbox>>
      <4> HIDE DEF m
      <4>1. QED BY <3>1, <3>3 DEF Owned, WorkingOwned, SupervisorOK
    <3>4. CASE /\ m.kind = "request" /\ UNCHANGED <<ready, working>>
               /\ outbox' = [outbox EXCEPT ![p] =
                              @ \cup {[id |-> m.id, for |-> m.call, refused |-> TRUE]}]
      <4>1. [id |-> m.id, for |-> m.call, refused |-> TRUE] \in OwnedReplies
        BY <1>5, <3>1, <3>4
      <4> HIDE DEF m
      <4>2. QED BY <3>4, <4>1 DEF Owned, WorkingOwned, SupervisorOK
    <3>5. QED BY <1>6, <3>2, <3>3, <3>4 DEF ChildReads
  <2>6. UNCHANGED proc
    BY <1>6 DEF ChildReads
  <2>7. QED BY <1>1, <1>2, <1>3, <1>4, <2>3, <2>5, <2>6 DEF SupervisorOK, Owned, WorkingOwned
<1>7. CASE ChildReplies(p)
  <2>1. \A m \in working[p] : m \in OwnedMessages /\ m.kind = "request"
    BY DEF Owned, WorkingOwned
  <2>2. PICK m \in working[p] :
          /\ working' = [working EXCEPT ![p] = @ \ {m}]
          /\ outbox' = [outbox EXCEPT ![p] =
                         @ \cup {[id |-> m.id, for |-> m.call, refused |-> FALSE]}]
    BY <1>7 DEF ChildReplies
  <2>3. WorkingOwned'
    BY <1>3, <2>2 DEF Owned, WorkingOwned
  <2>4. [id |-> m.id, for |-> m.call, refused |-> FALSE] \in OwnedReplies
    BY <1>5, <2>1
  <2>5. outbox' \in [Procs -> SUBSET OwnedReplies]
    BY <2>2, <2>4 DEF Owned
  <2>6. UNCHANGED <<proc, inbox, ready>>
    BY <1>7 DEF ChildReplies
  <2>7. QED BY <1>1, <1>2, <1>3, <1>4, <2>3, <2>5, <2>6 DEF SupervisorOK, Owned
<1>8. CASE ChildDies(p)
  <2>1. proc' \in [Procs -> ProcType]
    BY <1>8 DEF ChildDies, SupervisorOK, ProcType
  <2>2. inbox' \in [Procs -> Seq(OwnedMessages)] /\ WorkingOwned'
    BY <1>3, <1>8 DEF ChildDies, Owned, WorkingOwned
  <2>3. ready' \in [Procs -> BOOLEAN] /\ UNCHANGED outbox
    BY <1>8 DEF ChildDies, SupervisorOK
  <2>4. QED BY <1>1, <1>2, <1>3, <1>4, <2>1, <2>2, <2>3 DEF SupervisorOK, Owned
<1>9. CASE StdinBreaks(p)
  <2>1. proc' \in [Procs -> ProcType]
    BY <1>9 DEF StdinBreaks, SupervisorOK, ProcType
  <2>2. QED BY <1>1, <1>2, <1>3, <1>4, <1>9, <2>1 DEF StdinBreaks, SupervisorOK, Owned, WorkingOwned
<1>10. QED BY <1>6, <1>7, <1>8, <1>9

LEMMA BackoffStep == ASSUME IInv, BackoffElapses PROVE IInv'
<1> USE DEF IInv
<1>1. UNCHANGED <<child, spawned, proc, inbox, ready, working, outbox, pending, status,
                  reason, answer, localInit, sentTo, askedAfter, nextId, sawInitialized, notes>>
  BY DEF BackoffElapses, procVars, callVars
<1>2. lastExit' = "past"
  BY DEF BackoffElapses
<1>3. CallsOK' /\ RightAnswer' /\ SupervisorOK'
  BY <1>1, <1>2 DEF CallsOK, RightAnswer, SupervisorOK
<1>4. Owned'
  BY <1>1 DEF Owned, WorkingOwned, OwnedMessages, OwnedReplies, Owns
<1>5. QED BY <1>3, <1>4

-----------------------------------------------------------------------------
LEMMA InitIInv == Init => IInv
<1> SUFFICES ASSUME Init PROVE IInv
  OBVIOUS
<1> USE FrontEndAssumption DEF Init
<1>1. SupervisorOK
  BY DEF SupervisorOK, ProcType
<1>2. CallsOK
  <2>1. NoAnswer \in [for: Askers \cup {NoCall}, id: {ClientIdOf[c] : c \in Calls} \cup {0},
                      refused: BOOLEAN]
    BY DEF NoAnswer
  <2>2. answer \in [Calls -> [for: Askers \cup {NoCall},
                              id: {ClientIdOf[c] : c \in Calls} \cup {0}, refused: BOOLEAN]]
    BY <2>1
  <2>3. /\ status \in [Calls -> Status] /\ reason \in [Calls -> Reasons]
        /\ sentTo \in [Calls -> Procs \cup {NoProc}] /\ askedAfter \in [Calls -> BOOLEAN]
    BY DEF Status, Reasons
  <2>4. notes \in 0..MaxNotes
    OBVIOUS
  <2>5. /\ pending \subseteq [id: Nat, call: Askers]
        /\ nextId \in Nat \ {0}
    OBVIOUS
  <2>6. /\ sawInitialized \in BOOLEAN
        /\ lastExit \in {"null", "recent", "past"}
        /\ localInit \in {"null", "asking"}
    OBVIOUS
  <2>7. QED BY <2>2, <2>3, <2>4, <2>5, <2>6 DEF CallsOK
<1>3. <<>> \in Seq(OwnedMessages)
  OBVIOUS
<1>4. Owned
  BY <1>3 DEF Owned, WorkingOwned
<1>5. RightAnswer
  BY DEF RightAnswer
<1>6. QED BY <1>1, <1>2, <1>4, <1>5 DEF IInv

LEMMA NextIInv == IInv /\ [Next]_vars => IInv'
<1> SUFFICES ASSUME IInv, [Next]_vars PROVE IInv'
  OBVIOUS
<1>0. sawInitialized \in BOOLEAN
  BY DEF IInv, CallsOK
<1>1. ASSUME NEW c \in Calls, ClientRequest(c) PROVE IInv'
  BY <1>0, <1>1, CallBridgeStep DEF ClientRequest
<1>2. ASSUME NEW c \in Calls, LocalRequest(c) PROVE IInv'
  <2>1. CASE callBridge(c, TRUE) /\ UNCHANGED localInit
    BY <1>2, <2>1, CallBridgeStep DEF LocalRequest
  <2>2. CASE ensureLocalBridgeInitialized(c)
    BY <1>2, <2>2, EnsureLocalStep DEF LocalRequest
  <2>3. QED BY <1>2, <2>1, <2>2 DEF LocalRequest
<1>3. ASSUME NEW c \in Calls, LocalProceed(c) PROVE IInv'
  BY <1>0, <1>3, CallBridgeStep DEF LocalProceed
<1>4. CASE ClientNotify
  BY <1>4, ClientNotifyStep
<1>5. CASE TimeOut
  BY <1>5, TimeOutStep
<1>6. CASE BackoffElapses
  BY <1>6, BackoffStep
<1>7. ASSUME NEW p \in Procs, DeliverLine(p) PROVE IInv'
  BY <1>7, DeliverLineStep
<1>8. ASSUME NEW p \in Procs, Lose(p) PROVE IInv'
  BY <1>8, LoseStep
<1>9. ASSUME NEW p \in Procs,
             ChildReads(p) \/ ChildReplies(p) \/ ChildDies(p) \/ StdinBreaks(p)
      PROVE  IInv'
  BY <1>9, ChildStep
<1>10. CASE UNCHANGED vars
  <2>1. UNCHANGED <<child, spawned, proc, inbox, ready, working, outbox, pending, status,
                    reason, answer, localInit, sentTo, askedAfter, nextId, sawInitialized,
                    lastExit, notes>>
    BY <1>10 DEF vars, procVars, callVars
  <2>2. SupervisorOK' /\ CallsOK' /\ RightAnswer'
    BY <2>1 DEF IInv, SupervisorOK, CallsOK, RightAnswer
  <2>3. Owned'
    BY <2>1 DEF IInv, Owned, WorkingOwned, OwnedMessages, OwnedReplies, Owns
  <2>4. QED BY <2>2, <2>3 DEF IInv
<1>11. QED
  BY <1>1, <1>2, <1>3, <1>4, <1>5, <1>6, <1>7, <1>8, <1>9, <1>10 DEF Next

LEMMA Invariance == Spec => []IInv
<1>1. QED BY InitIInv, NextIInv, PTL DEF Spec

(* Every variable keeps its type, for any clients and any number of          *)
(* children (the state of mcp-http.mjs and of its child).                    *)
THEOREM TypeCorrect == Spec => []TypeOK
<1>1. QED BY Invariance, OwnedTypes, PTL

(* A client is only ever answered with the reply to its own request, under   *)
(* its own id (register, the line listener of wireChild).                    *)
THEOREM AnswersAreRight == Spec => []RightAnswer
<1>1. IInv => RightAnswer
  BY DEF IInv
<1>2. QED BY <1>1, Invariance, PTL

-----------------------------------------------------------------------------
(***************************************************************************)
(* Who waits for whom.  The second invariant relates the Map of waiters to *)
(* the promises and to the processes; the first one is used for the types  *)
(* and for the ids.                                                        *)
(***************************************************************************)
(* A waiter belongs to one waiting call, and waits for the current child.  *)
Waiters ==
    /\ \A w \in pending : w.call \in Calls => status[w.call] = "waiting"
    /\ \A v, w \in pending : v.call \in Calls /\ v.call = w.call => v = w
    /\ \A c \in Calls : status[c] = "waiting" =>
          sentTo[c] = child /\ \E w \in pending : w.call = c
    /\ child = NoProc => pending = {}

(* At most one process runs without having been killed: the current child. *)
Children ==
    /\ child # NoProc => /\ child <= spawned
                         /\ ~proc[child].seen /\ proc[child].stdin # "errored"
    /\ \A p \in Procs : proc[p].os = "running" /\ ~proc[p].killed => p = child
    /\ \A p \in Procs : proc[p].killed => proc[p].stdin = "errored"

(* Nothing is left to report of a process that is not the child, but for   *)
(* the exit of one that was killed; and that is seen before a replacement  *)
(* is started.                                                             *)
LossesReported ==
    /\ \A p \in Procs : /\ proc[p].seen => proc[p].stdin # "destroyed"
                        /\ proc[p].os = "unspawnable" => proc[p].stdin = "open"
    /\ PromptReap =>
         \A p \in Procs : p # child =>
            \/ proc[p].seen
            \/ proc[p].killed /\ child = NoProc /\ lastExit = "recent"
            \/ proc[p].os = "absent" /\ proc[p].stdin = "open" /\ ~proc[p].killed

(* Calls that have reached callBridge.                                     *)
Asked == {c \in Calls : status[c] \in {"waiting", "answered", "failed"}}

AskedMessages == {m \in Message : m.call \in Calls => m.call \in Asked}

AskedFirst ==
    /\ inbox \in [Procs -> Seq(AskedMessages)]
    /\ working \in [Procs -> SUBSET AskedMessages]
    /\ \A p \in Procs : \A r \in outbox[p] : r.for \in Calls => r.for \in Asked
    /\ \A c \in Calls : answer[c].refused => c \in Asked

HasNote(s)     == \E j \in 1..Len(s) : s[j].kind = "initialized"
Covered(s, C)  == \A i \in 1..Len(s) :
                     s[i].kind = "request" /\ s[i].call \in C =>
                        \E j \in 1..(i-1) : s[j].kind = "initialized"
After          == {c \in Calls : askedAfter[c]}

(* A running child has read the notification, or will read it before any   *)
(* request made after the handshake.                                       *)
NoteFirst ==
    /\ \A p \in Procs : proc[p].os = "running" => ready[p] \/ Covered(inbox[p], After)
    /\ sawInitialized /\ child # NoProc /\ alive(child) /\ proc[child].os = "running" =>
          ready[child] \/ HasNote(inbox[child])
    /\ sawInitialized /\ child = NoProc => lastExit # "null"
    /\ \A p \in Procs : \A r \in outbox[p] : r.refused => r.for \notin After
    /\ HandshakeSurvivesRestart

(* Lines delivered reach the current child, or the one started for them.   *)
LEMMA Delivered ==
  ASSUME SupervisorOK, inbox \in [Procs -> Seq(OwnedMessages)],
         NEW saw, NEW lines, Deliverable(saw, lines)
  PROVE  /\ child' \in Procs /\ child' # NoProc /\ Target = child'
         /\ UNCHANGED <<ready, working>>
         /\ \/ /\ child # NoProc /\ child \in Procs /\ alive(child)
               /\ UNCHANGED <<child, spawned, proc>>
               /\ inbox'[child] = inbox[child] \o lines
               /\ \A p \in Procs \ {child} : inbox'[p] = inbox[p]
            \/ /\ child = NoProc /\ lastExit # "recent"
               /\ child' = spawned + 1 /\ spawned' = spawned + 1
               /\ proc'[child'] \in NewProc
               /\ inbox'[child'] = Replay(saw) \o lines
               /\ \A p \in Procs \ {child'} : inbox'[p] = inbox[p] /\ proc'[p] = proc[p]
<1>1. MaxSpawns \in Nat /\ NoProc \notin Nat
  BY FrontEndAssumption
<1>2. CASE child # NoProc /\ writeRaw(child, lines)
  BY <1>1, <1>2 DEF writeRaw, SupervisorOK, Target, Procs
<1>3. CASE startChild(saw, lines)
  <2>1. spawned + 1 \in Procs /\ spawned + 1 # NoProc
    BY <1>1, <1>3 DEF startChild, SupervisorOK, Procs
  <2>2. PICK new \in NewProc : proc' = [proc EXCEPT ![spawned + 1] = new]
    BY <1>3 DEF startChild
  <2>3. /\ proc'[spawned + 1] = new
        /\ \A p \in Procs \ {spawned + 1} : proc'[p] = proc[p]
    BY <2>1, <2>2 DEF SupervisorOK
  <2>4. /\ inbox'[spawned + 1] = Replay(saw) \o lines
        /\ \A p \in Procs \ {spawned + 1} : inbox'[p] = inbox[p]
    BY <1>3, <2>1 DEF startChild
  <2> QED
    BY <1>3, <2>1, <2>2, <2>3, <2>4 DEF startChild, Target, Backoff
<1> QED
  BY <1>2, <1>3 DEF Deliverable

LEMMA DeliveryKeepsChildren ==
  ASSUME IInv, Children, child = NoProc => pending = {},
         NEW saw, NEW lines, Deliverable(saw, lines)
  PROVE  Children' /\ child' # NoProc /\ (pending # {} => child' = child)
<1>1. inbox \in [Procs -> Seq(OwnedMessages)] /\ SupervisorOK
  BY DEF IInv, Owned
<1>2. \A n \in NewProc : /\ ~n.seen /\ n.stdin # "errored" /\ ~n.killed
  BY DEF NewProc
<1>3. CASE child # NoProc
  BY <1>1, <1>3, Delivered DEF Children
<1>4. CASE child = NoProc
  <2>1. /\ child' \in Procs /\ child' # NoProc /\ child' = spawned'
        /\ proc'[child'] \in NewProc
        /\ \A p \in Procs \ {child'} : proc'[p] = proc[p]
    BY <1>1, <1>4, Delivered
  <2>2. child' <= spawned'
    BY <2>1 DEF Procs
  <2>3. \A p \in Procs : p # NoProc
    BY FrontEndAssumption DEF Procs
  <2> QED
    BY <1>2, <1>4, <2>1, <2>2, <2>3 DEF Children
<1> QED
  BY <1>3, <1>4

WInv == IInv /\ Waiters /\ Children

(* A waiter registered under the next id is a new one.                     *)
LEMMA RegisterAdds ==
  ASSUME IInv, NEW a \in Askers, register(a)
  PROVE  pending' = pending \cup {[id |-> nextId, call |-> a]}
<1>1. \A w \in pending : w.id # nextId
  BY DEF IInv, Owned, CallsOK
<1> QED
  BY <1>1 DEF register, ServerId

LEMMA CallBridgeWaits ==
  ASSUME WInv, NEW c \in Calls, NEW saw, callBridge(c, saw), status[c] # "waiting"
  PROVE  Waiters' /\ Children'
<1> USE DEF WInv
<1>1. CASE /\ Deliverable(saw, <<Request(ServerId(c), c)>>)
           /\ register(c)
           /\ status' = [status EXCEPT ![c] = "waiting"]
           /\ sentTo' = [sentTo EXCEPT ![c] = Target]
  <2>1. /\ Children' /\ child' # NoProc
        /\ pending # {} => child' = child
    BY <1>1, DeliveryKeepsChildren DEF Waiters
  <2>2. Target = child'
    BY <1>1, Delivered DEF IInv, Owned
  <2>3. pending' = pending \cup {[id |-> nextId, call |-> c]}
    BY <1>1, RegisterAdds DEF Askers
  <2>4. \A d \in Calls : /\ status'[d] = IF d = c THEN "waiting" ELSE status[d]
                         /\ sentTo'[d] = IF d = c THEN child' ELSE sentTo[d]
    BY <1>1, <2>2 DEF IInv, CallsOK
  <2>5. \A w \in pending : w.call # c
    BY DEF Waiters
  <2> DEFINE own == [id |-> nextId, call |-> c]
  <2>6. own.call = c /\ own \in pending' /\ \A w \in pending' : w \in pending \/ w = own
    BY <2>3
  <2> HIDE DEF own
  <2>7. \A w \in pending' : w.call \in Calls => status'[w.call] = "waiting"
    BY <2>4, <2>6 DEF Waiters
  <2>8. \A v, w \in pending' : v.call \in Calls /\ v.call = w.call => v = w
    BY <2>5, <2>6 DEF Waiters
  <2>9. \A d \in Calls : status'[d] = "waiting" =>
           sentTo'[d] = child' /\ \E w \in pending' : w.call = d
    BY <2>1, <2>3, <2>4, <2>6 DEF Waiters
  <2> QED
    BY <2>1, <2>7, <2>8, <2>9 DEF Waiters
<1>2. CASE \E why \in Reasons :
             Undeliverable(why) /\ status' = [status EXCEPT ![c] = "failed"]
             /\ UNCHANGED <<pending, sentTo>>
  <2>1. UNCHANGED <<child, spawned, proc, pending, sentTo>>
    BY <1>2 DEF Undeliverable, procVars
  <2>2. \A d \in Calls : status'[d] = IF d = c THEN "failed" ELSE status[d]
    BY <1>2 DEF IInv, CallsOK
  <2> QED
    BY <2>1, <2>2 DEF Waiters, Children
<1> QED
  BY <1>1, <1>2 DEF callBridge

LEMMA EnsureLocalWaits ==
  ASSUME WInv, NEW c \in Calls, ensureLocalBridgeInitialized(c), status[c] = "idle"
  PROVE  Waiters' /\ Children'
<1> USE DEF WInv
<1>1. /\ UNCHANGED sentTo
      /\ \E new \in {"initializing", "failed"} : status' = [status EXCEPT ![c] = new]
  BY DEF ensureLocalBridgeInitialized
<1>2. \A d \in Calls : /\ d # c => status'[d] = status[d]
                       /\ d = c => status'[d] # "waiting"
  BY <1>1 DEF IInv, CallsOK
<1>3. \A w \in pending : w.call # c
  BY DEF Waiters
<1>4. CASE /\ Deliverable(sawInitialized, <<Request(ServerId(LocalInit), LocalInit)>>)
           /\ register(LocalInit)
  <2>1. /\ Children' /\ child' # NoProc
        /\ pending # {} => child' = child
    BY <1>4, DeliveryKeepsChildren DEF Waiters
  <2>2. pending' = pending \cup {[id |-> nextId, call |-> LocalInit]}
    BY <1>4, RegisterAdds DEF Askers
  <2> QED
    BY <1>1, <1>2, <1>3, <2>1, <2>2, FrontEndAssumption DEF Waiters
<1>5. CASE UNCHANGED <<procVars, pending>>
  BY <1>1, <1>2, <1>3, <1>5 DEF Waiters, Children, procVars
<1> QED
  BY <1>4, <1>5 DEF ensureLocalBridgeInitialized, Undeliverable

(* Waiters rejected take their calls with them, and nobody else's.         *)
LEMMA RejectWaits ==
  ASSUME IInv, Waiters, NEW W \in SUBSET pending, NEW why, reject(W, why),
         UNCHANGED child \/ W = pending
  PROVE  Waiters'
<1> DEFINE lost == {c \in Calls : \/ \E w \in W : w.call = c
                                  \/ (\E w \in W : w.call = LocalInit) /\ c \in Initializing}
<1>1. /\ pending' = pending \ W
      /\ \A c \in Calls : /\ status'[c] = IF c \in lost THEN "failed" ELSE status[c]
                          /\ sentTo'[c] = IF c \in lost THEN NoProc ELSE sentTo[c]
  BY DEF reject
<1>2. \A w \in pending \ W : w.call \in Calls => w.call \notin lost
  BY DEF Waiters, Initializing
<1>3. \A c \in Calls : status'[c] = "waiting" =>
         c \notin lost /\ status[c] = "waiting" /\ \E w \in pending \ W : w.call = c
  BY <1>1 DEF Waiters
<1> HIDE DEF lost
<1> QED
  BY <1>1, <1>2, <1>3 DEF Waiters

LEMMA DeliverLineWaits ==
  ASSUME WInv, NEW p \in Procs, DeliverLine(p)
  PROVE  Waiters' /\ Children'
<1> USE DEF WInv
<1>1. PICK r \in outbox[p] :
       \/ \E w \in pending :
            /\ w.id = r.id
            /\ pending' = pending \ {w}
            /\ \/ w.call # LocalInit /\ resolve(w, r)
               \/ w.call = LocalInit /\ finishLocalInit
       \/ UNCHANGED <<procVars, pending, status, sentTo>>
  BY DEF DeliverLine
<1>2. ASSUME NEW w \in pending, pending' = pending \ {w}, w.call # LocalInit, resolve(w, r)
      PROVE  Waiters' /\ Children'
  <2>1. w.call \in Calls /\ UNCHANGED <<child, spawned, proc>>
    BY <1>2 DEF IInv, CallsOK, Askers, resolve, procVars
  <2>2. \A d \in Calls :
          /\ status'[d] = IF d = w.call THEN "answered" ELSE status[d]
          /\ sentTo'[d] = IF d = w.call THEN NoProc ELSE sentTo[d]
    BY <1>2, <2>1 DEF resolve, IInv, CallsOK
  <2> QED
    BY <1>2, <2>1, <2>2 DEF Waiters, Children
<1>3. ASSUME NEW w \in pending, pending' = pending \ {w}, w.call = LocalInit, finishLocalInit
      PROVE  Waiters' /\ Children'
  <2>1. /\ UNCHANGED sentTo
        /\ \E new \in {"proceed", "failed"} :
             status' = [c \in Calls |-> IF c \in Initializing THEN new ELSE status[c]]
    BY <1>3 DEF finishLocalInit
  <2>2. \A d \in Calls : /\ status[d] = "waiting" <=> status'[d] = "waiting"
    BY <2>1 DEF Initializing
  <2>3. Children' /\ UNCHANGED child
    <3>1. CASE Deliverable(TRUE, <<Note>>)
      BY <1>3, <3>1, DeliveryKeepsChildren DEF Waiters
    <3>2. CASE \E why \in Reasons : Undeliverable(why)
      BY <3>2 DEF Undeliverable, procVars, Children
    <3> QED
      BY <1>3, <3>1, <3>2 DEF finishLocalInit
  <2>4. \A v \in pending : v.call \in Calls => v # w
    BY <1>3, FrontEndAssumption
  <2> QED
    BY <1>3, <2>1, <2>2, <2>3, <2>4 DEF Waiters
<1>4. CASE UNCHANGED <<procVars, pending, status, sentTo>>
  BY <1>4 DEF Waiters, Children, procVars
<1> QED
  BY <1>1, <1>2, <1>3, <1>4

LEMMA LoseWaits ==
  ASSUME WInv, NEW p \in Procs, Lose(p)
  PROVE  Waiters' /\ Children'
<1> USE DEF WInv
<1>1. /\ \E why \in Reasons : reject(pending, why)
      /\ child' = (IF child = p THEN NoProc ELSE child) /\ UNCHANGED spawned
  BY DEF Lose, processError, stdinError, childExit, failAllPending, discard, Reasons
<1>2. Waiters'
  BY <1>1, RejectWaits
<1>3. /\ \A q \in Procs \ {p} : proc'[q] = proc[q]
      /\ proc'[p].os = "running" => proc'[p].killed
      /\ proc'[p].killed => proc'[p].stdin = "errored"
  <2>1. CASE processError(p)
    BY <2>1 DEF processError, SupervisorOK, ProcType, IInv, Children
  <2>2. CASE childExit(p)
    BY <2>2 DEF childExit, SupervisorOK, ProcType, IInv, Children
  <2>3. CASE stdinError(p)
    <3>1. proc' = [proc EXCEPT ![p] = [proc[p] EXCEPT !.stdin = "errored", !.killed = TRUE]]
      BY <2>3 DEF stdinError, IInv, SupervisorOK
    <3>2. proc[p] \in ProcType
      BY DEF IInv, SupervisorOK
    <3> QED
      BY <3>1, <3>2 DEF IInv, SupervisorOK, ProcType
  <2> QED
    BY <2>1, <2>2, <2>3 DEF Lose
<1>4. Children'
  BY <1>1, <1>3 DEF Children, IInv, SupervisorOK
<1> QED
  BY <1>2, <1>4

LEMMA InitWInv == Init => WInv
<1> SUFFICES ASSUME Init PROVE WInv
  OBVIOUS
<1>1. Waiters /\ Children
  BY DEF Init, Waiters, Children
<1> QED
  BY <1>1, InitIInv DEF WInv

LEMMA NextWInv == WInv /\ [Next]_vars => WInv'
<1> SUFFICES ASSUME WInv, [Next]_vars PROVE WInv'
  OBVIOUS
<1>0. IInv'
  BY NextIInv DEF WInv
<1> SUFFICES Waiters' /\ Children'
  BY <1>0 DEF WInv
<1>1. ASSUME NEW c \in Calls, ClientRequest(c) \/ LocalRequest(c) \/ LocalProceed(c)
      PROVE  Waiters' /\ Children'
  BY <1>1, CallBridgeWaits, EnsureLocalWaits DEF ClientRequest, LocalRequest, LocalProceed
<1>2. CASE ClientNotify
  <2>1. UNCHANGED <<pending, status, sentTo>>
    BY <1>2 DEF ClientNotify, callVars
  <2>2. CASE Deliverable(sawInitialized', <<Note>>)
    <3>1. /\ Children' /\ child' # NoProc
          /\ pending # {} => child' = child
      BY <2>2, DeliveryKeepsChildren DEF WInv, Waiters
    <3> QED
      BY <2>1, <3>1 DEF WInv, Waiters
  <2>3. CASE \E why \in Reasons : Undeliverable(why)
    BY <2>1, <2>3 DEF WInv, Undeliverable, procVars, Waiters, Children
  <2> QED
    BY <1>2, <2>2, <2>3 DEF ClientNotify
<1>3. CASE TimeOut
  <2>1. PICK w \in pending : reject({w}, "timed out")
    BY <1>3 DEF TimeOut
  <2>2. UNCHANGED <<child, spawned, proc>>
    BY <1>3 DEF TimeOut, procVars
  <2>3. {w} \in SUBSET pending
    OBVIOUS
  <2> QED
    BY <2>1, <2>2, <2>3, RejectWaits DEF WInv, Children
<1>4. ASSUME NEW p \in Procs, DeliverLine(p) \/ Lose(p) PROVE Waiters' /\ Children'
  BY <1>4, DeliverLineWaits, LoseWaits
<1>5. ASSUME NEW p \in Procs, ChildDies(p) \/ StdinBreaks(p) PROVE Waiters' /\ Children'
  <2>1. UNCHANGED <<child, spawned, pending, status, sentTo>>
    BY <1>5 DEF ChildDies, StdinBreaks, callVars
  <2>2. \A q \in Procs :
          /\ proc'[q].seen = proc[q].seen /\ proc'[q].killed = proc[q].killed
          /\ proc'[q].os # "running" \/ proc'[q].os = proc[q].os
          /\ proc'[q].stdin = proc[q].stdin
             \/ (proc'[q].stdin = "destroyed" /\ proc[q].stdin = "open")
    BY <1>5 DEF ChildDies, StdinBreaks, alive, WInv, IInv, SupervisorOK, ProcType
  <2> QED
    BY <2>1, <2>2 DEF WInv, Waiters, Children, IInv, SupervisorOK
<1>6. CASE \/ BackoffElapses \/ UNCHANGED vars
           \/ \E p \in Procs : ChildReads(p) \/ ChildReplies(p)
  BY <1>6 DEF BackoffElapses, ChildReads, ChildReplies, vars, procVars, callVars, WInv,
              Waiters, Children
<1> QED
  BY <1>1, <1>2, <1>3, <1>4, <1>5, <1>6 DEF Next

LEMMA WaitersInvariant == Spec => []WInv
BY InitWInv, NextWInv, PTL DEF Spec

(* Whoever waits, waits for the current child, which is one whose loss was *)
(* not reported, and no other process runs unless it was killed.           *)
THEOREM OneBridge == Spec => []OneUsableBridge
<1>1. WInv => OneUsableBridge
  BY DEF WInv, IInv, SupervisorOK, Waiters, Children, OneUsableBridge
<1> QED
  BY <1>1, WaitersInvariant, PTL

-----------------------------------------------------------------------------
(* The front end implements CorrelatedCalls.                               *)
Open == {"initializing", "proceed", "waiting"}
absState == [c \in Calls |-> CASE status[c] \in {"initializing", "proceed", "waiting"} -> "open"
                               [] OTHER -> status[c]]
absReply == [c \in Calls |-> answer[c].for]

LEMMA AbstractState ==
  \A c \in Calls : absState[c] = IF status[c] \in Open THEN "open" ELSE status[c]
BY DEF absState, Open

(* A step that answers nobody and only fails, besides one call, calls that *)
(* were open, is one of the abstract specification.                        *)
LEMMA FailStep ==
  ASSUME UNCHANGED absReply, NEW S \in SUBSET Calls,
         \A c \in S : status[c] \in Open /\ status'[c] = "failed",
         \A c \in Calls \ S : absState'[c] = absState[c]
  PROVE  Correlated!Next
<1>1. \A c \in S : absState[c] = "open" /\ absState'[c] = "failed"
  BY DEF absState, Open
<1>2. absState' = [c \in Calls |-> IF c \in S THEN "failed" ELSE absState[c]]
  BY <1>1 DEF absState
<1>3. Correlated!Fail(S)
  BY <1>1, <1>2 DEF Correlated!Fail, absState, absReply
<1> QED
  BY <1>3 DEF Correlated!Next

LEMMA OneCallStep ==
  ASSUME UNCHANGED answer, NEW c \in Calls, status[c] \in {"idle"} \cup Open,
         NEW new \in Open \cup {"failed"}, status' = [status EXCEPT ![c] = new],
         status \in [Calls -> Status]
  PROVE  [Correlated!Next]_(Correlated!vars)
<1>1. /\ status'[c] = new
      /\ \A d \in Calls \ {c} : status'[d] = status[d]
  OBVIOUS
<1>2. UNCHANGED absReply /\ \A d \in Calls \ {c} : absState'[d] = absState[d]
  BY <1>1 DEF absReply, absState
<1>3. CASE status[c] = "idle"
  <2>1. absState[c] = "idle"
    BY <1>3 DEF absState
  <2>2. CASE new = "failed"
    <3>1. absState' = [absState EXCEPT ![c] = "failed"]
      BY <1>1, <1>2, <2>2 DEF absState
    <3>2. Correlated!Refuse(c)
      BY <1>2, <2>1, <3>1 DEF Correlated!Refuse, absState, absReply
    <3> QED
      BY <3>2 DEF Correlated!Next
  <2>3. CASE new \in Open
    <3>1. absState' = [absState EXCEPT ![c] = "open"]
      BY <1>1, <1>2, <2>3 DEF absState, Open
    <3>2. Correlated!Accept(c)
      BY <1>2, <2>1, <3>1 DEF Correlated!Accept, absState, absReply
    <3> QED
      BY <3>2 DEF Correlated!Next
  <2> QED
    BY <2>2, <2>3
<1>4. CASE status[c] \in Open /\ new = "failed"
  <2>1. {c} \in SUBSET Calls
    OBVIOUS
  <2> QED
    BY <1>1, <1>2, <1>4, <2>1, FailStep
<1>5. CASE status[c] \in Open /\ new \in Open
  <2>1. UNCHANGED absState
    BY <1>1, <1>2, <1>5 DEF absState, Open
  <2> QED
    BY <1>2, <2>1 DEF Correlated!vars, absState, absReply
<1> QED
  BY <1>3, <1>4, <1>5

(* The waiters rejected at once fail their calls in one abstract step.     *)
LEMMA RejectImplements ==
  ASSUME WInv, NEW W \in SUBSET pending, NEW why, reject(W, why)
  PROVE  [Correlated!Next]_(Correlated!vars)
<1> DEFINE lost == {c \in Calls : \/ \E w \in W : w.call = c
                                  \/ (\E w \in W : w.call = LocalInit) /\ c \in Initializing}
<1>1. /\ UNCHANGED answer
      /\ status' = [c \in Calls |-> IF c \in lost THEN "failed" ELSE status[c]]
  BY DEF reject
<1>2. \A c \in lost : status[c] \in Open
  <2>1. ASSUME NEW c \in Calls, NEW w \in W, w.call = c PROVE status[c] = "waiting"
    BY <2>1 DEF WInv, Waiters
  <2>2. \A c \in lost : (\E w \in W : w.call = c) \/ c \in Initializing
    OBVIOUS
  <2> QED
    BY <2>1, <2>2 DEF Initializing, Open
<1>3. lost \in SUBSET Calls
  OBVIOUS
<1> HIDE DEF lost
<1>4. UNCHANGED absReply /\ \A c \in Calls \ lost : absState'[c] = absState[c]
  BY <1>1 DEF absReply, absState
<1> QED
  BY <1>1, <1>2, <1>3, <1>4, FailStep

LEMMA DeliverLineImplements ==
  ASSUME WInv, RightAnswer', NEW p \in Procs, DeliverLine(p)
  PROVE  [Correlated!Next]_(Correlated!vars)
<1>1. PICK r \in outbox[p] :
       \/ \E w \in pending : \/ w.call # LocalInit /\ resolve(w, r)
                             \/ w.call = LocalInit /\ finishLocalInit
       \/ UNCHANGED <<status, answer>>
  BY DEF DeliverLine
<1>2. ASSUME NEW w \in pending, w.call # LocalInit, resolve(w, r)
      PROVE  [Correlated!Next]_(Correlated!vars)
  <2> DEFINE c == w.call
  <2>1. c \in Calls /\ status[c] = "waiting"
    BY <1>2 DEF WInv, IInv, CallsOK, Waiters, Askers
  <2>2. /\ status'[c] = "answered"
        /\ \A d \in Calls \ {c} : status'[d] = status[d] /\ answer'[d] = answer[d]
    BY <1>2, <2>1 DEF resolve, WInv, IInv, CallsOK
  <2>3. answer'[c].for = c
    BY <2>1, <2>2 DEF RightAnswer
  <2> HIDE DEF c
  <2>4. absState[c] = "open" /\ absState' = [absState EXCEPT ![c] = "answered"]
    BY <2>1, <2>2 DEF absState
  <2>5. absReply' = [absReply EXCEPT ![c] = c]
    BY <2>1, <2>2, <2>3 DEF absReply
  <2>6. Correlated!Answer(c)
    BY <2>4, <2>5 DEF Correlated!Answer, absState, absReply
  <2> QED
    BY <2>1, <2>6 DEF Correlated!Next
<1>3. ASSUME finishLocalInit PROVE [Correlated!Next]_(Correlated!vars)
  <2>1. UNCHANGED absReply
    BY <1>3 DEF finishLocalInit, absReply
  <2>2. Initializing \in SUBSET Calls /\ \A c \in Initializing : status[c] \in Open
    BY FrontEndAssumption DEF Initializing, Open
  <2>3. PICK new \in {"proceed", "failed"} :
          status' = [c \in Calls |-> IF c \in Initializing THEN new ELSE status[c]]
    BY <1>3 DEF finishLocalInit
  <2>4. \A c \in Calls \ Initializing : absState'[c] = absState[c]
    BY <2>3 DEF absState
  <2>5. CASE new = "proceed"
    <3>1. UNCHANGED absState
      BY <2>2, <2>3, <2>5 DEF absState, Open
    <3> QED
      BY <2>1, <3>1 DEF Correlated!vars, absState, absReply
  <2>6. CASE new = "failed"
    <3>1. \A c \in Initializing : status'[c] = "failed"
      BY <2>2, <2>3, <2>6
    <3> QED
      BY <2>1, <2>2, <2>4, <3>1, FailStep
  <2> QED
    BY <2>5, <2>6
<1>4. CASE UNCHANGED <<status, answer>>
  BY <1>4 DEF Correlated!vars
<1> QED
  BY <1>1, <1>2, <1>3, <1>4

LEMMA StepImplements ==
  WInv /\ WInv' /\ [Next]_vars => [Correlated!Next]_(Correlated!vars)
<1> SUFFICES ASSUME WInv, WInv', [Next]_vars
             PROVE  [Correlated!Next]_(Correlated!vars)
  OBVIOUS
<1>1. RightAnswer' /\ status \in [Calls -> Status]
  BY DEF WInv, IInv, CallsOK
<1>2. ASSUME NEW c \in Calls, ClientRequest(c) \/ LocalRequest(c) \/ LocalProceed(c)
      PROVE  [Correlated!Next]_(Correlated!vars)
  <2>1. status[c] \in {"idle"} \cup Open
    BY <1>2 DEF ClientRequest, LocalRequest, LocalProceed, Open
  <2>2. UNCHANGED answer
    BY <1>2 DEF ClientRequest, LocalRequest, LocalProceed, callBridge,
                ensureLocalBridgeInitialized
  <2>3. \E new \in {"waiting", "initializing", "failed"} :
           status' = [status EXCEPT ![c] = new]
    BY <1>2 DEF ClientRequest, LocalRequest, LocalProceed, callBridge,
                ensureLocalBridgeInitialized
  <2>4. \E new \in Open \cup {"failed"} : status' = [status EXCEPT ![c] = new]
    BY <2>3 DEF Open
  <2> QED
    BY <1>1, <2>1, <2>2, <2>4, OneCallStep
<1>3. CASE TimeOut
  <2>1. PICK w \in pending : reject({w}, "timed out")
    BY <1>3 DEF TimeOut
  <2>2. {w} \in SUBSET pending
    OBVIOUS
  <2> QED
    BY <2>1, <2>2, RejectImplements
<1>4. ASSUME NEW p \in Procs, DeliverLine(p) PROVE [Correlated!Next]_(Correlated!vars)
  BY <1>1, <1>4, DeliverLineImplements
<1>5. ASSUME NEW p \in Procs, Lose(p) PROVE [Correlated!Next]_(Correlated!vars)
  <2>1. \E why \in Reasons : reject(pending, why)
    BY <1>5 DEF Lose, processError, stdinError, childExit, failAllPending, Reasons
  <2> QED
    BY <2>1, RejectImplements
<1>6. CASE \/ ClientNotify \/ BackoffElapses \/ UNCHANGED vars
           \/ \E p \in Procs : \/ ChildReads(p) \/ ChildReplies(p)
                               \/ ChildDies(p) \/ StdinBreaks(p)
  <2>1. UNCHANGED <<status, answer>>
    BY <1>6 DEF ClientNotify, BackoffElapses, ChildReads, ChildReplies, ChildDies,
                StdinBreaks, vars, callVars
  <2> QED
    BY <2>1 DEF Correlated!vars
<1> QED
  BY <1>2, <1>3, <1>4, <1>5, <1>6 DEF Next

(* Every step of the front end is a step of CorrelatedCalls or changes      *)
(* nothing it speaks of: each request is settled once, and answered with    *)
(* its own reply (wireChild, register, failAllPending).                     *)
THEOREM FrontEndImplementsCalls == Spec => ImplementsCorrelatedCalls
<1>1. Init => Correlated!Init
  BY DEF Init, Correlated!Init, NoAnswer
<1> QED
  BY <1>1, StepImplements, WaitersInvariant, PTL
     DEF Spec, Correlated!Spec, ImplementsCorrelatedCalls

-----------------------------------------------------------------------------
(* Losses.                                                                 *)
LEMMA DeliveryKeepsLosses ==
  ASSUME IInv, LossesReported, NEW saw, NEW lines, Deliverable(saw, lines),
         UNCHANGED lastExit
  PROVE  LossesReported'
<1>1. inbox \in [Procs -> Seq(OwnedMessages)] /\ SupervisorOK
  BY DEF IInv, Owned
<1>2. CASE child # NoProc
  BY <1>1, <1>2, Delivered DEF LossesReported
<1>3. CASE child = NoProc
  <2>1. /\ lastExit # "recent" /\ proc'[child'] \in NewProc
        /\ \A p \in Procs \ {child'} : proc'[p] = proc[p]
    BY <1>1, <1>3, Delivered
  <2>2. \A n \in NewProc : ~n.seen /\ n.stdin = "open"
    BY DEF NewProc
  <2>3. \A p \in Procs : p # NoProc
    BY FrontEndAssumption DEF Procs
  <2> QED
    BY <1>3, <2>1, <2>2, <2>3 DEF LossesReported
<1> QED
  BY <1>2, <1>3

LEMMA LoseKeepsLosses ==
  ASSUME WInv, LossesReported, NEW q \in Procs, Lose(q)
  PROVE  LossesReported'
<1>1. /\ child' = (IF child = q THEN NoProc ELSE child) /\ lastExit' = "recent"
  BY DEF Lose, processError, stdinError, childExit, discard
<1>2. proc \in [Procs -> ProcType]
  BY DEF WInv, IInv, SupervisorOK
<1>3. CASE processError(q) \/ childExit(q)
  <2>1. /\ proc' = [proc EXCEPT ![q].seen = TRUE]
        /\ proc[q].stdin # "destroyed"
    BY <1>3 DEF processError, childExit, LossesReported
  <2>2. /\ proc'[q].seen /\ proc'[q].stdin = proc[q].stdin /\ proc'[q].os = proc[q].os
        /\ \A p \in Procs \ {q} : proc'[p] = proc[p]
    BY <1>2, <2>1 DEF ProcType
  <2> QED
    BY <1>1, <2>1, <2>2 DEF LossesReported
<1>4. CASE stdinError(q)
  <2>1. /\ proc' = [proc EXCEPT ![q] = [proc[q] EXCEPT !.stdin = "errored", !.killed = TRUE]]
        /\ proc[q].stdin = "destroyed"
    BY <1>2, <1>4 DEF stdinError
  <2>2. /\ proc'[q].killed /\ proc'[q].stdin = "errored" /\ proc'[q].os = proc[q].os
        /\ proc'[q].seen = proc[q].seen
        /\ \A p \in Procs \ {q} : proc'[p] = proc[p]
    BY <1>2, <2>1 DEF ProcType
  <2>3. PromptReap => q = child
    BY <2>1 DEF WInv, Children, LossesReported
  <2> QED
    BY <1>1, <2>1, <2>2, <2>3 DEF LossesReported
<1> QED
  BY <1>3, <1>4 DEF Lose

LInv == WInv /\ LossesReported

LEMMA InitLInv == Init => LInv
<1> SUFFICES ASSUME Init PROVE LossesReported
  BY InitWInv DEF LInv
<1> QED
  BY DEF Init, LossesReported

LEMMA NextLInv == LInv /\ [Next]_vars => LInv'
<1> SUFFICES ASSUME LInv, [Next]_vars PROVE LossesReported'
  BY NextWInv DEF LInv
<1>0. LossesReported /\ IInv /\ WInv /\ proc \in [Procs -> ProcType]
  BY DEF LInv, WInv, IInv, SupervisorOK
<1>1. ASSUME NEW saw, NEW lines, Deliverable(saw, lines), UNCHANGED lastExit
      PROVE  LossesReported'
  BY <1>0, <1>1, DeliveryKeepsLosses
<1>2. CASE UNCHANGED <<child, proc, lastExit>>
  BY <1>0, <1>2 DEF LossesReported
<1>3. ASSUME NEW p \in Procs, Lose(p) PROVE LossesReported'
  BY <1>0, <1>3, LoseKeepsLosses
<1>4. CASE BackoffElapses
  BY <1>0, <1>4 DEF BackoffElapses, procVars, LossesReported
<1>5. ASSUME NEW p \in Procs, ChildDies(p) \/ StdinBreaks(p) PROVE LossesReported'
  <2>1. UNCHANGED <<child, lastExit>>
    BY <1>5 DEF ChildDies, StdinBreaks
  <2>2. \A q \in Procs :
          /\ proc'[q].seen = proc[q].seen /\ proc'[q].killed = proc[q].killed
          /\ \/ proc'[q].os = proc[q].os /\ proc'[q].stdin = proc[q].stdin
             \/ /\ ~proc[q].seen \/ proc'[q].stdin = proc[q].stdin
                /\ proc[q].os \notin {"absent", "unspawnable"}
                /\ proc'[q].os # "unspawnable"
    BY <1>0, <1>5 DEF ChildDies, StdinBreaks, alive, ProcType
  <2> QED
    BY <1>0, <2>1, <2>2 DEF LossesReported
<1>6. ASSUME NEW c \in Calls, ClientRequest(c) \/ LocalRequest(c) \/ LocalProceed(c)
      PROVE  LossesReported'
  <2>1. UNCHANGED lastExit
    BY <1>6 DEF ClientRequest, LocalRequest, LocalProceed
  <2>2. \/ \E saw \in BOOLEAN, a \in Askers : Deliverable(saw, <<Request(ServerId(a), a)>>)
        \/ UNCHANGED procVars
    BY <1>0, <1>6 DEF ClientRequest, LocalRequest, LocalProceed, callBridge, Undeliverable,
                      ensureLocalBridgeInitialized, Askers, IInv, CallsOK
  <2> QED
    BY <1>1, <1>2, <2>1, <2>2 DEF procVars
<1>7. CASE ClientNotify
  BY <1>1, <1>2, <1>7 DEF ClientNotify, Undeliverable, procVars
<1>8. ASSUME NEW p \in Procs, DeliverLine(p) PROVE LossesReported'
  <2>1. UNCHANGED lastExit /\ (UNCHANGED procVars \/ Deliverable(TRUE, <<Note>>))
    BY <1>8 DEF DeliverLine, resolve, finishLocalInit, Undeliverable
  <2> QED
    BY <1>1, <1>2, <2>1 DEF procVars
<1>9. CASE \/ TimeOut \/ UNCHANGED vars
           \/ \E p \in Procs : ChildReads(p) \/ ChildReplies(p)
  BY <1>2, <1>9 DEF TimeOut, ChildReads, ChildReplies, vars, procVars
<1> QED
  BY <1>3, <1>4, <1>5, <1>6, <1>7, <1>8, <1>9 DEF Next

(* When a SIGKILLed child is reaped within the back-off, a request fails for *)
(* the loss of a child only if that was the child it was written to: nothing *)
(* is left to report of a process that a replacement has taken over from.    *)
THEOREM FailuresAreOwn == PromptReap => (Spec => FailsWithOwnChild)
<1> SUFFICES ASSUME PromptReap PROVE Spec => FailsWithOwnChild
  OBVIOUS
<1> DEFINE Own(c) == \E p \in Procs : /\ p = sentTo[c]
                                      /\ proc'[p].seen \/ proc'[p].stdin = "errored"
<1>1. ASSUME LInv, [Next]_vars, NEW c \in Calls,
             status[c] = "waiting", status'[c] = "failed", reason'[c] # "timed out"
      PROVE  Own(c)
  <2>1. /\ sentTo[c] = child /\ pending # {} /\ child # NoProc /\ child \in Procs
        /\ proc \in [Procs -> ProcType]
    BY <1>1 DEF LInv, WInv, Waiters, IInv, SupervisorOK
  <2>2. ASSUME NEW p \in Procs, Lose(p) PROVE Own(c)
    <3>1. p = child
      BY <1>1, <2>1, <2>2 DEF Lose, processError, stdinError, childExit, LInv, WInv,
                              LossesReported, Children
    <3>2. proc'[p].seen \/ proc'[p].stdin = "errored"
      <4>1. CASE proc' = [proc EXCEPT ![p].seen = TRUE]
        BY <2>1, <4>1 DEF ProcType
      <4>2. CASE stdinError(p)
        <5>1. proc' = [proc EXCEPT ![p] = [proc[p] EXCEPT !.stdin = "errored",
                                                          !.killed = TRUE]]
          BY <2>1, <4>2 DEF stdinError
        <5> QED
          BY <2>1, <5>1 DEF ProcType
      <4> QED
        BY <2>2, <4>1, <4>2 DEF Lose, processError, childExit
    <3> QED
      BY <2>1, <3>1, <3>2
  <2>3. CASE TimeOut
    <3>1. PICK w \in pending : reject({w}, "timed out")
      BY <2>3 DEF TimeOut
    <3>2. PICK lost \in SUBSET Calls :
            /\ status' = [d \in Calls |-> IF d \in lost THEN "failed" ELSE status[d]]
            /\ reason' = [d \in Calls |-> IF d \in lost THEN "timed out" ELSE reason[d]]
      <4> DEFINE L == {d \in Calls : \/ \E v \in {w} : v.call = d
                                     \/ /\ \E v \in {w} : v.call = LocalInit
                                        /\ d \in Initializing}
      <4>1. /\ status' = [d \in Calls |-> IF d \in L THEN "failed" ELSE status[d]]
            /\ reason' = [d \in Calls |-> IF d \in L THEN "timed out" ELSE reason[d]]
        BY <3>1 DEF reject
      <4> HIDE DEF L
      <4> QED
        BY <4>1 DEF L
    <3> QED
      BY <1>1, <3>2
  <2>4. ASSUME NEW d \in Calls, ClientRequest(d) \/ LocalRequest(d) \/ LocalProceed(d)
        PROVE  FALSE
    <3>1. status[d] # "waiting" /\ \E new \in Status : status' = [status EXCEPT ![d] = new]
      BY <2>4 DEF ClientRequest, LocalRequest, LocalProceed, callBridge,
                  ensureLocalBridgeInitialized, Status
    <3> QED
      BY <1>1, <3>1 DEF LInv, WInv, IInv, CallsOK
  <2>5. ASSUME NEW p \in Procs, DeliverLine(p) PROVE FALSE
    <3>1. \/ \E w \in pending : w.call # LocalInit /\ status' = [status EXCEPT ![w.call] = "answered"]
          \/ \E new : status' = [d \in Calls |-> IF d \in Initializing THEN new ELSE status[d]]
          \/ UNCHANGED status
      BY <2>5 DEF DeliverLine, resolve, finishLocalInit
    <3> QED
      BY <1>1, <3>1 DEF LInv, WInv, IInv, CallsOK, Askers, Initializing
  <2>6. CASE \/ ClientNotify \/ BackoffElapses \/ UNCHANGED vars
             \/ \E p \in Procs : \/ ChildReads(p) \/ ChildReplies(p)
                                 \/ ChildDies(p) \/ StdinBreaks(p)
    BY <1>1, <2>6 DEF ClientNotify, BackoffElapses, ChildReads, ChildReplies, ChildDies,
                      StdinBreaks, vars, callVars
  <2> QED
    BY <1>1, <2>2, <2>3, <2>4, <2>5, <2>6 DEF Next
<1>2. LInv /\ [Next]_vars =>
        \A c \in Calls :
          /\ status[c] = "waiting" /\ status'[c] = "failed" /\ reason'[c] # "timed out"
          => \E p \in Procs : /\ p = sentTo[c]
                              /\ proc'[p].seen \/ proc'[p].stdin = "errored"
  BY <1>1
<1>3. LInv /\ [Next]_vars =>
        [\A c \in Calls :
          /\ status[c] = "waiting" /\ status'[c] = "failed" /\ reason'[c] # "timed out"
          => \E p \in Procs : /\ p = sentTo[c]
                              /\ proc'[p].seen \/ proc'[p].stdin = "errored"]_vars
  BY <1>2
<1> QED
  BY <1>3, InitLInv, NextLInv, PTL DEF Spec, FailsWithOwnChild

-----------------------------------------------------------------------------
(* The handshake.  A call that has not reached callBridge is named nowhere *)
(* in the pipes: no status but those that come after is ever lost.         *)
LEMMA AskedGrows == IInv /\ [Next]_vars => Asked \subseteq Asked'
<1> SUFFICES ASSUME IInv, [Next]_vars, NEW c \in Asked
             PROVE  status'[c] \in {"waiting", "answered", "failed"}
  BY DEF Asked
<1>0. c \in Calls /\ status[c] \in {"waiting", "answered", "failed"}
      /\ status \in [Calls -> Status]
  BY DEF Asked, IInv, CallsOK
<1>1. ASSUME NEW d \in Calls, ClientRequest(d) \/ LocalRequest(d) \/ LocalProceed(d)
      PROVE  status'[c] \in {"waiting", "answered", "failed"}
  <2>1. d # c
    BY <1>0, <1>1 DEF ClientRequest, LocalRequest, LocalProceed
  <2>2. \E new \in Status : status' = [status EXCEPT ![d] = new]
    BY <1>1 DEF ClientRequest, LocalRequest, LocalProceed, callBridge,
                ensureLocalBridgeInitialized, Status
  <2> QED
    BY <1>0, <2>1, <2>2
<1>2. ASSUME NEW W, NEW why, reject(W, why)
      PROVE  status'[c] \in {"waiting", "answered", "failed"}
  <2>1. \E L \in SUBSET Calls : status' = [d \in Calls |-> IF d \in L THEN "failed" ELSE status[d]]
    <3> DEFINE L == {d \in Calls : \/ \E v \in W : v.call = d
                                   \/ (\E v \in W : v.call = LocalInit) /\ d \in Initializing}
    <3>1. status' = [d \in Calls |-> IF d \in L THEN "failed" ELSE status[d]]
      BY <1>2 DEF reject
    <3>2. L \in SUBSET Calls
      OBVIOUS
    <3> QED
      BY <3>1, <3>2
  <2> QED
    BY <1>0, <2>1
<1>3. ASSUME NEW p \in Procs, DeliverLine(p)
      PROVE  status'[c] \in {"waiting", "answered", "failed"}
  <2>1. \/ \E w \in pending : status' = [status EXCEPT ![w.call] = "answered"]
        \/ \E new : status' = [d \in Calls |-> IF d \in Initializing THEN new ELSE status[d]]
        \/ UNCHANGED status
    BY <1>3 DEF DeliverLine, resolve, finishLocalInit
  <2> QED
    BY <1>0, <2>1 DEF Initializing
<1>4. ASSUME NEW p \in Procs, Lose(p)
      PROVE  status'[c] \in {"waiting", "answered", "failed"}
  BY <1>2, <1>4 DEF Lose, processError, stdinError, childExit, failAllPending
<1>5. CASE TimeOut
  BY <1>2, <1>5 DEF TimeOut
<1>6. CASE \/ ClientNotify \/ BackoffElapses \/ UNCHANGED vars
           \/ \E p \in Procs : \/ ChildReads(p) \/ ChildReplies(p)
                               \/ ChildDies(p) \/ StdinBreaks(p)
  BY <1>0, <1>6 DEF ClientNotify, BackoffElapses, ChildReads, ChildReplies, ChildDies,
                    StdinBreaks, vars, callVars
<1> QED
  BY <1>1, <1>3, <1>4, <1>5, <1>6 DEF Next

LEMMA DeliveryKeepsAsked ==
  ASSUME IInv, AskedFirst, Asked \subseteq Asked', NEW saw,
         NEW m \in AskedMessages', Deliverable(saw, <<m>>)
  PROVE  inbox' \in [Procs -> Seq(AskedMessages')]
<1> DEFINE M == AskedMessages'
<1>1. SupervisorOK /\ inbox \in [Procs -> Seq(OwnedMessages)]
  BY DEF IInv, Owned
<1>2. AskedMessages \subseteq M /\ Note \in M
  BY FrontEndAssumption DEF AskedMessages, Note, Message
<1>3. \A p \in Procs : inbox[p] \in Seq(M)
  BY <1>2, SeqMonotonic DEF AskedFirst
<1>4. Replay(saw) \in Seq(M) /\ <<m>> \in Seq(M)
  <2>1. m \in M
    OBVIOUS
  <2> HIDE DEF M
  <2> QED
    BY <1>2, <2>1 DEF Replay
<1> HIDE DEF M
<1>5. \A p \in Procs : inbox'[p] \in Seq(M)
  <2>1. \A s, t \in Seq(M) : s \o t \in Seq(M)
    BY ConcatProperties
  <2>2. /\ child' \in Procs
        /\ \A p \in Procs \ {child'} : inbox'[p] = inbox[p]
        /\ inbox'[child'] \in {inbox[child'] \o <<m>>, Replay(saw) \o <<m>>}
    BY <1>1, Delivered
  <2>3. inbox'[child'] \in Seq(M)
    BY <1>3, <1>4, <2>1, <2>2
  <2> QED
    BY <1>3, <2>2, <2>3
<1>6. DOMAIN inbox' = Procs /\ inbox' = [p \in DOMAIN inbox' |-> inbox'[p]]
  BY <1>1 DEF Deliverable, startChild, writeRaw
<1> QED
  BY <1>5, <1>6 DEF M

(* The pipes name only calls asked before when nothing is written to them. *)
LEMMA StillAsked ==
  ASSUME AskedFirst, Asked \subseteq Asked', UNCHANGED <<inbox, working>>
  PROVE  /\ inbox' \in [Procs -> Seq(AskedMessages')]
         /\ working' \in [Procs -> SUBSET AskedMessages']
<1>1. AskedMessages \subseteq AskedMessages'
  BY DEF AskedMessages
<1>2. \A p \in Procs : inbox[p] \in Seq(AskedMessages')
  BY <1>1, SeqMonotonic DEF AskedFirst
<1> QED
  BY <1>1, <1>2 DEF AskedFirst

LEMMA NextAskedFirst == WInv /\ AskedFirst /\ [Next]_vars => AskedFirst'
<1> SUFFICES ASSUME WInv, AskedFirst, [Next]_vars PROVE AskedFirst'
  OBVIOUS
<1>0. IInv /\ Asked \subseteq Asked' /\ IInv'
  BY AskedGrows, NextIInv DEF WInv
<1>1. AskedMessages \subseteq AskedMessages'
  BY <1>0 DEF AskedMessages
<1>2. CASE UNCHANGED <<inbox, working, outbox, answer>>
  BY <1>0, <1>2, StillAsked DEF AskedFirst
<1>3. ASSUME NEW m \in AskedMessages', NEW saw, Deliverable(saw, <<m>>),
             UNCHANGED <<answer>>, \A p \in Procs : outbox'[p] \subseteq outbox[p]
      PROVE  AskedFirst'
  <2>1. inbox' \in [Procs -> Seq(AskedMessages')]
    BY <1>0, <1>3, DeliveryKeepsAsked
  <2>2. UNCHANGED working
    BY <1>3 DEF Deliverable, startChild, writeRaw
  <2> QED
    BY <1>0, <1>1, <1>3, <2>1, <2>2 DEF AskedFirst
<1>4. Note \in AskedMessages'
  BY FrontEndAssumption DEF AskedMessages, Note, Message
<1>5. ASSUME NEW c \in Calls, ClientRequest(c) \/ LocalRequest(c) \/ LocalProceed(c)
      PROVE  AskedFirst'
  <2>1. UNCHANGED <<outbox, answer>>
    BY <1>5 DEF ClientRequest, LocalRequest, LocalProceed, callBridge,
                ensureLocalBridgeInitialized
  <2>2. \/ /\ status' = [status EXCEPT ![c] = "waiting"]
           /\ \E saw \in BOOLEAN : Deliverable(saw, <<Request(ServerId(c), c)>>)
        \/ Deliverable(sawInitialized, <<Request(ServerId(LocalInit), LocalInit)>>)
        \/ UNCHANGED procVars
    BY <1>0, <1>5 DEF ClientRequest, LocalRequest, LocalProceed, callBridge,
                Undeliverable, ensureLocalBridgeInitialized, IInv, CallsOK
  <2>3. nextId \in Nat /\ \A a \in Askers : Request(ServerId(a), a) \in Message
    BY <1>0 DEF IInv, CallsOK, Request, ServerId, Message
  <2>4. status' = [status EXCEPT ![c] = "waiting"] =>
           Request(ServerId(c), c) \in AskedMessages'
    BY <1>0, <2>3 DEF AskedMessages, Asked, Request, IInv, CallsOK, Askers
  <2>5. Request(ServerId(LocalInit), LocalInit) \in AskedMessages'
    BY <2>3, FrontEndAssumption DEF AskedMessages, Request, Askers
  <2> QED
    BY <1>2, <1>3, <2>1, <2>2, <2>4, <2>5 DEF procVars
<1>6. CASE ClientNotify
  <2>1. UNCHANGED <<outbox, answer>>
    BY <1>6 DEF ClientNotify, callVars
  <2> QED
    BY <1>2, <1>3, <1>4, <1>6, <2>1 DEF ClientNotify, Undeliverable, procVars
<1>7. ASSUME NEW p \in Procs, DeliverLine(p) PROVE AskedFirst'
  <2>1. PICK r \in outbox[p] :
          /\ outbox' = [outbox EXCEPT ![p] = @ \ {r}]
          /\ \/ \E w \in pending : w.call # LocalInit /\ resolve(w, r)
             \/ finishLocalInit
             \/ UNCHANGED <<procVars, answer>>
    BY <1>7 DEF DeliverLine
  <2>2. \A q \in Procs : outbox'[q] \subseteq outbox[q]
    BY <1>0, <2>1 DEF IInv, Owned
  <2>3. ASSUME NEW w \in pending, w.call # LocalInit, resolve(w, r) PROVE AskedFirst'
    <3>1. UNCHANGED <<inbox, working>> /\ w.call \in Calls
      BY <1>0, <2>3 DEF resolve, procVars, IInv, CallsOK, Askers
    <3>2. \A c \in Calls : /\ c # w.call => answer'[c] = answer[c]
                           /\ c = w.call => status'[c] = "answered"
      BY <1>0, <2>3, <3>1 DEF resolve, IInv, CallsOK
    <3> QED
      BY <1>0, <2>2, <3>1, <3>2, StillAsked DEF AskedFirst, Asked
  <2>4. CASE finishLocalInit
    <3>1. UNCHANGED answer
      BY <2>4 DEF finishLocalInit
    <3>2. CASE Deliverable(TRUE, <<Note>>)
      BY <1>3, <1>4, <2>2, <3>1, <3>2
    <3>3. CASE \E why \in Reasons : Undeliverable(why)
      <4>1. UNCHANGED <<inbox, working>>
        BY <3>3 DEF Undeliverable, procVars
      <4> QED
        BY <1>0, <2>2, <3>1, <4>1, StillAsked DEF AskedFirst
    <3> QED
      BY <2>4, <3>2, <3>3 DEF finishLocalInit
  <2>5. CASE UNCHANGED <<procVars, answer>>
    BY <1>0, <2>2, <2>5, StillAsked DEF AskedFirst, procVars
  <2> QED
    BY <2>1, <2>3, <2>4, <2>5
<1>8. ASSUME NEW p \in Procs, ChildReads(p) PROVE AskedFirst'
  <2> DEFINE m == Head(inbox[p])
  <2>1. inbox[p] \in Seq(AskedMessages) /\ inbox[p] # <<>>
    BY <1>8 DEF AskedFirst, ChildReads
  <2>2. m \in AskedMessages /\ Tail(inbox[p]) \in Seq(AskedMessages)
    BY <2>1, HeadTailProperties
  <2> HIDE DEF m
  <2>3. /\ inbox' = [inbox EXCEPT ![p] = Tail(inbox[p])] /\ UNCHANGED <<status, answer>>
        /\ working' = [working EXCEPT ![p] = @ \cup {m}] \/ UNCHANGED working
        /\ \/ \E i \in Nat : outbox' = [outbox EXCEPT ![p] =
                                 @ \cup {[id |-> i, for |-> m.call, refused |-> TRUE]}]
           \/ UNCHANGED outbox
    <3>1. m.id \in Nat
      BY <2>2 DEF AskedMessages, Message, Note
    <3> QED
      BY <1>8, <3>1 DEF ChildReads, callVars, m
  <2>4. AskedMessages' = AskedMessages /\ Asked' = Asked
    BY <2>3 DEF AskedMessages, Asked
  <2>5. inbox' \in [Procs -> Seq(AskedMessages)]
    BY <2>2, <2>3 DEF AskedFirst
  <2>6. working' \in [Procs -> SUBSET AskedMessages]
    BY <2>2, <2>3 DEF AskedFirst
  <2>7. m.call \in Calls => m.call \in Asked
    BY <2>2 DEF AskedMessages
  <2>8. \A q \in Procs : \A r \in outbox'[q] : r \in outbox[q] \/ r.for = m.call
    <3>1. ASSUME NEW i \in Nat, outbox' = [outbox EXCEPT ![p] =
                    @ \cup {[id |-> i, for |-> m.call, refused |-> TRUE]}]
          PROVE  \A q \in Procs : \A r \in outbox'[q] : r \in outbox[q] \/ r.for = m.call
      BY <1>0, <3>1 DEF IInv, Owned
    <3> QED
      BY <2>3, <3>1
  <2> QED
    BY <2>3, <2>4, <2>5, <2>6, <2>7, <2>8 DEF AskedFirst
<1>9. ASSUME NEW p \in Procs, ChildReplies(p) PROVE AskedFirst'
  <2>1. PICK m \in working[p] :
          /\ working' = [working EXCEPT ![p] = @ \ {m}]
          /\ outbox' = [outbox EXCEPT ![p] =
                         @ \cup {[id |-> m.id, for |-> m.call, refused |-> FALSE]}]
    BY <1>9 DEF ChildReplies
  <2>2. UNCHANGED <<inbox, status, answer>>
    BY <1>9 DEF ChildReplies, callVars
  <2>3. AskedMessages' = AskedMessages /\ Asked' = Asked
    BY <2>2 DEF AskedMessages, Asked
  <2>4. m.call \in Calls => m.call \in Asked
    BY <2>1 DEF AskedFirst, AskedMessages
  <2>5. \A q \in Procs : \A r \in outbox'[q] : r \in outbox[q] \/ r.for = m.call
    BY <1>0, <2>1 DEF IInv, Owned
  <2>6. working' \in [Procs -> SUBSET AskedMessages]
    BY <2>1 DEF AskedFirst
  <2> QED
    BY <2>2, <2>3, <2>4, <2>5, <2>6 DEF AskedFirst
<1>10. ASSUME NEW p \in Procs, ChildDies(p) PROVE AskedFirst'
  <2>1. UNCHANGED <<status, answer, outbox>>
    BY <1>10 DEF ChildDies, callVars
  <2>2. AskedMessages' = AskedMessages /\ Asked' = Asked
    BY <2>1 DEF AskedMessages, Asked
  <2> QED
    BY <1>10, <2>1, <2>2 DEF ChildDies, AskedFirst
<1>11. CASE \/ TimeOut \/ BackoffElapses \/ UNCHANGED vars
            \/ \E p \in Procs : Lose(p) \/ StdinBreaks(p)
  BY <1>2, <1>11 DEF TimeOut, BackoffElapses, Lose, processError, stdinError, childExit,
       failAllPending, reject, StdinBreaks, vars, procVars, callVars
<1> QED
  BY <1>5, <1>6, <1>7, <1>8, <1>9, <1>10, <1>11 DEF Next

(* What a line added at the end, and the first line read, do to a pipe.    *)
LEMMA AppendCovered ==
  ASSUME NEW s \in Seq(Message), NEW m \in Message, NEW C, Covered(s, C),
         m.kind = "request" /\ m.call \in C => HasNote(s)
  PROVE  Covered(s \o <<m>>, C)
<1> DEFINE t == s \o <<m>>
<1>1. /\ t \in Seq(Message) /\ Len(s) \in Nat /\ Len(t) = Len(s) + 1
      /\ \A i \in 1..Len(s) : t[i] = s[i]
      /\ t[Len(s) + 1] = m
  OBVIOUS
<1> HIDE DEF t
<1>2. SUFFICES ASSUME NEW i \in 1..Len(t), t[i].kind = "request", t[i].call \in C
               PROVE  \E j \in 1..(i-1) : t[j].kind = "initialized"
  BY DEF Covered, t
<1>3. CASE i \in 1..Len(s)
  <2>1. PICK j \in 1..(i-1) : s[j].kind = "initialized"
    BY <1>1, <1>2, <1>3 DEF Covered
  <2>2. j \in 1..Len(s)
    BY <1>1, <1>3, <2>1
  <2> QED
    BY <1>1, <2>1, <2>2
<1>4. CASE i = Len(s) + 1
  <2>1. PICK j \in 1..Len(s) : s[j].kind = "initialized"
    BY <1>1, <1>2, <1>4 DEF HasNote
  <2> QED
    BY <1>1, <1>4, <2>1
<1> QED
  BY <1>1, <1>2, <1>3, <1>4

LEMMA AppendHasNote ==
  ASSUME NEW s \in Seq(Message), NEW m \in Message, HasNote(s) \/ m.kind = "initialized"
  PROVE  HasNote(s \o <<m>>)
<1> DEFINE t == s \o <<m>>
<1>1. /\ Len(s) \in Nat /\ Len(t) = Len(s) + 1
      /\ \A i \in 1..Len(s) : t[i] = s[i]
      /\ t[Len(s) + 1] = m
  OBVIOUS
<1> HIDE DEF t
<1>2. HasNote(t)
  BY <1>1 DEF HasNote
<1> QED
  BY <1>2 DEF t

LEMMA TailCovered ==
  ASSUME NEW s \in Seq(Message), s # <<>>, NEW C, Head(s).kind # "initialized"
  PROVE  /\ Covered(s, C) => Covered(Tail(s), C) /\ ~(Head(s).kind = "request" /\ Head(s).call \in C)
         /\ HasNote(s) => HasNote(Tail(s))
<1> DEFINE t == Tail(s)
<1>1. /\ Len(s) \in Nat /\ Len(s) >= 1 /\ Len(t) = Len(s) - 1
      /\ \A i \in 1..Len(t) : t[i] = s[i+1]
      /\ Head(s) = s[1]
  OBVIOUS
<1> HIDE DEF t
<1>2. ASSUME Covered(s, C) PROVE Covered(t, C)
  <2> SUFFICES ASSUME NEW i \in 1..Len(t), t[i].kind = "request", t[i].call \in C
               PROVE  \E j \in 1..(i-1) : t[j].kind = "initialized"
    BY DEF Covered
  <2>1. i + 1 \in 1..Len(s) /\ s[i+1] = t[i]
    BY <1>1
  <2>2. PICK j \in 1..i : s[j].kind = "initialized"
    BY <1>2, <2>1 DEF Covered
  <2>3. j # 1
    BY <1>1, <2>2
  <2>4. j - 1 \in 1..(i-1) /\ j - 1 \in 1..Len(t) /\ (j - 1) + 1 = j
    BY <1>1, <2>2, <2>3
  <2> QED
    BY <1>1, <2>2, <2>4
<1>3. ASSUME Covered(s, C) PROVE ~(s[1].kind = "request" /\ s[1].call \in C)
  BY <1>1, <1>3 DEF Covered
<1>4. ASSUME HasNote(s) PROVE HasNote(t)
  <2>1. PICK j \in 1..Len(s) : s[j].kind = "initialized"
    BY <1>4 DEF HasNote
  <2>2. j # 1
    BY <1>1, <2>1
  <2>3. j - 1 \in 1..Len(t) /\ (j - 1) + 1 = j
    BY <1>1, <2>1, <2>2
  <2> QED
    BY <1>1, <2>1, <2>3 DEF HasNote
<1> QED
  BY <1>1, <1>2, <1>3, <1>4 DEF t

LEMMA ShortCovered ==
  ASSUME NEW m \in Message, NEW C
  PROVE  /\ Covered(<<>>, C)
         /\ Covered(<<Note>> \o <<m>>, C) /\ HasNote(<<Note>> \o <<m>>)
         /\ (m.kind = "request" => m.call \notin C) => Covered(<<>> \o <<m>>, C)
<1>1. Note \in Message /\ Note.kind = "initialized" /\ <<Note>> \in Seq(Message)
  BY DEF Note, Message
<1>2. Covered(<<>>, C)
  BY DEF Covered
<1>3. <<Note>>[1] = Note /\ Len(<<Note>>) = 1
  OBVIOUS
<1>4. HasNote(<<Note>>) /\ Covered(<<Note>>, C)
  <2>1. HasNote(<<Note>>)
    BY <1>1, <1>3 DEF HasNote
  <2>2. Covered(<<Note>>, C)
    BY <1>1, <1>3 DEF Covered
  <2> QED
    BY <2>1, <2>2
<1>5. Covered(<<Note>> \o <<m>>, C) /\ HasNote(<<Note>> \o <<m>>)
  BY <1>1, <1>4, AppendCovered, AppendHasNote
<1>6. ASSUME m.kind = "request" => m.call \notin C PROVE Covered(<<>> \o <<m>>, C)
  <2>1. <<>> \in Seq(Message)
    OBVIOUS
  <2> QED
    BY <1>2, <1>6, <2>1, AppendCovered
<1> QED
  BY <1>2, <1>5, <1>6

(* Lines are delivered behind the notification, on whichever child.        *)
RunsCovered ==
    /\ \A p \in Procs : proc[p].os = "running" => ready[p] \/ Covered(inbox[p], After)
    /\ sawInitialized /\ child # NoProc /\ alive(child) /\ proc[child].os = "running" =>
          ready[child] \/ HasNote(inbox[child])

LEMMA DeliveryKeepsNotes ==
  ASSUME WInv, AskedFirst, NoteFirst, NEW saw, NEW m \in Message, Deliverable(saw, <<m>>),
         saw = sawInitialized',
         m = Note \/ (m.kind = "request" /\ sawInitialized' = sawInitialized),
         m.kind = "request" /\ m.call \in After' => sawInitialized,
         \A p \in Procs, C \in {After, After'} : Covered(inbox[p], After) => Covered(inbox[p], C)
  PROVE  RunsCovered' /\ child' # NoProc
<1>1. /\ SupervisorOK /\ inbox \in [Procs -> Seq(OwnedMessages)]
      /\ \A p \in Procs : inbox[p] \in Seq(Message)
      /\ sawInitialized \in BOOLEAN
  BY OwnedTypes DEF WInv, IInv, Owned, CallsOK, TypeOK
<1>2. Note.kind = "initialized" /\ Note \in Message
  BY DEF Note, Message
<1>3. CASE child # NoProc
  <2>1. /\ child \in Procs /\ child' = child /\ alive(child)
        /\ UNCHANGED <<ready, working, proc>>
        /\ inbox'[child] = inbox[child] \o <<m>>
        /\ \A p \in Procs \ {child} : inbox'[p] = inbox[p]
    BY <1>1, <1>3, Delivered
  <2>2. ASSUME proc[child].os = "running", ~ready[child]
        PROVE  /\ Covered(inbox[child] \o <<m>>, After')
               /\ sawInitialized' => HasNote(inbox[child] \o <<m>>)
    <3>1. Covered(inbox[child], After') /\ (sawInitialized => HasNote(inbox[child]))
      BY <1>3, <2>1, <2>2 DEF NoteFirst
    <3>2. m.kind = "request" /\ m.call \in After' => HasNote(inbox[child])
      BY <3>1
    <3>3. sawInitialized' => HasNote(inbox[child]) \/ m.kind = "initialized"
      BY <1>2, <3>1
    <3> QED
      BY <1>1, <2>1, <3>1, <3>2, <3>3, AppendCovered, AppendHasNote
  <2>3. \A p \in Procs : proc'[p].os = "running" => ready'[p] \/ Covered(inbox'[p], After')
    BY <2>1, <2>2 DEF NoteFirst
  <2> QED
    BY <1>3, <2>1, <2>2, <2>3 DEF RunsCovered
<1>4. CASE child = NoProc
  <2>1. /\ child' \in Procs /\ child' # NoProc
        /\ UNCHANGED ready
        /\ inbox'[child'] = Replay(saw) \o <<m>>
        /\ \A p \in Procs \ {child'} : inbox'[p] = inbox[p] /\ proc'[p] = proc[p]
    BY <1>1, <1>4, Delivered
  <2>2. /\ Covered(inbox'[child'], After')
        /\ sawInitialized' => HasNote(inbox'[child'])
    <3>1. CASE Replay(saw) = <<Note>>
      BY <2>1, <3>1, ShortCovered
    <3>2. CASE Replay(saw) = <<>>
      <4>1. saw => m = Note
        BY <1>4, <3>2 DEF Replay, NoteFirst
      <4>2. m.kind = "request" => m.call \notin After'
        BY <1>1, <1>2, <4>1
      <4>3. sawInitialized' => HasNote(<<>> \o <<m>>)
        <5>1. <<>> \in Seq(Message)
          OBVIOUS
        <5> QED
          BY <1>2, <4>1, <5>1, AppendHasNote
      <4> QED
        BY <2>1, <3>2, <4>2, <4>3, ShortCovered
    <3> QED
      BY <3>1, <3>2 DEF Replay
  <2>3. \A p \in Procs : proc'[p].os = "running" => ready'[p] \/ Covered(inbox'[p], After')
    BY <2>1, <2>2 DEF NoteFirst
  <2> QED
    BY <2>1, <2>2, <2>3 DEF RunsCovered
<1> QED
  BY <1>3, <1>4

HInv == WInv /\ AskedFirst /\ NoteFirst

(* The rest of NoteFirst when no answer comes: only a call that is not     *)
(* named anywhere may become one of those asked after the handshake.       *)
LEMMA NotesRest ==
  ASSUME HInv, UNCHANGED answer, \A p \in Procs : outbox'[p] \subseteq outbox[p],
         After' \cap Asked \subseteq After,
         RunsCovered', sawInitialized' /\ child' = NoProc => lastExit' # "null"
  PROVE  NoteFirst'
<1>1. \A p \in Procs : \A r \in outbox'[p] : r.refused => r.for \notin After'
  <2>1. SUFFICES ASSUME NEW p \in Procs, NEW r \in outbox'[p], r.refused, r.for \in After'
                 PROVE  FALSE
    OBVIOUS
  <2>2. r \in outbox[p] /\ r.for \in Calls
    BY <2>1 DEF After
  <2> QED
    BY <2>1, <2>2 DEF HInv, AskedFirst, NoteFirst
<1>2. HandshakeSurvivesRestart'
  <2>1. SUFFICES ASSUME NEW c \in Calls, askedAfter'[c], answer[c].refused
                 PROVE  FALSE
    BY DEF HandshakeSurvivesRestart
  <2>2. c \in Asked /\ c \in After'
    BY <2>1 DEF HInv, AskedFirst, After
  <2> QED
    BY <2>1, <2>2 DEF HInv, NoteFirst, HandshakeSurvivesRestart, After
<1> QED
  BY <1>1, <1>2 DEF NoteFirst, RunsCovered

(* A pipe that names only calls asked before is covered as it was.         *)
LEMMA CoveredStays ==
  ASSUME HInv, After' \cap Asked \subseteq After
  PROVE  \A p \in Procs, C \in {After, After'} : Covered(inbox[p], After) => Covered(inbox[p], C)
<1> SUFFICES ASSUME NEW p \in Procs, Covered(inbox[p], After) PROVE Covered(inbox[p], After')
  OBVIOUS
<1>1. \A i \in 1..Len(inbox[p]) : inbox[p][i] \in AskedMessages
  BY DEF HInv, AskedFirst
<1> SUFFICES ASSUME NEW i \in 1..Len(inbox[p]), inbox[p][i].kind = "request",
                    inbox[p][i].call \in After'
             PROVE  \E j \in 1..(i-1) : inbox[p][j].kind = "initialized"
  BY DEF Covered
<1>2. inbox[p][i].call \in After
  BY <1>1 DEF After, AskedMessages
<1> QED
  BY <1>2 DEF Covered

LEMMA CallsKeepNotes ==
  ASSUME HInv, NEW c \in Calls, ClientRequest(c) \/ LocalRequest(c) \/ LocalProceed(c)
  PROVE  NoteFirst'
<1>1. /\ UNCHANGED <<outbox, answer, sawInitialized, lastExit>>
      /\ c \notin Asked /\ sawInitialized \in BOOLEAN
  BY DEF ClientRequest, LocalRequest, LocalProceed, callBridge,
         ensureLocalBridgeInitialized, Asked, HInv, WInv, IInv, CallsOK
<1>2. /\ UNCHANGED askedAfter \/ askedAfter' = [askedAfter EXCEPT ![c] = sawInitialized]
      /\ \/ askedAfter' = [askedAfter EXCEPT ![c] = sawInitialized]
            /\ Deliverable(sawInitialized, <<Request(ServerId(c), c)>>)
         \/ ~sawInitialized /\ UNCHANGED askedAfter
            /\ Deliverable(sawInitialized, <<Request(ServerId(LocalInit), LocalInit)>>)
         \/ UNCHANGED procVars
  BY <1>1 DEF ClientRequest, LocalRequest, LocalProceed, callBridge,
         ensureLocalBridgeInitialized, Undeliverable
<1>3. /\ After' \cap Asked \subseteq After
      /\ c \in After' => sawInitialized \/ c \in After
  BY <1>1, <1>2 DEF After, HInv, WInv, IInv, CallsOK
<1>4. nextId \in Nat /\ \A a \in Askers : /\ Request(ServerId(a), a) \in Message
                                          /\ Request(ServerId(a), a).kind = "request"
                                          /\ Request(ServerId(a), a).call = a
  BY DEF HInv, WInv, IInv, CallsOK, Request, ServerId, Message
<1>5. LocalInit \in Askers /\ LocalInit \notin After' /\ c \in Askers
  BY FrontEndAssumption DEF Askers, After
<1>6. RunsCovered' /\ (sawInitialized' /\ child' = NoProc => lastExit' # "null")
  <2>1. CASE askedAfter' = [askedAfter EXCEPT ![c] = sawInitialized]
             /\ Deliverable(sawInitialized, <<Request(ServerId(c), c)>>)
    <3>1. c \in After' => sawInitialized
      BY <2>1 DEF After, HInv, WInv, IInv, CallsOK
    <3> QED
      BY <1>1, <1>3, <1>4, <1>5, <2>1, <3>1, CoveredStays, DeliveryKeepsNotes DEF HInv
  <2>2. CASE Deliverable(sawInitialized, <<Request(ServerId(LocalInit), LocalInit)>>)
    BY <1>1, <1>3, <1>4, <1>5, <2>2, CoveredStays, DeliveryKeepsNotes DEF HInv
  <2>3. CASE UNCHANGED procVars
    BY <1>1, <1>3, <2>3, CoveredStays DEF HInv, NoteFirst, RunsCovered, procVars, alive
  <2> QED
    BY <1>2, <2>1, <2>2, <2>3
<1> QED
  BY <1>1, <1>3, <1>6, NotesRest

(* `initialized` is delivered, or there is no child to write it to.        *)
LEMMA NotifyKeepsNotes ==
  ASSUME HInv, sawInitialized' = TRUE, UNCHANGED <<askedAfter, lastExit>>,
         Deliverable(TRUE, <<Note>>) \/ \E why \in Reasons : Undeliverable(why)
  PROVE  RunsCovered' /\ (sawInitialized' /\ child' = NoProc => lastExit' # "null")
<1>1. After' = After /\ Note \in Message /\ Note.kind = "initialized"
  BY DEF After, Note, Message
<1>2. CASE Deliverable(TRUE, <<Note>>)
  BY <1>1, <1>2, CoveredStays, DeliveryKeepsNotes DEF HInv
<1>3. CASE \E why \in Reasons : Undeliverable(why)
  BY <1>1, <1>3 DEF HInv, NoteFirst, RunsCovered, Undeliverable, procVars, alive, Backoff
<1> QED
  BY <1>2, <1>3

LEMMA LinesKeepNotes ==
  ASSUME HInv, RightAnswer', NEW p \in Procs, DeliverLine(p)
  PROVE  NoteFirst'
<1>1. PICK r \in outbox[p] :
        /\ outbox' = [outbox EXCEPT ![p] = @ \ {r}]
        /\ \/ \E w \in pending : w.call # LocalInit /\ resolve(w, r)
           \/ finishLocalInit
           \/ UNCHANGED <<procVars, answer, sawInitialized>>
        /\ UNCHANGED <<askedAfter, lastExit>>
  BY DEF DeliverLine
<1>2. \A q \in Procs : outbox'[q] \subseteq outbox[q]
  BY <1>1 DEF HInv, WInv, IInv, Owned
<1>3. After' = After
  BY <1>1 DEF After
<1>4. CASE finishLocalInit
  <2>1. UNCHANGED answer /\ sawInitialized' = TRUE
    BY <1>4 DEF finishLocalInit
  <2>2. RunsCovered' /\ (sawInitialized' /\ child' = NoProc => lastExit' # "null")
    BY <1>1, <1>4, <2>1, NotifyKeepsNotes DEF finishLocalInit
  <2> QED
    BY <1>2, <1>3, <2>1, <2>2, NotesRest
<1>5. ASSUME UNCHANGED <<procVars, sawInitialized>>
      PROVE  RunsCovered' /\ (sawInitialized' /\ child' = NoProc => lastExit' # "null")
  BY <1>1, <1>3, <1>5 DEF HInv, NoteFirst, RunsCovered, procVars, alive
<1>6. CASE UNCHANGED <<procVars, answer, sawInitialized>>
  BY <1>2, <1>3, <1>5, <1>6, NotesRest
<1>7. ASSUME NEW w \in pending, w.call # LocalInit, resolve(w, r) PROVE NoteFirst'
  <2> DEFINE c == w.call
  <2>1. c \in Calls /\ UNCHANGED <<procVars, sawInitialized>>
    BY <1>7 DEF HInv, WInv, IInv, CallsOK, Askers, resolve
  <2>2. /\ answer'[c].for = r.for /\ answer'[c].refused = r.refused
        /\ status'[c] = "answered"
        /\ \A d \in Calls \ {c} : answer'[d] = answer[d]
    BY <1>7, <2>1 DEF resolve, HInv, WInv, IInv, CallsOK
  <2>3. r.for = c
    BY <2>1, <2>2 DEF RightAnswer
  <2> HIDE DEF c
  <2>4. r.refused => c \notin After
    BY <1>1, <2>3 DEF HInv, NoteFirst
  <2>5. HandshakeSurvivesRestart'
    BY <1>1, <2>2, <2>4 DEF HInv, NoteFirst, HandshakeSurvivesRestart, After
  <2> QED
    BY <1>1, <1>2, <1>3, <1>5, <2>1, <2>5 DEF HInv, NoteFirst, RunsCovered
<1> QED
  BY <1>1, <1>4, <1>6, <1>7

(* A request that is refused was read by a child that had no notification  *)
(* before it.                                                              *)
LEMMA ReadsKeepNotes ==
  ASSUME HInv, NEW p \in Procs, ChildReads(p)
  PROVE  NoteFirst'
<1> DEFINE m == Head(inbox[p])
<1>1. /\ inbox[p] \in Seq(Message) /\ inbox[p] # <<>> /\ proc[p].os = "running"
      /\ ready \in [Procs -> BOOLEAN]
  BY OwnedTypes DEF HInv, WInv, TypeOK, ChildReads
<1>2. /\ UNCHANGED <<child, proc, answer, askedAfter, sawInitialized, lastExit>>
      /\ inbox' = [inbox EXCEPT ![p] = Tail(inbox[p])]
      /\ \/ /\ m.kind = "initialized" /\ ready' = [ready EXCEPT ![p] = TRUE]
            /\ UNCHANGED outbox
         \/ /\ m.kind = "request" /\ UNCHANGED <<ready, outbox>>
         \/ /\ m.kind = "request" /\ ~ready[p] /\ UNCHANGED ready
            /\ outbox' = [outbox EXCEPT ![p] =
                            @ \cup {[id |-> m.id, for |-> m.call, refused |-> TRUE]}]
  BY DEF ChildReads, callVars
<1>3. \A q \in Procs : inbox'[q] = IF q = p THEN Tail(inbox[p]) ELSE inbox[q]
  BY <1>2 DEF HInv, WInv, IInv, Owned
<1>4. m.kind # "initialized" =>
        /\ Covered(inbox[p], After) => Covered(Tail(inbox[p]), After)
        /\ Covered(inbox[p], After) => ~(m.kind = "request" /\ m.call \in After)
        /\ HasNote(inbox[p]) => HasNote(Tail(inbox[p]))
  BY <1>1, TailCovered
<1> HIDE DEF m
<1>5. \A q \in Procs : /\ ready[q] => ready'[q]
                       /\ m.kind = "initialized" => ready'[p]
  BY <1>1, <1>2
<1>6. After' = After
  BY <1>2 DEF After
<1>7. \A q \in Procs : proc[q].os = "running" => ready[q] \/ Covered(inbox[q], After)
  BY DEF HInv, NoteFirst
<1>8. \A q \in Procs : proc'[q].os = "running" => ready'[q] \/ Covered(inbox'[q], After')
  BY <1>2, <1>3, <1>4, <1>5, <1>6, <1>7
<1>9. sawInitialized' /\ child' # NoProc /\ alive(child)' /\ proc'[child'].os = "running" =>
         ready'[child'] \/ HasNote(inbox'[child'])
  <2>1. child # NoProc => child \in Procs
    BY DEF HInv, WInv, IInv, SupervisorOK
  <2>2. sawInitialized /\ child # NoProc /\ alive(child) /\ proc[child].os = "running" =>
          ready[child] \/ HasNote(inbox[child])
    BY DEF HInv, NoteFirst
  <2>3. alive(child)' <=> alive(child)
    BY <1>2 DEF alive
  <2> QED
    BY <1>2, <1>3, <1>4, <1>5, <2>1, <2>2, <2>3
<1>10. \A q \in Procs : \A r \in outbox'[q] : r.refused => r.for \notin After'
  <2>1. \A q \in Procs : \A r \in outbox[q] : r.refused => r.for \notin After
    BY DEF HInv, NoteFirst
  <2>2. CASE UNCHANGED outbox
    BY <1>6, <2>1, <2>2
  <2>3. CASE /\ m.kind = "request" /\ ~ready[p]
             /\ outbox' = [outbox EXCEPT ![p] =
                            @ \cup {[id |-> m.id, for |-> m.call, refused |-> TRUE]}]
    <3>1. m.call \notin After
      BY <1>1, <1>4, <1>7, <2>3
    <3>2. \A q \in Procs : \A r \in outbox'[q] : r \in outbox[q] \/ r.for = m.call
      BY <2>3 DEF HInv, WInv, IInv, Owned
    <3> QED
      BY <1>6, <2>1, <3>1, <3>2
  <2> QED
    BY <1>2, <2>2, <2>3
<1>11. HandshakeSurvivesRestart' /\ (sawInitialized' /\ child' = NoProc => lastExit' # "null")
  BY <1>2 DEF HInv, NoteFirst, HandshakeSurvivesRestart
<1> QED
  BY <1>8, <1>9, <1>10, <1>11 DEF NoteFirst

LEMMA InitHInv == Init => HInv
<1> SUFFICES ASSUME Init PROVE AskedFirst /\ NoteFirst
  BY InitWInv DEF HInv
<1>1. <<>> \in Seq(AskedMessages) /\ \A C : Covered(<<>>, C)
  BY DEF Covered
<1>2. AskedFirst
  BY <1>1 DEF Init, AskedFirst, NoAnswer
<1>3. NoteFirst
  BY <1>1 DEF Init, NoteFirst, HandshakeSurvivesRestart
<1> QED
  BY <1>2, <1>3

LEMMA NextHInv == HInv /\ [Next]_vars => HInv'
<1> SUFFICES ASSUME HInv, [Next]_vars PROVE NoteFirst'
  BY NextWInv, NextAskedFirst DEF HInv
<1>0. RightAnswer' /\ proc \in [Procs -> ProcType] /\ child \in Procs \cup {NoProc}
  BY NextWInv DEF HInv, WInv, IInv, SupervisorOK
<1>1. ASSUME NEW c \in Calls, ClientRequest(c) \/ LocalRequest(c) \/ LocalProceed(c)
      PROVE  NoteFirst'
  BY <1>1, CallsKeepNotes
<1>2. CASE ClientNotify
  <2>1. /\ UNCHANGED <<answer, outbox, askedAfter, lastExit>> /\ sawInitialized' = TRUE
        /\ Deliverable(TRUE, <<Note>>) \/ \E why \in Reasons : Undeliverable(why)
    BY <1>2 DEF ClientNotify, callVars
  <2>2. After' = After
    BY <2>1 DEF After
  <2> QED
    BY <2>1, <2>2, NotifyKeepsNotes, NotesRest
<1>3. ASSUME NEW p \in Procs, DeliverLine(p) \/ ChildReads(p) PROVE NoteFirst'
  BY <1>0, <1>3, LinesKeepNotes, ReadsKeepNotes
<1>4. ASSUME UNCHANGED <<answer, outbox, askedAfter, sawInitialized, inbox, ready>>,
             child' = child \/ child' = NoProc,
             lastExit' # "null" \/ UNCHANGED <<lastExit, child>>,
             \A p \in Procs : proc'[p].os = proc[p].os \/ proc'[p].os # "running",
             child' # NoProc /\ alive(child)' => alive(child)
      PROVE  NoteFirst'
  <2>1. After' = After
    BY <1>4 DEF After
  <2>2. RunsCovered' /\ (sawInitialized' /\ child' = NoProc => lastExit' # "null")
    BY <1>0, <1>4, <2>1 DEF HInv, NoteFirst, RunsCovered
  <2> QED
    BY <1>4, <2>1, <2>2, NotesRest
<1>5. ASSUME NEW p \in Procs, Lose(p) PROVE NoteFirst'
  <2>1. /\ UNCHANGED <<answer, outbox, askedAfter, sawInitialized, inbox, ready>>
        /\ child' = child \/ child' = NoProc
        /\ lastExit' = "recent" /\ (child' # NoProc => child # p)
    BY <1>5 DEF Lose, processError, stdinError, childExit, failAllPending, reject, discard
  <2>2. /\ \A q \in Procs \ {p} : proc'[q] = proc[q]
        /\ proc'[p].os = proc[p].os
    BY <1>0, <1>5 DEF Lose, processError, stdinError, childExit, ProcType
  <2>3. \A q \in Procs : proc'[q].os = proc[q].os
    BY <2>2
  <2>4. child' # NoProc /\ alive(child)' => alive(child)
    BY <1>0, <2>1, <2>2 DEF alive
  <2> QED
    BY <1>4, <2>1, <2>3, <2>4
<1>6. ASSUME NEW p \in Procs, StdinBreaks(p) PROVE NoteFirst'
  <2>1. UNCHANGED <<answer, outbox, askedAfter, sawInitialized, inbox, ready, child, lastExit>>
    BY <1>6 DEF StdinBreaks, callVars
  <2>2. \A q \in Procs : /\ proc'[q].os = proc[q].os
                         /\ proc'[q].seen = proc[q].seen
                         /\ proc'[q].stdin = "open" => proc[q].stdin = "open"
    BY <1>0, <1>6 DEF StdinBreaks, ProcType
  <2>3. child' # NoProc /\ alive(child)' => alive(child)
    BY <1>0, <2>1, <2>2 DEF alive
  <2> QED
    BY <1>4, <2>1, <2>2, <2>3
<1>7. CASE TimeOut \/ BackoffElapses \/ UNCHANGED vars
  <2>1. /\ UNCHANGED <<answer, outbox, askedAfter, sawInitialized, inbox, ready, child, proc>>
        /\ lastExit' = lastExit \/ lastExit' = "past"
    BY <1>7 DEF TimeOut, reject, BackoffElapses, vars, procVars, callVars
  <2>2. alive(child)' => alive(child)
    BY <2>1 DEF alive
  <2> QED
    BY <1>4, <2>1, <2>2
<1>8. ASSUME NEW p \in Procs, ChildReplies(p) PROVE NoteFirst'
  <2>1. /\ UNCHANGED <<answer, askedAfter, sawInitialized, inbox, ready, child, proc, lastExit>>
        /\ \E m \in working[p] :
             outbox' = [outbox EXCEPT ![p] =
                         @ \cup {[id |-> m.id, for |-> m.call, refused |-> FALSE]}]
    BY <1>8 DEF ChildReplies, callVars
  <2>2. \A q \in Procs : \A r \in outbox'[q] : r.refused => r \in outbox[q]
    BY <2>1 DEF HInv, WInv, IInv, Owned
  <2>3. After' = After
    BY <2>1 DEF After
  <2> QED
    BY <2>1, <2>2, <2>3 DEF HInv, NoteFirst, alive, HandshakeSurvivesRestart
<1>9. ASSUME NEW p \in Procs, ChildDies(p) PROVE NoteFirst'
  <2>1. /\ UNCHANGED <<answer, askedAfter, sawInitialized, outbox, child, lastExit>>
        /\ proc'[p].os = "dead" /\ \A q \in Procs \ {p} : proc'[q] = proc[q]
        /\ \A q \in Procs \ {p} : inbox'[q] = inbox[q] /\ ready'[q] = ready[q]
    BY <1>0, <1>9 DEF ChildDies, callVars, HInv, WInv, IInv, Owned, SupervisorOK, ProcType
  <2>2. After' = After
    BY <2>1 DEF After
  <2>3. RunsCovered'
    BY <1>0, <2>1, <2>2 DEF HInv, NoteFirst, RunsCovered, alive
  <2>4. sawInitialized' /\ child' = NoProc => lastExit' # "null"
    BY <2>1 DEF HInv, NoteFirst
  <2> QED
    BY <2>1, <2>2, <2>3, <2>4, NotesRest
<1> QED
  BY <1>1, <1>2, <1>3, <1>5, <1>6, <1>7, <1>8, <1>9 DEF Next

(* A request made after any client's handshake is never refused with        *)
(* -32002, however many children were lost in between: every child that     *)
(* runs reads the notification before it (the replay in startChild).        *)
THEOREM HandshakeSurvives == Spec => []HandshakeSurvivesRestart
<1>1. HInv => HandshakeSurvivesRestart
  BY DEF HInv, NoteFirst
<1> QED
  BY <1>1, InitHInv, NextHInv, PTL DEF Spec

=============================================================================
