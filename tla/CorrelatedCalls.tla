-------------------------- MODULE CorrelatedCalls --------------------------
(***************************************************************************)
(* What the front end promises each HTTP client, whatever happens to the   *)
(* shared bridge child: a request is settled at most once, by the reply    *)
(* to that very request or by an error.  Losing the child may fail any     *)
(* number of open requests in one step, and answers none of them.          *)
(***************************************************************************)
CONSTANTS Calls, NoCall

VARIABLES state,    \* per call: "idle", "open", "answered" or "failed"
          reply     \* per call: the call whose reply settled it, or NoCall

vars == <<state, reply>>

Init == /\ state = [c \in Calls |-> "idle"]
        /\ reply = [c \in Calls |-> NoCall]

Accept(c) == /\ state[c] = "idle"
             /\ state' = [state EXCEPT ![c] = "open"]
             /\ UNCHANGED reply

Refuse(c) == /\ state[c] = "idle"
             /\ state' = [state EXCEPT ![c] = "failed"]
             /\ UNCHANGED reply

Answer(c) == /\ state[c] = "open"
             /\ state' = [state EXCEPT ![c] = "answered"]
             /\ reply' = [reply EXCEPT ![c] = c]

Fail(S) == /\ \A c \in S : state[c] = "open"
           /\ state' = [c \in Calls |-> IF c \in S THEN "failed" ELSE state[c]]
           /\ UNCHANGED reply

Next == \/ \E c \in Calls : Accept(c) \/ Refuse(c) \/ Answer(c)
        \/ \E S \in SUBSET Calls : Fail(S)

Spec == Init /\ [][Next]_vars

=============================================================================
