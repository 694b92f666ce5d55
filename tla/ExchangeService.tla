--------------------------- MODULE ExchangeService ---------------------------
(****************************************************************************)
(* What the server promises of an exchange (recorder.go:9-17, handler.go:   *)
(* 338-339): the client gets one final status, the exchange has one record, *)
(* and the two agree.  The only record without an answer is 499, of a       *)
(* client that left; what net/http sends after it nobody waits for.  The    *)
(* only record that differs from the answer is an interim status, which     *)
(* cannot be an answer: 200 follows it.                                     *)
(****************************************************************************)
EXTENDS Naturals

CONSTANTS Requests, Statuses

VARIABLES
    left,    \* clients net/http takes for gone
    reply,   \* final status given to each client, 0 before
    record   \* status logged and counted for each exchange, 0 before

vars == <<left, reply, record>>

Init ==
    /\ left = {}
    /\ reply = [r \in Requests |-> 0]
    /\ record = [r \in Requests |-> 0]

Leave(r) ==
    /\ left' = left \union {r}
    /\ UNCHANGED <<reply, record>>

Answer(r) ==
    /\ reply[r] = 0 /\ record[r] = 0
    /\ \E code \in Statuses : reply' = [reply EXCEPT ![r] = code]
    /\ UNCHANGED <<left, record>>

\* The exchange is recorded under the status its client got.
Account(r) ==
    /\ record[r] = 0 /\ reply[r] # 0
    /\ record' = [record EXCEPT ![r] = reply[r]]
    /\ UNCHANGED <<left, reply>>

\* The client asked for an interim status, and got a 200 after it.
AccountInterim(r) ==
    /\ record[r] = 0 /\ reply[r] = 200
    /\ \E code \in Statuses \intersect ((100..199) \ {101}) :
          record' = [record EXCEPT ![r] = code]
    /\ UNCHANGED <<left, reply>>

\* The client left before it was answered.
AccountGone(r) ==
    /\ record[r] = 0 /\ reply[r] = 0 /\ r \in left
    /\ record' = [record EXCEPT ![r] = 499]
    /\ UNCHANGED <<left, reply>>

\* net/http completes the response nobody wrote.
Complete(r) ==
    /\ record[r] = 499 /\ reply[r] = 0
    /\ reply' = [reply EXCEPT ![r] = 200]
    /\ UNCHANGED <<left, record>>

Next == \E r \in Requests :
    \/ Leave(r) \/ Answer(r) \/ Complete(r)
    \/ Account(r) \/ AccountInterim(r) \/ AccountGone(r)

Spec == Init /\ [][Next]_vars
=============================================================================
