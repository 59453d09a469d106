----------------------------- MODULE FifoChannel -----------------------------
(***************************************************************************)
(* What utils/connector.py promises of each of its queues, without locks   *)
(* or events: messages come out once, in the order they went in, and a     *)
(* receive comes back empty-handed only if it had a timeout and there was  *)
(* nothing to take, or the connector was shut down.                        *)
(***************************************************************************)
EXTENDS Naturals, Sequences

CONSTANTS
    Chan,       \* the queues
    MaxSent     \* bound: messages sent into each

VARIABLES
    sent,       \* number of messages sent; the n-th message is n
    pending,    \* those not received yet
    receiving,  \* the receive under way: "no", "plain" or "timed"
    last,       \* what the last receive returned, 0 for None
    closed      \* shutdown() was called

vars == <<sent, pending, receiving, last, closed>>

Init ==
    /\ sent = [c \in Chan |-> 0]
    /\ pending = [c \in Chan |-> <<>>]
    /\ receiving = [c \in Chan |-> "no"]
    /\ last = [c \in Chan |-> 0]
    /\ closed = FALSE

Send(c) ==
    /\ sent[c] < MaxSent[c]
    /\ sent' = [sent EXCEPT ![c] = @ + 1]
    /\ pending' = [pending EXCEPT ![c] = Append(@, sent[c] + 1)]
    /\ UNCHANGED <<receiving, last, closed>>

Begin(c, kind) ==
    /\ receiving[c] = "no"
    /\ receiving' = [receiving EXCEPT ![c] = kind]
    /\ UNCHANGED <<sent, pending, last, closed>>

Deliver(c) ==
    /\ receiving[c] # "no" /\ pending[c] # <<>>
    /\ last' = [last EXCEPT ![c] = Head(pending[c])]
    /\ pending' = [pending EXCEPT ![c] = Tail(@)]
    /\ receiving' = [receiving EXCEPT ![c] = "no"]
    /\ UNCHANGED <<sent, closed>>

GiveUp(c) ==
    /\ \/ closed /\ receiving[c] # "no"
       \/ receiving[c] = "timed" /\ pending[c] = <<>>
    /\ last' = [last EXCEPT ![c] = 0]
    /\ receiving' = [receiving EXCEPT ![c] = "no"]
    /\ UNCHANGED <<sent, pending, closed>>

Close == closed' = TRUE /\ UNCHANGED <<sent, pending, receiving, last>>

Next ==
    \/ \E c \in Chan :
           \/ Send(c) \/ Deliver(c) \/ GiveUp(c)
           \/ \E kind \in {"plain", "timed"} : Begin(c, kind)
    \/ Close

Spec == Init /\ [][Next]_vars

=============================================================================
