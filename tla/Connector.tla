------------------------------ MODULE Connector ------------------------------
(***************************************************************************)
(* utils/connector.py step by step: the frontend thread and the agent      *)
(* thread inside the methods of the one Connector they share.  A queue is  *)
(* guarded by the lock; its event is waited for, and the shutdown flag and *)
(* the events are set by shutdown(), without the lock.                     *)
(*                                                                         *)
(* The messages of a queue are numbered in the order of their sending.     *)
(***************************************************************************)
EXTENDS Naturals, Sequences

CONSTANT MaxSent        \* bound: messages sent into each queue

Threads == {"frontend", "agent"}
Chan    == {"user", "agent", "req", "resp"}

\* send_user and send_control; send_assistant; request_approval;
\* send_approval_response - and the receives of the other thread.
Sender == [user |-> "frontend", agent |-> "agent",
           req |-> "agent", resp |-> "frontend"]

Receiver(c) == IF Sender[c] = "agent" THEN "frontend" ELSE "agent"

ASSUME ConnectorAssumption == MaxSent \in [Chan -> Nat]

Free == "free"          \* the lock is not held

VARIABLES
    queue,      \* the four deques
    event,      \* the four events
    down,       \* _shutdown
    lock,       \* the thread that holds _lock, or Free
    pc,         \* where each thread is; "out": in no method
    at,         \* the queue each thread works on
    timed,      \* whether the receive of each thread has a timeout
    sent,       \* messages sent into each queue
    last        \* what the last receive from each queue returned, 0 for None

vars == <<queue, event, down, lock, pc, at, timed, sent, last>>

Receiving == {"check", "wait", "take"}
Locked    == {"set", "test", "clear"}
Closing   == {"close user", "close agent", "close req", "close resp"}
Steps     == {"out"} \cup Receiving \cup Locked \cup Closing

TypeOK ==
    /\ queue \in [Chan -> Seq(Nat)]
    /\ event \in [Chan -> BOOLEAN]
    /\ down \in BOOLEAN
    /\ lock \in Threads \cup {Free}
    /\ pc \in [Threads -> Steps]
    /\ at \in [Threads -> Chan]
    /\ timed \in [Threads -> BOOLEAN]
    /\ sent \in [Chan -> Nat]
    /\ last \in [Chan -> Nat]

Init ==
    /\ queue = [c \in Chan |-> <<>>]
    /\ event = [c \in Chan |-> FALSE]
    /\ down = FALSE
    /\ lock = Free
    /\ pc = [t \in Threads |-> "out"]
    /\ at = [t \in Threads |-> "user"]
    /\ timed = [t \in Threads |-> FALSE]
    /\ sent = [c \in Chan |-> 0]
    /\ last = [c \in Chan |-> 0]

GoTo(t, step) == pc' = [pc EXCEPT ![t] = step] /\ UNCHANGED <<at, timed>>

Enter(t, step, c, withTimeout) ==
    /\ pc' = [pc EXCEPT ![t] = step]
    /\ at' = [at EXCEPT ![t] = c]
    /\ timed' = [timed EXCEPT ![t] = withTimeout]

Leave(t) == Enter(t, "out", "user", FALSE)

-----------------------------------------------------------------------------
(***************************************************************************)
(* Sending: append and set the event, both under the lock.                 *)
(***************************************************************************)

SendAppend(t, c) ==
    /\ pc[t] = "out" /\ Sender[c] = t /\ sent[c] < MaxSent[c]
    /\ lock = Free
    /\ lock' = t
    /\ sent' = [sent EXCEPT ![c] = @ + 1]
    /\ queue' = [queue EXCEPT ![c] = Append(@, sent[c] + 1)]
    /\ Enter(t, "set", c, FALSE)
    /\ UNCHANGED <<event, down, last>>

\* Mutant: the event is set only by the first message sent.
SendSetFirst(t) ==
    /\ pc[t] = "set"
    /\ event' = [event EXCEPT ![at[t]] = @ \/ sent[at[t]] = 1]
    /\ lock' = Free
    /\ Leave(t)
    /\ UNCHANGED <<queue, down, sent, last>>

SendSet(t) ==
    /\ pc[t] = "set"
    /\ event' = [event EXCEPT ![at[t]] = TRUE]
    /\ lock' = Free
    /\ Leave(t)
    /\ UNCHANGED <<queue, down, sent, last>>

-----------------------------------------------------------------------------
(***************************************************************************)
(* Receiving: look at the flag, wait for the event, and under the lock     *)
(* take the first message and clear the event behind the last.             *)
(***************************************************************************)

Call(t, c, withTimeout) ==
    /\ pc[t] = "out" /\ Receiver(c) = t
    /\ Enter(t, "check", c, withTimeout)
    /\ UNCHANGED <<queue, event, down, lock, sent, last>>

\* receive and receive_user start where a receive with a timeout goes on when
\* the time is up.
CallNonBlocking(t, c) ==
    /\ pc[t] = "out" /\ Receiver(c) = t /\ c \in {"agent", "user"}
    /\ Enter(t, "take", c, TRUE)
    /\ UNCHANGED <<queue, event, down, lock, sent, last>>

ReturnNone(t) ==
    /\ last' = [last EXCEPT ![at[t]] = 0]
    /\ Leave(t)

Check(t) ==
    /\ pc[t] = "check"
    /\ \/ down /\ ReturnNone(t)
       \/ ~down /\ GoTo(t, "wait") /\ UNCHANGED last
    /\ UNCHANGED <<queue, event, down, lock, sent>>

\* The event is set, or the time is up.
Wake(t) ==
    /\ pc[t] = "wait"
    /\ event[at[t]] \/ timed[t]
    /\ GoTo(t, "take")
    /\ UNCHANGED <<queue, event, down, lock, sent, last>>

\* Mutant: the youngest message is taken (pop for popleft).
TakeYoungest(t) ==
    /\ pc[t] = "take" /\ lock = Free /\ queue[at[t]] # <<>>
    /\ lock' = t
    /\ last' = [last EXCEPT ![at[t]] = queue[at[t]][Len(queue[at[t]])]]
    /\ queue' = [queue EXCEPT ![at[t]] = SubSeq(@, 1, Len(@) - 1)]
    /\ GoTo(t, "test")
    /\ UNCHANGED <<event, down, sent>>

Take(t) ==
    /\ pc[t] = "take" /\ lock = Free /\ queue[at[t]] # <<>>
    /\ lock' = t
    /\ last' = [last EXCEPT ![at[t]] = Head(queue[at[t]])]
    /\ queue' = [queue EXCEPT ![at[t]] = Tail(@)]
    /\ GoTo(t, "test")
    /\ UNCHANGED <<event, down, sent>>

\* Mutant: the empty queue is seen under the lock, the event cleared after it.
TestAndUnlock(t) ==
    /\ pc[t] = "test"
    /\ lock' = Free
    /\ \/ queue[at[t]] # <<>> /\ Leave(t)
       \/ queue[at[t]] = <<>> /\ GoTo(t, "clear")
    /\ UNCHANGED <<queue, event, down, sent, last>>

Test(t) ==
    /\ pc[t] = "test"
    /\ \/ queue[at[t]] # <<>> /\ lock' = Free /\ Leave(t)
       \/ queue[at[t]] = <<>> /\ UNCHANGED lock /\ GoTo(t, "clear")
    /\ UNCHANGED <<queue, event, down, sent, last>>

\* Mutant: the event stays set.
ClearNever(t) ==
    /\ pc[t] = "clear"
    /\ lock' = Free
    /\ Leave(t)
    /\ UNCHANGED <<queue, event, down, sent, last>>

Clear(t) ==
    /\ pc[t] = "clear"
    /\ event' = [event EXCEPT ![at[t]] = FALSE]
    /\ lock' = Free
    /\ Leave(t)
    /\ UNCHANGED <<queue, down, sent, last>>

\* Nothing there: a receive with a timeout is over, another starts again.
TakeNothing(t) ==
    /\ pc[t] = "take" /\ lock = Free /\ queue[at[t]] = <<>>
    /\ \/ timed[t] /\ ReturnNone(t)
       \/ ~timed[t] /\ GoTo(t, "check") /\ UNCHANGED last
    /\ UNCHANGED <<queue, event, down, lock, sent>>

-----------------------------------------------------------------------------
(***************************************************************************)
(* shutdown(), run by the frontend: the flag, then the events one by one.  *)
(***************************************************************************)

RaiseFlag(t) ==
    /\ t = "frontend" /\ pc[t] = "out" /\ ~down
    /\ down' = TRUE
    /\ GoTo(t, "close user")
    /\ UNCHANGED <<queue, event, lock, sent, last>>

RaiseEvent(t, c, step) ==
    /\ pc[t] = step
    /\ event' = [event EXCEPT ![c] = TRUE]
    /\ UNCHANGED <<queue, down, lock, sent, last>>

\* Mutant: the last queue added was forgotten here.
CloseFewer(t) ==
    \/ RaiseEvent(t, "user", "close user") /\ GoTo(t, "close agent")
    \/ RaiseEvent(t, "agent", "close agent") /\ GoTo(t, "close req")
    \/ RaiseEvent(t, "req", "close req") /\ Leave(t)

Close(t) ==
    \/ RaiseEvent(t, "user", "close user") /\ GoTo(t, "close agent")
    \/ RaiseEvent(t, "agent", "close agent") /\ GoTo(t, "close req")
    \/ RaiseEvent(t, "req", "close req") /\ GoTo(t, "close resp")
    \/ RaiseEvent(t, "resp", "close resp") /\ Leave(t)

-----------------------------------------------------------------------------

Begin(t) ==
    \/ \E c \in Chan :
           \/ SendAppend(t, c)
           \/ \E withTimeout \in BOOLEAN : Call(t, c, withTimeout)
           \/ CallNonBlocking(t, c)
    \/ RaiseFlag(t)

Continue(t) ==
    \/ SendSet(t)
    \/ Check(t) \/ Wake(t) \/ TakeNothing(t)
    \/ Take(t) \/ Test(t) \/ Clear(t)
    \/ Close(t)

Next == \E t \in Threads : Begin(t) \/ Continue(t)

Spec == Init /\ [][Next]_vars

\* A thread inside a method is scheduled; that no other thread takes the lock
\* before it again and again follows from the bound on the messages.
FairSpec == Spec /\ \A t \in Threads : WF_vars(Continue(t))

-----------------------------------------------------------------------------
(***************************************************************************)
(* Properties.                                                             *)
(***************************************************************************)

\* The promise of module FifoChannel, a message being delivered when it
\* leaves its deque (utils/connector.py:141-173).
ReceivingFrom(c) ==
    IF at[Receiver(c)] = c /\ pc[Receiver(c)] \in Receiving
    THEN IF timed[Receiver(c)] THEN "timed" ELSE "plain"
    ELSE "no"

Receives == [c \in Chan |-> ReceivingFrom(c)]

Fifo == INSTANCE FifoChannel WITH
            sent <- sent, pending <- queue, receiving <- Receives,
            last <- last, closed <- down

\* No message is lost, doubled, reordered, or withheld from a receive.
DeliversInOrder == Fifo!Spec

\* What holds of a thread in a method: the queue is one it may work on there,
\* and a locked region finds the queue as it left it.
LockInv == \A t \in Threads : lock = t <=> pc[t] \in Locked

Place(t) ==
    /\ pc[t] = "set" => Sender[at[t]] = t /\ queue[at[t]] # <<>>
    /\ pc[t] \in Receiving \cup {"test", "clear"} => Receiver(at[t]) = t
    /\ pc[t] = "clear" => queue[at[t]] = <<>>
    /\ pc[t] \in Closing => t = "frontend" /\ down

PlaceInv == \A t \in Threads : Place(t)

\* No wakeup is lost: a queue with messages has its event set, but for the
\* moment between append and set (utils/connector.py:78-85 and 165-170).
WakeupInv ==
    \A c \in Chan :
        queue[c] # <<>> =>
            \/ event[c]
            \/ \E t \in Threads : pc[t] = "set" /\ at[t] = c

\* Nor is one made up: before shutdown() a set event means a message, so a
\* waiting receive does not spin.
NoSpinning ==
    ~down =>
        \A c \in Chan :
            event[c] =>
                \/ queue[c] # <<>>
                \/ \E t \in Threads : pc[t] \in {"test", "clear"} /\ at[t] = c

\* The invariant that every step preserves.
ConnectorInv == TypeOK /\ LockInv /\ PlaceInv /\ WakeupInv /\ NoSpinning

\* A receive for which there is a message comes back.
MessageEndsReceive ==
    \A c \in Chan :
        ReceivingFrom(c) # "no" /\ queue[c] # <<>> ~> ReceivingFrom(c) = "no"

\* After shutdown() every receive comes back, one begun while it was under
\* way too ("unblock all blocking receivers", utils/connector.py:64).
ShutdownEndsReceive ==
    \A c \in Chan : down /\ ReceivingFrom(c) # "no" ~> ReceivingFrom(c) = "no"

=============================================================================
