--------------------------- MODULE Connector_proofs ---------------------------
(***************************************************************************)
(* No wakeup is lost, for any number of messages, and the connector keeps  *)
(* the promise of FifoChannel.                                             *)
(***************************************************************************)
EXTENDS Connector, SequenceTheorems, TLAPS

LEMMA StepNames ==
    {"out", "check", "wait", "take", "set", "test", "clear", "close user",
     "close agent", "close req", "close resp"} = Steps
BY DEF Steps, Receiving, Locked, Closing

\* Every queue has one thread at each end.
LEMMA Ends ==
    /\ Sender \in [Chan -> Threads]
    /\ \A c \in Chan : Receiver(c) \in Threads /\ Receiver(c) # Sender[c]
BY DEF Sender, Receiver, Chan, Threads

\* An update of a function by thread or queue keeps its type.
LEMMA UpdateType ==
    ASSUME NEW S, NEW V, NEW f \in [S -> V], NEW x \in S, NEW v \in V
    PROVE  /\ [f EXCEPT ![x] = v] \in [S -> V]
           /\ [f EXCEPT ![x] = v][x] = v
           /\ \A y \in S : y # x => [f EXCEPT ![x] = v][y] = f[y]
OBVIOUS

LEMMA HeadAndTail ==
    ASSUME NEW S, NEW q \in Seq(S), q # <<>>
    PROVE  Head(q) \in S /\ Tail(q) \in Seq(S)
OBVIOUS

LEMMA LeaveIn == "user" \in Chan /\ FALSE \in BOOLEAN
BY DEF Chan

LEMMA EnterType ==
    ASSUME TypeOK, NEW t \in Threads, NEW c \in Chan, NEW b \in BOOLEAN,
           NEW step \in Steps,
           Enter(t, step, c, b)
    PROVE  /\ pc' \in [Threads -> Steps]
           /\ at' \in [Threads -> Chan]
           /\ timed' \in [Threads -> BOOLEAN]
           /\ pc'[t] = step /\ at'[t] = c /\ timed'[t] = b
           /\ \A u \in Threads : u # t =>
                  pc'[u] = pc[u] /\ at'[u] = at[u] /\ timed'[u] = timed[u]
BY UpdateType DEF TypeOK, Enter

LEMMA GoToType ==
    ASSUME TypeOK, NEW t \in Threads,
           NEW step \in Steps,
           GoTo(t, step)
    PROVE  /\ pc' \in [Threads -> Steps]
           /\ at' \in [Threads -> Chan]
           /\ timed' \in [Threads -> BOOLEAN]
           /\ pc'[t] = step /\ at' = at /\ timed' = timed
           /\ \A u \in Threads : u # t => pc'[u] = pc[u]
BY UpdateType DEF TypeOK, GoTo

-----------------------------------------------------------------------------

LEMMA TypeStep ==
    ASSUME TypeOK, [Next]_vars
    PROVE  TypeOK'
<1> USE StepNames, LeaveIn
<1>1. ASSUME NEW t \in Threads, NEW c \in Chan, SendAppend(t, c)
      PROVE  TypeOK'
  <2>1. Enter(t, "set", c, FALSE)
    BY <1>1 DEF SendAppend
  <2>2. /\ pc' \in [Threads -> Steps]
        /\ at' \in [Threads -> Chan]
        /\ timed' \in [Threads -> BOOLEAN]
    BY <2>1, EnterType
  <2>3. queue' \in [Chan -> Seq(Nat)] /\ sent' \in [Chan -> Nat]
    <3>1. queue \in [Chan -> Seq(Nat)] /\ sent \in [Chan -> Nat]
      BY Zenon DEF TypeOK
    <3>2. sent[c] + 1 \in Nat /\ Append(queue[c], sent[c] + 1) \in Seq(Nat)
      <4>1. sent[c] \in Nat /\ queue[c] \in Seq(Nat)
        BY ONLY <3>1, c \in Chan
      <4>2. sent[c] + 1 \in Nat
        BY ONLY <4>1
      <4>3. QED
        BY ONLY <4>1, <4>2
    <3>3. /\ queue' = [queue EXCEPT ![c] = Append(queue[c], sent[c] + 1)]
          /\ sent' = [sent EXCEPT ![c] = sent[c] + 1]
      BY <1>1 DEF SendAppend
    <3>4. QED
      BY <3>1, <3>2, <3>3, UpdateType, Zenon
  <2>4. event' = event /\ down' = down /\ last' = last /\ lock' = t
    BY <1>1 DEF SendAppend
  <2>5. QED
    BY <2>1, <2>2, <2>3, <2>4, Zenon DEF TypeOK
<1>2. ASSUME NEW t \in Threads, SendSet(t)
      PROVE  TypeOK'
  <2>1. Enter(t, "out", "user", FALSE)
    BY <1>2 DEF SendSet, Leave
  <2>2. /\ pc' \in [Threads -> Steps]
        /\ at' \in [Threads -> Chan]
        /\ timed' \in [Threads -> BOOLEAN]
    BY <2>1, EnterType
  <2>3. event' \in [Chan -> BOOLEAN]
    BY <1>2 DEF SendSet, TypeOK
  <2>4. queue' = queue /\ down' = down /\ sent' = sent /\ last' = last /\ lock' = Free
    BY <1>2 DEF SendSet
  <2>5. QED
    BY <2>1, <2>2, <2>3, <2>4, Zenon DEF TypeOK
<1>3. ASSUME NEW t \in Threads, NEW c \in Chan, NEW b \in BOOLEAN, Call(t, c, b)
      PROVE  TypeOK'
  <2>1. Enter(t, "check", c, b)
    BY <1>3 DEF Call
  <2>2. /\ pc' \in [Threads -> Steps]
        /\ at' \in [Threads -> Chan]
        /\ timed' \in [Threads -> BOOLEAN]
    BY <2>1, EnterType
  <2>3. UNCHANGED <<queue, event, down, lock, sent, last>>
    BY <1>3 DEF Call
  <2>4. QED
    BY <2>1, <2>2, <2>3, Zenon DEF TypeOK
<1>4. ASSUME NEW t \in Threads, NEW c \in Chan, CallNonBlocking(t, c)
      PROVE  TypeOK'
  <2>1. Enter(t, "take", c, TRUE)
    BY <1>4 DEF CallNonBlocking
  <2>2. /\ pc' \in [Threads -> Steps]
        /\ at' \in [Threads -> Chan]
        /\ timed' \in [Threads -> BOOLEAN]
    BY <2>1, EnterType
  <2>3. UNCHANGED <<queue, event, down, lock, sent, last>>
    BY <1>4 DEF CallNonBlocking
  <2>4. QED
    BY <2>1, <2>2, <2>3, Zenon DEF TypeOK
<1>5. ASSUME NEW t \in Threads, Check(t)
      PROVE  TypeOK'
  <2>1. Leave(t) \/ GoTo(t, "wait")
    BY <1>5 DEF Check, ReturnNone
  <2>2. /\ pc' \in [Threads -> Steps]
        /\ at' \in [Threads -> Chan]
        /\ timed' \in [Threads -> BOOLEAN]
    BY <2>1, EnterType, GoToType DEF Leave
  <2>3. last' \in [Chan -> Nat]
    <3>1. last' = last \/ last' = [last EXCEPT ![at[t]] = 0]
      BY <1>5 DEF Check, ReturnNone
    <3>2. at[t] \in Chan /\ last \in [Chan -> Nat]
      BY Zenon DEF TypeOK
    <3>3. QED
      BY ONLY <3>1, <3>2, UpdateType, 0 \in Nat
  <2>4. UNCHANGED <<queue, event, down, lock, sent>>
    BY <1>5 DEF Check
  <2>5. QED
    BY <2>1, <2>2, <2>3, <2>4, Zenon DEF TypeOK
<1>6. ASSUME NEW t \in Threads, Wake(t)
      PROVE  TypeOK'
  <2>1. GoTo(t, "take")
    BY <1>6 DEF Wake
  <2>2. /\ pc' \in [Threads -> Steps]
        /\ at' \in [Threads -> Chan]
        /\ timed' \in [Threads -> BOOLEAN]
    BY <2>1, GoToType
  <2>3. UNCHANGED <<queue, event, down, lock, sent, last>>
    BY <1>6 DEF Wake
  <2>4. QED
    BY <2>1, <2>2, <2>3, Zenon DEF TypeOK
<1>7. ASSUME NEW t \in Threads, Take(t)
      PROVE  TypeOK'
  <2>1. GoTo(t, "test")
    BY <1>7 DEF Take
  <2>2. /\ pc' \in [Threads -> Steps]
        /\ at' \in [Threads -> Chan]
        /\ timed' \in [Threads -> BOOLEAN]
    BY <2>1, GoToType
  <2>3. Head(queue[at[t]]) \in Nat /\ Tail(queue[at[t]]) \in Seq(Nat)
    BY <1>7, HeadAndTail DEF Take, TypeOK
  <2>4. queue' \in [Chan -> Seq(Nat)] /\ last' \in [Chan -> Nat]
    BY <1>7, <2>3 DEF Take, TypeOK
  <2>5. UNCHANGED <<event, down, sent>> /\ lock' = t
    BY <1>7 DEF Take
  <2>6. QED
    BY <2>1, <2>2, <2>3, <2>4, <2>5, Zenon DEF TypeOK
<1>8. ASSUME NEW t \in Threads, Test(t)
      PROVE  TypeOK'
  <2>1. Leave(t) \/ GoTo(t, "clear")
    BY <1>8 DEF Test
  <2>2. /\ pc' \in [Threads -> Steps]
        /\ at' \in [Threads -> Chan]
        /\ timed' \in [Threads -> BOOLEAN]
    BY <2>1, EnterType, GoToType DEF Leave
  <2>3. lock' \in {lock, Free}
    BY <1>8 DEF Test
  <2>4. UNCHANGED <<queue, event, down, sent, last>>
    BY <1>8 DEF Test
  <2>5. QED
    BY <2>1, <2>2, <2>3, <2>4, Zenon DEF TypeOK
<1>9. ASSUME NEW t \in Threads, Clear(t)
      PROVE  TypeOK'
  <2>1. Enter(t, "out", "user", FALSE)
    BY <1>9 DEF Clear, Leave
  <2>2. /\ pc' \in [Threads -> Steps]
        /\ at' \in [Threads -> Chan]
        /\ timed' \in [Threads -> BOOLEAN]
    BY <2>1, EnterType
  <2>3. event' \in [Chan -> BOOLEAN]
    BY <1>9 DEF Clear, TypeOK
  <2>4. UNCHANGED <<queue, down, sent, last>> /\ lock' = Free
    BY <1>9 DEF Clear
  <2>5. QED
    BY <2>1, <2>2, <2>3, <2>4, Zenon DEF TypeOK
<1>10. ASSUME NEW t \in Threads, TakeNothing(t)
       PROVE  TypeOK'
  <2>1. Leave(t) \/ GoTo(t, "check")
    BY <1>10 DEF TakeNothing, ReturnNone
  <2>2. /\ pc' \in [Threads -> Steps]
        /\ at' \in [Threads -> Chan]
        /\ timed' \in [Threads -> BOOLEAN]
    BY <2>1, EnterType, GoToType DEF Leave
  <2>3. last' \in [Chan -> Nat]
    <3>1. last' = last \/ last' = [last EXCEPT ![at[t]] = 0]
      BY <1>10 DEF TakeNothing, ReturnNone
    <3>2. at[t] \in Chan /\ last \in [Chan -> Nat]
      BY Zenon DEF TypeOK
    <3>3. QED
      BY ONLY <3>1, <3>2, UpdateType, 0 \in Nat
  <2>4. UNCHANGED <<queue, event, down, lock, sent>>
    BY <1>10 DEF TakeNothing
  <2>5. QED
    BY <2>1, <2>2, <2>3, <2>4, Zenon DEF TypeOK
<1>11. ASSUME NEW t \in Threads, RaiseFlag(t)
       PROVE  TypeOK'
  <2>1. GoTo(t, "close user")
    BY <1>11 DEF RaiseFlag
  <2>2. /\ pc' \in [Threads -> Steps]
        /\ at' \in [Threads -> Chan]
        /\ timed' \in [Threads -> BOOLEAN]
    BY <2>1, GoToType
  <2>3. UNCHANGED <<queue, event, lock, sent, last>> /\ down' = TRUE
    BY <1>11 DEF RaiseFlag
  <2>4. QED
    BY <2>1, <2>2, <2>3, Zenon DEF TypeOK
<1>12. ASSUME NEW t \in Threads, Close(t)
       PROVE  TypeOK'
  <2>1. \/ Leave(t)
        \/ \E step \in Steps : GoTo(t, step)
    BY <1>12 DEF Close
  <2>2. /\ pc' \in [Threads -> Steps]
        /\ at' \in [Threads -> Chan]
        /\ timed' \in [Threads -> BOOLEAN]
    BY <2>1, EnterType, GoToType DEF Leave
  <2>3. event' \in [Chan -> BOOLEAN]
    BY <1>12 DEF Close, RaiseEvent, TypeOK, Chan
  <2>4. UNCHANGED <<queue, down, lock, sent, last>>
    BY <1>12 DEF Close, RaiseEvent
  <2>5. QED
    BY <2>1, <2>2, <2>3, <2>4, Zenon DEF TypeOK
<1>13. CASE UNCHANGED vars
  BY <1>13 DEF vars, TypeOK
<1>14. QED
  BY <1>1, <1>2, <1>3, <1>4, <1>5, <1>6, <1>7, <1>8, <1>9, <1>10, <1>11,
     <1>12, <1>13, Zenon DEF Next, Begin, Continue

-----------------------------------------------------------------------------

\* What moving one thread leaves of the others.
Others(t) ==
    \A u \in Threads \ {t} :
        pc'[u] = pc[u] /\ at'[u] = at[u] /\ timed'[u] = timed[u]

LEMMA EnterMoves ==
    ASSUME TypeOK, NEW t \in Threads, NEW step, NEW c, NEW b,
           Enter(t, step, c, b)
    PROVE  pc'[t] = step /\ at'[t] = c /\ timed'[t] = b /\ Others(t)
<1>1. /\ pc' = [pc EXCEPT ![t] = step] /\ at' = [at EXCEPT ![t] = c]
      /\ timed' = [timed EXCEPT ![t] = b]
      /\ pc \in [Threads -> Steps] /\ at \in [Threads -> Chan]
      /\ timed \in [Threads -> BOOLEAN]
  BY Zenon DEF Enter, TypeOK
<1>2. QED
  BY ONLY <1>1, t \in Threads DEF Others

LEMMA GoToMoves ==
    ASSUME TypeOK, NEW t \in Threads, NEW step, GoTo(t, step)
    PROVE  pc'[t] = step /\ at' = at /\ timed' = timed /\ Others(t)
<1>1. /\ pc' = [pc EXCEPT ![t] = step] /\ at' = at /\ timed' = timed
      /\ pc \in [Threads -> Steps]
  BY Zenon DEF GoTo, TypeOK
<1>2. QED
  BY ONLY <1>1, t \in Threads DEF Others

\* A step that touches no locked region but that of t leaves the others in
\* their places.
LEMMA OthersStay ==
    ASSUME ConnectorInv, NEW t \in Threads, Others(t),
           lock \in {t, Free} \/ queue' = queue,
           down' = down \/ down'
    PROVE  \A u \in Threads : u # t => Place(u)'
<1>1. TypeOK /\ LockInv /\ PlaceInv
  BY Zenon DEF ConnectorInv
<1>2. SUFFICES ASSUME NEW u \in Threads, u # t
               PROVE  Place(u)'
  OBVIOUS
<1>3. Place(u) /\ pc'[u] = pc[u] /\ at'[u] = at[u]
  BY <1>1, <1>2, Zenon DEF PlaceInv, Others
<1>4. pc[u] \in Locked => queue' = queue
  BY <1>1, <1>2 DEF LockInv, Threads, Free
<1>5. QED
  BY ONLY <1>3, <1>4, down' = down \/ down'
     DEF Place, Locked, Receiving, Closing

\* A step that takes no event back keeps the wakeups.
LEMMA WakeupsKept ==
    ASSUME WakeupInv, NEW t \in Threads, Others(t), pc[t] # "set",
           queue' = queue, \A d \in Chan : event[d] => event'[d]
    PROVE  WakeupInv'
<1>1. SUFFICES ASSUME NEW d \in Chan, queue[d] # <<>>
               PROVE  \/ event'[d]
                      \/ \E u \in Threads : pc'[u] = "set" /\ at'[u] = d
  BY Zenon DEF WakeupInv
<1>2. CASE event[d]
  BY <1>2, Zenon
<1>3. CASE \E u \in Threads : pc[u] = "set" /\ at[u] = d
  BY <1>3, Zenon DEF Others
<1>4. QED
  BY <1>1, <1>2, <1>3, Zenon DEF WakeupInv

\* Steps that touch neither queue nor event nor lock nor flag.
LEMMA QuietMove ==
    ASSUME ConnectorInv, NEW t \in Threads, Others(t),
           UNCHANGED <<queue, event, down, lock>>,
           pc[t] \in {"out"} \cup Receiving,
           pc'[t] \in {"out"} \cup Receiving,
           pc'[t] \in Receiving => Receiver(at'[t]) = t
    PROVE  LockInv' /\ PlaceInv' /\ WakeupInv' /\ NoSpinning'
<1>1. TypeOK /\ LockInv /\ PlaceInv /\ WakeupInv /\ NoSpinning
  BY Zenon DEF ConnectorInv
<1>2. pc[t] \notin Locked /\ pc'[t] \notin Locked
  BY DEF Receiving, Locked
<1>3. queue' = queue /\ event' = event /\ down' = down /\ lock' = lock
  OBVIOUS
<1>4. LockInv'
  BY ONLY <1>1, <1>2, <1>3, Others(t), t \in Threads DEF LockInv, Others
<1>5. Place(t)'
  BY ONLY <1>2, pc'[t] \in {"out"} \cup Receiving,
          pc'[t] \in Receiving => Receiver(at'[t]) = t
     DEF Place, Receiving, Locked, Closing
<1>6. PlaceInv'
  BY <1>3, <1>5, OthersStay DEF PlaceInv
<1>7. WakeupInv'
  BY ONLY <1>1, <1>2, <1>3, Others(t), t \in Threads
     DEF WakeupInv, Others, Locked
<1>8. NoSpinning'
  BY ONLY <1>1, <1>2, <1>3, Others(t), t \in Threads
     DEF NoSpinning, Others, Locked
<1>9. QED
  BY <1>4, <1>6, <1>7, <1>8

LEMMA InvStep ==
    ASSUME ConnectorInv, [Next]_vars
    PROVE  LockInv' /\ PlaceInv' /\ WakeupInv' /\ NoSpinning'
<1> USE StepNames, LeaveIn, Ends
<1> DEFINE Goal == LockInv' /\ PlaceInv' /\ WakeupInv' /\ NoSpinning'
<1>0. TypeOK /\ LockInv /\ PlaceInv /\ WakeupInv /\ NoSpinning
  BY Zenon DEF ConnectorInv
<1>1. ASSUME NEW t \in Threads, NEW c \in Chan, SendAppend(t, c)
      PROVE  Goal
  <2>1. pc[t] = "out" /\ Sender[c] = t /\ lock = Free /\ lock' = t
    BY <1>1 DEF SendAppend
  <2>2. Enter(t, "set", c, FALSE)
    BY <1>1 DEF SendAppend
  <2>3. pc'[t] = "set" /\ at'[t] = c /\ Others(t)
    BY <1>0, <2>2, EnterMoves, Zenon
  <2>4. queue'[c] # <<>> /\ \A d \in Chan : d # c => queue'[d] = queue[d]
    <3>1. queue \in [Chan -> Seq(Nat)] /\ sent[c] \in Nat
      BY <1>0, Zenon DEF TypeOK
    <3>2. queue' = [queue EXCEPT ![c] = Append(queue[c], sent[c] + 1)]
      BY <1>1 DEF SendAppend
    <3>3. Append(queue[c], sent[c] + 1) # <<>>
      <4>1. queue[c] \in Seq(Nat) /\ sent[c] + 1 \in Nat
        BY ONLY <3>1, c \in Chan
      <4>2. QED
        BY ONLY <4>1, AppendProperties, ZenonT(60)
    <3>4. QED
      BY ONLY <3>1, <3>2, <3>3, c \in Chan
  <2>5. event' = event /\ down' = down
    BY <1>1 DEF SendAppend
  <2>6. LockInv'
    BY ONLY <1>0, <2>1, <2>3 DEF LockInv, Locked, Others, Threads, Free
  <2>7. Place(t)'
    BY ONLY <2>1, <2>3, <2>4 DEF Place, Receiving, Closing
  <2>8. PlaceInv'
    BY <2>1, <2>3, <2>5, <2>7, OthersStay DEF PlaceInv
  <2>9. WakeupInv'
    BY ONLY <1>0, <2>1, <2>3, <2>4, <2>5 DEF WakeupInv, Others
  <2>10. NoSpinning'
    BY ONLY <1>0, <2>1, <2>3, <2>4, <2>5 DEF NoSpinning, Others
  <2>11. QED
    BY <2>6, <2>8, <2>9, <2>10
<1>2. ASSUME NEW t \in Threads, SendSet(t)
      PROVE  Goal
  <2>1. pc[t] = "set" /\ lock' = Free /\ queue' = queue /\ down' = down
    BY <1>2 DEF SendSet
  <2>2. lock = t /\ at[t] \in Chan /\ queue[at[t]] # <<>>
    <3>1. lock = t
      BY ONLY <1>0, <2>1, t \in Threads DEF LockInv, Locked
    <3>2. at[t] \in Chan
      BY <1>0, Zenon DEF TypeOK
    <3>3. queue[at[t]] # <<>>
      BY ONLY <1>0, <2>1, t \in Threads DEF PlaceInv, Place
    <3>4. QED
      BY <3>1, <3>2, <3>3
  <2>3. Enter(t, "out", "user", FALSE)
    BY <1>2 DEF SendSet, Leave
  <2>4. pc'[t] = "out" /\ Others(t)
    BY <1>0, <2>3, EnterMoves, Zenon
  <2>5. event'[at[t]] /\ \A d \in Chan : d # at[t] => event'[d] = event[d]
    <3>1. event' = [event EXCEPT ![at[t]] = TRUE]
      BY <1>2 DEF SendSet
    <3>2. event \in [Chan -> BOOLEAN]
      BY <1>0, Zenon DEF TypeOK
    <3>3. QED
      BY ONLY <2>2, <3>1, <3>2
  <2>6. LockInv'
    BY ONLY <1>0, <2>1, <2>2, <2>4, t \in Threads
       DEF LockInv, Locked, Others, Threads, Free
  <2>7. Place(t)'
    BY ONLY <2>4 DEF Place, Receiving, Closing
  <2>8. PlaceInv'
    BY <2>1, <2>4, <2>7, OthersStay DEF PlaceInv
  <2>9. WakeupInv'
    BY ONLY <1>0, <2>1, <2>2, <2>4, <2>5 DEF WakeupInv, Others
  <2>10. NoSpinning'
    BY ONLY <1>0, <2>1, <2>2, <2>4, <2>5 DEF NoSpinning, Others
  <2>11. QED
    BY <2>6, <2>8, <2>9, <2>10
<1>3. ASSUME NEW t \in Threads, NEW c \in Chan, NEW b \in BOOLEAN, Call(t, c, b)
      PROVE  Goal
  <2>1. UNCHANGED <<queue, event, down, lock>>
    BY <1>3 DEF Call
  <2>2. pc[t] = "out" /\ Receiver(c) = t /\ Enter(t, "check", c, b)
    BY <1>3 DEF Call
  <2>3. pc'[t] = "check" /\ at'[t] = c /\ Others(t)
    BY <1>0, <2>2, EnterMoves, Zenon
  <2>4. "check" \in Receiving
    BY DEF Receiving
  <2>5. QED
    BY <2>1, <2>2, <2>3, <2>4, QuietMove
<1>4. ASSUME NEW t \in Threads, NEW c \in Chan, CallNonBlocking(t, c)
      PROVE  Goal
  <2>1. UNCHANGED <<queue, event, down, lock>>
    BY <1>4 DEF CallNonBlocking
  <2>2. pc[t] = "out" /\ Receiver(c) = t /\ Enter(t, "take", c, TRUE)
    BY <1>4 DEF CallNonBlocking
  <2>3. pc'[t] = "take" /\ at'[t] = c /\ Others(t)
    BY <1>0, <2>2, EnterMoves, Zenon
  <2>4. "take" \in Receiving
    BY DEF Receiving
  <2>5. QED
    BY <2>1, <2>2, <2>3, <2>4, QuietMove
<1>5. ASSUME NEW t \in Threads, Check(t)
      PROVE  Goal
  <2>1. UNCHANGED <<queue, event, down, lock>>
    BY <1>5 DEF Check
  <2>2. pc[t] = "check" /\ "check" \in Receiving /\ "wait" \in Receiving
    BY <1>5 DEF Check, Receiving
  <2>3. Others(t) /\ (pc'[t] = "out" \/ (pc'[t] = "wait" /\ at' = at))
    <3>1. Leave(t) \/ GoTo(t, "wait")
      BY <1>5 DEF Check, ReturnNone
    <3>2. CASE Leave(t)
      BY <1>0, <3>2, EnterMoves, Zenon DEF Leave
    <3>3. CASE GoTo(t, "wait")
      BY <1>0, <3>3, GoToMoves, Zenon
    <3>4. QED
      BY <3>1, <3>2, <3>3
  <2>4. "out" \notin Receiving /\ Receiver(at[t]) = t
    BY ONLY <1>0, <2>2, t \in Threads DEF PlaceInv, Place, Receiving
  <2>5. QED
    BY <2>1, <2>2, <2>3, <2>4, QuietMove
<1>6. ASSUME NEW t \in Threads, Wake(t)
      PROVE  Goal
  <2>1. UNCHANGED <<queue, event, down, lock>>
    BY <1>6 DEF Wake
  <2>2. pc[t] = "wait" /\ "wait" \in Receiving /\ "take" \in Receiving
    BY <1>6 DEF Wake, Receiving
  <2>3. Others(t) /\ (pc'[t] = "out" \/ (pc'[t] = "take" /\ at' = at))
    <3>1. Leave(t) \/ GoTo(t, "take")
      BY <1>6 DEF Wake
    <3>2. CASE Leave(t)
      BY <1>0, <3>2, EnterMoves, Zenon DEF Leave
    <3>3. CASE GoTo(t, "take")
      BY <1>0, <3>3, GoToMoves, Zenon
    <3>4. QED
      BY <3>1, <3>2, <3>3
  <2>4. "out" \notin Receiving /\ Receiver(at[t]) = t
    BY ONLY <1>0, <2>2, t \in Threads DEF PlaceInv, Place, Receiving
  <2>5. QED
    BY <2>1, <2>2, <2>3, <2>4, QuietMove
<1>7. ASSUME NEW t \in Threads, Take(t)
      PROVE  Goal
  <2>1. /\ pc[t] = "take" /\ lock = Free /\ lock' = t /\ GoTo(t, "test")
        /\ event' = event /\ down' = down /\ queue[at[t]] # <<>>
    BY <1>7 DEF Take
  <2>2. at[t] \in Chan /\ Receiver(at[t]) = t
    <3>1. at[t] \in Chan
      BY <1>0, Zenon DEF TypeOK
    <3>2. Receiver(at[t]) = t
      BY ONLY <1>0, <2>1, t \in Threads DEF PlaceInv, Place, Receiving
    <3>3. QED
      BY <3>1, <3>2
  <2>3. pc'[t] = "test" /\ at'[t] = at[t] /\ Others(t)
    BY <1>0, <2>1, GoToMoves, Zenon
  <2>4. \A d \in Chan : d # at[t] => queue'[d] = queue[d]
    <3>1. queue' = [queue EXCEPT ![at[t]] = Tail(queue[at[t]])]
      BY <1>7 DEF Take
    <3>2. queue \in [Chan -> Seq(Nat)]
      BY <1>0, Zenon DEF TypeOK
    <3>3. QED
      BY ONLY <3>1, <3>2
  <2>5. LockInv'
    BY ONLY <1>0, <2>1, <2>3, t \in Threads
       DEF LockInv, Locked, Others, Threads, Free
  <2>6. Place(t)'
    BY ONLY <2>2, <2>3 DEF Place, Receiving, Closing
  <2>7. PlaceInv'
    BY <2>1, <2>3, <2>6, OthersStay DEF PlaceInv
  <2>8. WakeupInv'
    BY ONLY <1>0, <2>1, <2>2, <2>3, <2>4 DEF WakeupInv, Others
  <2>9. NoSpinning'
    BY ONLY <1>0, <2>1, <2>2, <2>3, <2>4 DEF NoSpinning, Others
  <2>10. QED
    BY <2>5, <2>7, <2>8, <2>9
<1>8. ASSUME NEW t \in Threads, Test(t)
      PROVE  Goal
  <2>1. /\ pc[t] = "test"
        /\ queue' = queue /\ event' = event /\ down' = down
    BY <1>8 DEF Test
  <2>2. lock = t /\ at[t] \in Chan /\ Receiver(at[t]) = t
    <3>1. lock = t
      BY ONLY <1>0, <2>1, t \in Threads DEF LockInv, Locked
    <3>2. at[t] \in Chan
      BY <1>0, Zenon DEF TypeOK
    <3>3. Receiver(at[t]) = t
      BY ONLY <1>0, <2>1, t \in Threads DEF PlaceInv, Place
    <3>4. QED
      BY <3>1, <3>2, <3>3
  <2>3. /\ Others(t)
        /\ \/ queue[at[t]] # <<>> /\ lock' = Free /\ pc'[t] = "out"
           \/ /\ queue[at[t]] = <<>> /\ lock' = lock
              /\ pc'[t] = "clear" /\ at'[t] = at[t]
    <3>1. CASE queue[at[t]] # <<>> /\ lock' = Free /\ Leave(t)
      BY <1>0, <3>1, EnterMoves, Zenon DEF Leave
    <3>2. CASE queue[at[t]] = <<>> /\ lock' = lock /\ GoTo(t, "clear")
      BY <1>0, <3>2, GoToMoves, Zenon
    <3>3. QED
      BY <1>8, <3>1, <3>2 DEF Test
  <2>4. LockInv'
    BY ONLY <1>0, <2>1, <2>2, <2>3, t \in Threads
       DEF LockInv, Locked, Others, Threads, Free
  <2>5. Place(t)'
    BY ONLY <2>1, <2>2, <2>3 DEF Place, Receiving, Closing
  <2>6. PlaceInv'
    BY <2>1, <2>3, <2>5, OthersStay DEF PlaceInv
  <2>7. WakeupInv'
    BY ONLY <1>0, <2>1, <2>2, <2>3 DEF WakeupInv, Others
  <2>8. NoSpinning'
    BY ONLY <1>0, <2>1, <2>2, <2>3 DEF NoSpinning, Others
  <2>9. QED
    BY <2>4, <2>6, <2>7, <2>8
<1>9. ASSUME NEW t \in Threads, Clear(t)
      PROVE  Goal
  <2>1. pc[t] = "clear" /\ lock' = Free /\ queue' = queue /\ down' = down
    BY <1>9 DEF Clear
  <2>2. lock = t /\ at[t] \in Chan /\ queue[at[t]] = <<>>
    <3>1. lock = t
      BY ONLY <1>0, <2>1, t \in Threads DEF LockInv, Locked
    <3>2. at[t] \in Chan
      BY <1>0, Zenon DEF TypeOK
    <3>3. queue[at[t]] = <<>>
      BY ONLY <1>0, <2>1, t \in Threads DEF PlaceInv, Place
    <3>4. QED
      BY <3>1, <3>2, <3>3
  <2>3. Enter(t, "out", "user", FALSE)
    BY <1>9 DEF Clear, Leave
  <2>4. pc'[t] = "out" /\ Others(t)
    BY <1>0, <2>3, EnterMoves, Zenon
  <2>5. ~event'[at[t]] /\ \A d \in Chan : d # at[t] => event'[d] = event[d]
    <3>1. event' = [event EXCEPT ![at[t]] = FALSE]
      BY <1>9 DEF Clear
    <3>2. event \in [Chan -> BOOLEAN]
      BY <1>0, Zenon DEF TypeOK
    <3>3. QED
      BY ONLY <2>2, <3>1, <3>2
  <2>6. LockInv'
    BY ONLY <1>0, <2>1, <2>2, <2>4, t \in Threads
       DEF LockInv, Locked, Others, Threads, Free
  <2>7. Place(t)'
    BY ONLY <2>4 DEF Place, Receiving, Closing
  <2>8. PlaceInv'
    BY <2>1, <2>2, <2>4, <2>7, OthersStay DEF PlaceInv
  <2>9. WakeupInv'
    BY ONLY <1>0, <2>1, <2>2, <2>4, <2>5 DEF WakeupInv, Others
  <2>10. NoSpinning'
    BY ONLY <1>0, <2>1, <2>2, <2>4, <2>5 DEF NoSpinning, Others
  <2>11. QED
    BY <2>6, <2>8, <2>9, <2>10
<1>10. ASSUME NEW t \in Threads, TakeNothing(t)
       PROVE  Goal
  <2>1. UNCHANGED <<queue, event, down, lock>>
    BY <1>10 DEF TakeNothing
  <2>2. pc[t] = "take" /\ "take" \in Receiving /\ "check" \in Receiving
    BY <1>10 DEF TakeNothing, Receiving
  <2>3. Others(t) /\ (pc'[t] = "out" \/ (pc'[t] = "check" /\ at' = at))
    <3>1. Leave(t) \/ GoTo(t, "check")
      BY <1>10 DEF TakeNothing, ReturnNone
    <3>2. CASE Leave(t)
      BY <1>0, <3>2, EnterMoves, Zenon DEF Leave
    <3>3. CASE GoTo(t, "check")
      BY <1>0, <3>3, GoToMoves, Zenon
    <3>4. QED
      BY <3>1, <3>2, <3>3
  <2>4. "out" \notin Receiving /\ Receiver(at[t]) = t
    BY ONLY <1>0, <2>2, t \in Threads DEF PlaceInv, Place, Receiving
  <2>5. QED
    BY <2>1, <2>2, <2>3, <2>4, QuietMove
<1>11. ASSUME NEW t \in Threads, RaiseFlag(t)
       PROVE  Goal
  <2>0. queue' = queue /\ event' = event /\ pc[t] = "out"
    BY <1>11 DEF RaiseFlag
  <2>1. /\ t = "frontend" /\ GoTo(t, "close user") /\ down'
        /\ lock' = lock
    BY <1>11 DEF RaiseFlag
  <2>2. pc'[t] = "close user" /\ Others(t)
    BY <1>0, <2>1, GoToMoves, Zenon
  <2>3. LockInv'
    BY ONLY <1>0, <2>0, <2>1, <2>2, t \in Threads DEF LockInv, Locked, Others
  <2>4. Place(t)'
    BY ONLY <2>1, <2>2 DEF Place, Receiving, Closing
  <2>5. PlaceInv'
    BY <2>0, <2>1, <2>2, <2>4, OthersStay DEF PlaceInv
  <2>6. WakeupInv'
    BY <1>0, <2>0, <2>2, "out" # "set", WakeupsKept, Zenon
  <2>7. NoSpinning'
    BY ONLY <2>1 DEF NoSpinning
  <2>8. QED
    BY <2>3, <2>5, <2>6, <2>7
<1>12. ASSUME NEW t \in Threads, Close(t)
       PROVE  Goal
  <2>0. queue' = queue /\ pc[t] \in Closing
    BY <1>12 DEF Close, RaiseEvent, Closing
  <2>1. down' = down /\ lock' = lock
    BY <1>12 DEF Close, RaiseEvent
  <2>2. t = "frontend" /\ down
    BY ONLY <1>0, <2>0, t \in Threads DEF PlaceInv, Place
  <2>3. Others(t) /\ pc'[t] \in {"out"} \cup Closing
    <3>1. Leave(t) \/ \E step \in Closing : GoTo(t, step)
      BY <1>12 DEF Close, Closing
    <3>2. CASE Leave(t)
      BY <1>0, <3>2, EnterMoves, Zenon DEF Leave
    <3>3. CASE \E step \in Closing : GoTo(t, step)
      <4>1. PICK step \in Closing : GoTo(t, step)
        BY <3>3
      <4>2. pc'[t] = step /\ Others(t)
        BY <1>0, <4>1, GoToMoves, Zenon
      <4>3. QED
        BY <4>2, Zenon
    <3>4. QED
      BY <3>1, <3>2, <3>3
  <2>4. \A d \in Chan : event[d] => event'[d]
    <3>1. \E c \in Chan : event' = [event EXCEPT ![c] = TRUE]
      BY <1>12 DEF Close, RaiseEvent, Chan
    <3>2. event \in [Chan -> BOOLEAN]
      BY <1>0, Zenon DEF TypeOK
    <3>3. QED
      BY ONLY <3>1, <3>2
  <2>5. LockInv'
    BY ONLY <1>0, <2>0, <2>1, <2>3, t \in Threads
       DEF LockInv, Locked, Closing, Others
  <2>6. Place(t)'
    BY ONLY <2>1, <2>2, <2>3 DEF Place, Receiving, Closing
  <2>7. PlaceInv'
    BY <2>0, <2>1, <2>3, <2>6, OthersStay DEF PlaceInv
  <2>8. WakeupInv'
    <3>1. pc[t] # "set"
      BY ONLY <2>0 DEF Closing
    <3>2. QED
      BY <1>0, <2>0, <2>3, <2>4, <3>1, WakeupsKept, Zenon
  <2>9. NoSpinning'
    BY ONLY <2>1, <2>2 DEF NoSpinning
  <2>10. QED
    BY <2>5, <2>7, <2>8, <2>9
<1>13. CASE UNCHANGED vars
  <2>1. /\ queue' = queue /\ event' = event /\ down' = down /\ lock' = lock
        /\ pc' = pc /\ at' = at
    BY <1>13 DEF vars
  <2>2. QED
    BY ONLY <1>0, <2>1 DEF LockInv, PlaceInv, Place, WakeupInv, NoSpinning
<1>14. QED
  BY <1>1, <1>2, <1>3, <1>4, <1>5, <1>6, <1>7, <1>8, <1>9, <1>10, <1>11,
     <1>12, <1>13, Zenon DEF Next, Begin, Continue

-----------------------------------------------------------------------------

LEMMA InitInv == Init => ConnectorInv
<1> SUFFICES ASSUME Init
             PROVE  ConnectorInv
  OBVIOUS
<1>1. TypeOK
  <2>1. /\ queue \in [Chan -> Seq(Nat)] /\ sent \in [Chan -> Nat]
        /\ last \in [Chan -> Nat] /\ at \in [Threads -> Chan]
    BY DEF Init, Chan
  <2>2. event \in [Chan -> BOOLEAN] /\ timed \in [Threads -> BOOLEAN]
    BY DEF Init
  <2>3. pc \in [Threads -> Steps]
    BY StepNames DEF Init
  <2>4. down \in BOOLEAN /\ lock \in Threads \cup {Free}
    BY Zenon DEF Init
  <2>5. QED
    BY <2>1, <2>2, <2>3, <2>4, Zenon DEF TypeOK
<1>2. LockInv /\ PlaceInv
  BY DEF Init, LockInv, PlaceInv, Place, Threads, Free, Receiving, Locked,
         Closing
<1>3. WakeupInv /\ NoSpinning
  BY DEF Init, WakeupInv, NoSpinning
<1>4. QED
  BY <1>1, <1>2, <1>3, Zenon DEF ConnectorInv

LEMMA StepInv == ConnectorInv /\ [Next]_vars => ConnectorInv'
BY TypeStep, InvStep, Zenon DEF ConnectorInv

\* The connector's invariant, of which WakeupInv and NoSpinning are part,
\* holds for any number of messages (utils/connector.py:71-85, 141-173).
THEOREM ConnectorCorrect == Spec => []ConnectorInv
BY InitInv, StepInv, PTL DEF Spec

\* No wakeup is lost: a queue with messages has its event set, or its sender
\* is just about to set it, still holding the lock.
THEOREM NoLostWakeup == Spec => []WakeupInv
<1>1. ConnectorInv => WakeupInv
  BY Zenon DEF ConnectorInv
<1>2. QED
  BY <1>1, ConnectorCorrect, PTL

\* An event left set over an empty queue would let a waiting receive run
\* round its loop without end; before shutdown() none is, because whoever
\* takes the last message is still there to clear it
\* (utils/connector.py:99-103, 143-147).
THEOREM NoBusyWaiting == Spec => []NoSpinning
<1>1. ConnectorInv => NoSpinning
  BY Zenon DEF ConnectorInv
<1>2. QED
  BY <1>1, ConnectorCorrect, PTL

-----------------------------------------------------------------------------
(***************************************************************************)
(* The refinement.                                                         *)
(***************************************************************************)

\* The receiver of a queue is the one thread that can receive from it.
LEMMA ReceivesOfOthers ==
    ASSUME NEW t \in Threads, NEW c \in Chan, Receiver(c) # t, Others(t)
    PROVE  ReceivingFrom(c)' = ReceivingFrom(c)
<1>1. Receiver(c) \in Threads \ {t}
  BY Ends
<1>2. /\ pc'[Receiver(c)] = pc[Receiver(c)]
      /\ at'[Receiver(c)] = at[Receiver(c)]
      /\ timed'[Receiver(c)] = timed[Receiver(c)]
  BY <1>1, Zenon DEF Others
<1>3. QED
  BY <1>2, Zenon DEF ReceivingFrom

\* Steps within a receive, or outside any, do not change them ...
LEMMA ReceivesKept ==
    ASSUME NEW t \in Threads, Others(t),
           \/ pc[t] \notin Receiving /\ pc'[t] \notin Receiving
           \/ /\ pc[t] \in Receiving /\ pc'[t] \in Receiving
              /\ at'[t] = at[t] /\ timed'[t] = timed[t]
    PROVE  Receives' = Receives
<1>1. ASSUME NEW c \in Chan
      PROVE  ReceivingFrom(c)' = ReceivingFrom(c)
  <2>1. CASE Receiver(c) = t
    BY <2>1, Zenon DEF ReceivingFrom
  <2>2. CASE Receiver(c) # t
    BY <2>2, ReceivesOfOthers
  <2>3. QED
    BY <2>1, <2>2
<1>2. QED
  BY <1>1, Zenon DEF Receives

\* ... a call begins one ...
LEMMA ReceiveBegins ==
    ASSUME NEW t \in Threads, Others(t), NEW c \in Chan, Receiver(c) = t,
           pc[t] = "out", pc'[t] \in Receiving, at'[t] = c
    PROVE  /\ Receives[c] = "no"
           /\ \E kind \in {"plain", "timed"} :
                  Receives' = [Receives EXCEPT ![c] = kind]
<1>1. Receives[c] = "no"
  BY DEF Receives, ReceivingFrom, Receiving
<1>2. PICK kind \in {"plain", "timed"} : ReceivingFrom(c)' = kind
  BY Zenon DEF ReceivingFrom
<1>3. ASSUME NEW d \in Chan, d # c
      PROVE  ReceivingFrom(d)' = ReceivingFrom(d)
  <2>1. CASE Receiver(d) = t
    <3>1. ReceivingFrom(d) = "no"
      BY <2>1 DEF ReceivingFrom, Receiving
    <3>2. ReceivingFrom(d)' = "no"
      BY <1>3, <2>1, Zenon DEF ReceivingFrom
    <3>3. QED
      BY <3>1, <3>2
  <2>2. CASE Receiver(d) # t
    BY <2>2, ReceivesOfOthers
  <2>3. QED
    BY <2>1, <2>2
<1>4. Receives' = [Receives EXCEPT ![c] = kind]
  BY <1>2, <1>3 DEF Receives
<1>5. QED
  BY <1>1, <1>4

\* ... and the end of one ends it.
LEMMA ReceiveEnds ==
    ASSUME NEW t \in Threads, Others(t), NEW c \in Chan, Receiver(c) = t,
           at[t] = c, pc[t] \in Receiving, pc'[t] \notin Receiving
    PROVE  /\ Receives[c] = IF timed[t] THEN "timed" ELSE "plain"
           /\ Receives' = [Receives EXCEPT ![c] = "no"]
<1>1. Receives[c] = IF timed[t] THEN "timed" ELSE "plain"
  BY DEF Receives, ReceivingFrom
<1>2. ASSUME NEW d \in Chan, d # c
      PROVE  ReceivingFrom(d)' = ReceivingFrom(d)
  <2>1. CASE Receiver(d) = t
    BY <1>2, <2>1, Zenon DEF ReceivingFrom
  <2>2. CASE Receiver(d) # t
    BY <2>2, ReceivesOfOthers
  <2>3. QED
    BY <2>1, <2>2
<1>3. ReceivingFrom(c)' = "no"
  BY Zenon DEF ReceivingFrom
<1>4. Receives' = [Receives EXCEPT ![c] = "no"]
  BY <1>2, <1>3 DEF Receives
<1>5. QED
  BY <1>1, <1>4

\* A step of FifoChannel's that changes nothing.
LEMMA Stutter ==
    ASSUME UNCHANGED <<sent, queue, last, down>>, Receives' = Receives
    PROVE  UNCHANGED Fifo!vars
BY DEF Fifo!vars

\* A receive that comes back empty-handed.
LEMMA GivesUp ==
    ASSUME ConnectorInv, NEW t \in Threads, ReturnNone(t), pc[t] \in Receiving,
           UNCHANGED <<sent, queue, down>>,
           down \/ (timed[t] /\ queue[at[t]] = <<>>)
    PROVE  Fifo!Next
<1> DEFINE c == at[t]
<1>1. TypeOK /\ PlaceInv
  BY Zenon DEF ConnectorInv
<1>2. c \in Chan /\ Receiver(c) = t
  <2>1. c \in Chan
    BY <1>1, Zenon DEF TypeOK
  <2>2. Receiver(c) = t
    BY ONLY <1>1, pc[t] \in Receiving, t \in Threads
       DEF PlaceInv, Place, Receiving
  <2>3. QED
    BY <2>1, <2>2
<1>3. pc'[t] = "out" /\ Others(t)
  BY <1>1, EnterMoves, Zenon DEF ReturnNone, Leave
<1>4. "out" \notin Receiving
  BY DEF Receiving
<1>5. /\ Receives[c] = IF timed[t] THEN "timed" ELSE "plain"
      /\ Receives' = [Receives EXCEPT ![c] = "no"]
  BY <1>2, <1>3, <1>4, ReceiveEnds, Zenon
<1>6. last' = [last EXCEPT ![c] = 0]
  BY DEF ReturnNone
<1>7. \/ down /\ Receives[c] # "no"
      \/ Receives[c] = "timed" /\ queue[c] = <<>>
  <2>1. CASE down
    <3>1. Receives[c] # "no"
      BY ONLY <1>5
    <3>2. QED
      BY <2>1, <3>1
  <2>2. CASE timed[t] /\ queue[at[t]] = <<>>
    BY <1>5, <2>2, Zenon
  <2>3. QED
    BY <2>1, <2>2
<1> HIDE DEF c
<1>8. Fifo!GiveUp(c)
  BY <1>5, <1>6, <1>7, Zenon DEF Fifo!GiveUp
<1>9. QED
  BY <1>2, <1>8, Zenon DEF Fifo!Next

LEMMA RefinedStep ==
    ASSUME ConnectorInv, [Next]_vars
    PROVE  Fifo!Next \/ UNCHANGED Fifo!vars
<1> DEFINE Goal == Fifo!Next \/ UNCHANGED Fifo!vars
<1> HIDE DEF Goal
<1>0. TypeOK /\ PlaceInv
  BY Zenon DEF ConnectorInv
<1>n. /\ "out" \notin Receiving /\ "set" \notin Receiving
      /\ "test" \notin Receiving /\ "clear" \notin Receiving
      /\ "check" \in Receiving /\ "wait" \in Receiving /\ "take" \in Receiving
      /\ Closing \cap Receiving = {}
  BY DEF Receiving, Closing
<1>1. ASSUME NEW t \in Threads, NEW c \in Chan, SendAppend(t, c)
      PROVE  Goal
  <2>1. /\ sent[c] < MaxSent[c] /\ sent' = [sent EXCEPT ![c] = @ + 1]
        /\ queue' = [queue EXCEPT ![c] = Append(@, sent[c] + 1)]
        /\ last' = last /\ down' = down /\ pc[t] = "out"
    BY <1>1 DEF SendAppend
  <2>2. pc'[t] = "set" /\ Others(t)
    BY <1>0, <1>1, EnterMoves, Zenon DEF SendAppend
  <2>3. Receives' = Receives
    BY <1>n, <2>1, <2>2, ReceivesKept, Zenon
  <2>4. Fifo!Send(c)
    BY <2>1, <2>3, Zenon DEF Fifo!Send
  <2>5. QED
    BY <2>4, Zenon DEF Fifo!Next, Goal
<1>2. ASSUME NEW t \in Threads, SendSet(t)
      PROVE  Goal
  <2>1. UNCHANGED <<sent, queue, last, down>> /\ pc[t] = "set"
    BY <1>2 DEF SendSet
  <2>2. pc'[t] = "out" /\ Others(t)
    BY <1>0, <1>2, EnterMoves, Zenon DEF SendSet, Leave
  <2>3. Receives' = Receives
    BY <1>n, <2>1, <2>2, ReceivesKept, Zenon
  <2>4. QED
    BY <2>1, <2>3, Stutter, Zenon DEF Goal
<1>3. ASSUME NEW t \in Threads, NEW c \in Chan, NEW b \in BOOLEAN, Call(t, c, b)
      PROVE  Goal
  <2>1. UNCHANGED <<sent, queue, last, down>> /\ pc[t] = "out" /\ Receiver(c) = t
    BY <1>3 DEF Call
  <2>2. pc'[t] = "check" /\ at'[t] = c /\ Others(t)
    BY <1>0, <1>3, EnterMoves, Zenon DEF Call
  <2>3. /\ Receives[c] = "no"
        /\ \E kind \in {"plain", "timed"} :
               Receives' = [Receives EXCEPT ![c] = kind]
    BY <1>n, <2>1, <2>2, ReceiveBegins, ZenonT(60)
  <2>4. \E kind \in {"plain", "timed"} : Fifo!Begin(c, kind)
    BY <2>1, <2>3, Zenon DEF Fifo!Begin
  <2>5. QED
    BY <2>4, Zenon DEF Fifo!Next, Goal
<1>4. ASSUME NEW t \in Threads, NEW c \in Chan, CallNonBlocking(t, c)
      PROVE  Goal
  <2>1. UNCHANGED <<sent, queue, last, down>> /\ pc[t] = "out" /\ Receiver(c) = t
    BY <1>4 DEF CallNonBlocking
  <2>2. pc'[t] = "take" /\ at'[t] = c /\ Others(t)
    BY <1>0, <1>4, EnterMoves, Zenon DEF CallNonBlocking
  <2>3. /\ Receives[c] = "no"
        /\ \E kind \in {"plain", "timed"} :
               Receives' = [Receives EXCEPT ![c] = kind]
    BY <1>n, <2>1, <2>2, ReceiveBegins, ZenonT(60)
  <2>4. \E kind \in {"plain", "timed"} : Fifo!Begin(c, kind)
    BY <2>1, <2>3, Zenon DEF Fifo!Begin
  <2>5. QED
    BY <2>4, Zenon DEF Fifo!Next, Goal
<1>5. ASSUME NEW t \in Threads, Check(t)
      PROVE  Goal
  <2>1. UNCHANGED <<sent, queue, down>> /\ pc[t] = "check"
    BY <1>5 DEF Check
  <2>2. CASE down /\ ReturnNone(t)
    <3>1. pc[t] \in Receiving
      BY <1>n, <2>1
    <3>2. Fifo!Next
      BY <2>1, <2>2, <3>1, GivesUp, Zenon
    <3>3. QED
      BY <3>2, Zenon DEF Goal
  <2>3. CASE GoTo(t, "wait") /\ last' = last
    <3>1. pc'[t] = "wait" /\ at' = at /\ timed' = timed /\ Others(t)
      BY <1>0, <2>3, GoToMoves, Zenon
    <3>2. Receives' = Receives
      BY <1>n, <2>1, <3>1, ReceivesKept, Zenon
    <3>3. QED
      BY <2>1, <2>3, <3>2, Stutter, Zenon DEF Goal
  <2>4. QED
    BY <1>5, <2>2, <2>3, Zenon DEF Check
<1>6. ASSUME NEW t \in Threads, Wake(t)
      PROVE  Goal
  <2>1. UNCHANGED <<sent, queue, last, down>> /\ pc[t] = "wait"
    BY <1>6 DEF Wake
  <2>2. pc'[t] = "take" /\ at' = at /\ timed' = timed /\ Others(t)
    BY <1>0, <1>6, GoToMoves, Zenon DEF Wake
  <2>3. Receives' = Receives
    BY <1>n, <2>1, <2>2, ReceivesKept, Zenon
  <2>4. QED
    BY <2>1, <2>3, Stutter, Zenon DEF Goal
<1>7. ASSUME NEW t \in Threads, Take(t)
      PROVE  Goal
  <2> DEFINE c == at[t]
  <2>1. /\ queue[c] # <<>> /\ queue' = [queue EXCEPT ![c] = Tail(@)]
        /\ last' = [last EXCEPT ![c] = Head(queue[c])]
        /\ UNCHANGED <<sent, down>> /\ pc[t] = "take"
    BY <1>7 DEF Take
  <2>2. pc'[t] = "test" /\ Others(t)
    BY <1>0, <1>7, GoToMoves, Zenon DEF Take
  <2>3. c \in Chan /\ Receiver(c) = t
    <3>1. c \in Chan
      BY <1>0, Zenon DEF TypeOK
    <3>2. Receiver(c) = t
      BY ONLY <1>0, <2>1, t \in Threads DEF PlaceInv, Place, Receiving
    <3>3. QED
      BY <3>1, <3>2
  <2>4. /\ Receives[c] = IF timed[t] THEN "timed" ELSE "plain"
        /\ Receives' = [Receives EXCEPT ![c] = "no"]
    BY <1>n, <2>1, <2>2, <2>3, ReceiveEnds, Zenon
  <2>5. Receives[c] # "no"
    BY ONLY <2>4
  <2> HIDE DEF c
  <2>6. Fifo!Deliver(c)
    BY <2>1, <2>4, <2>5, Zenon DEF Fifo!Deliver
  <2>7. QED
    BY <2>3, <2>6, Zenon DEF Fifo!Next, Goal
<1>8. ASSUME NEW t \in Threads, Test(t)
      PROVE  Goal
  <2>1. UNCHANGED <<sent, queue, last, down>> /\ pc[t] = "test"
    BY <1>8 DEF Test
  <2>2. pc'[t] \in {"out", "clear"} /\ Others(t)
    BY <1>0, <1>8, EnterMoves, GoToMoves, Zenon DEF Test, Leave
  <2>3. Receives' = Receives
    <3>1. pc'[t] \notin Receiving
      BY <2>2 DEF Receiving
    <3>2. QED
      BY <1>n, <2>1, <2>2, <3>1, ReceivesKept, Zenon
  <2>4. QED
    BY <2>1, <2>3, Stutter, Zenon DEF Goal
<1>9. ASSUME NEW t \in Threads, Clear(t)
      PROVE  Goal
  <2>1. UNCHANGED <<sent, queue, last, down>> /\ pc[t] = "clear"
    BY <1>9 DEF Clear
  <2>2. pc'[t] = "out" /\ Others(t)
    BY <1>0, <1>9, EnterMoves, Zenon DEF Clear, Leave
  <2>3. Receives' = Receives
    BY <1>n, <2>1, <2>2, ReceivesKept, Zenon
  <2>4. QED
    BY <2>1, <2>3, Stutter, Zenon DEF Goal
<1>10. ASSUME NEW t \in Threads, TakeNothing(t)
       PROVE  Goal
  <2>1. UNCHANGED <<sent, queue, down>> /\ pc[t] = "take"
    BY <1>10 DEF TakeNothing
  <2>2. CASE timed[t] /\ queue[at[t]] = <<>> /\ ReturnNone(t)
    BY <1>n, <2>1, <2>2, GivesUp, Zenon DEF Goal
  <2>3. CASE GoTo(t, "check") /\ last' = last
    <3>1. pc'[t] = "check" /\ at' = at /\ timed' = timed /\ Others(t)
      BY <1>0, <2>3, GoToMoves, Zenon
    <3>2. Receives' = Receives
      BY <1>n, <2>1, <3>1, ReceivesKept, Zenon
    <3>3. QED
      BY <2>1, <2>3, <3>2, Stutter, Zenon DEF Goal
  <2>4. QED
    BY <1>10, <2>2, <2>3, Zenon DEF TakeNothing
<1>11. ASSUME NEW t \in Threads, RaiseFlag(t)
       PROVE  Goal
  <2>1. down' = TRUE /\ UNCHANGED <<sent, queue, last>> /\ pc[t] = "out"
    BY <1>11 DEF RaiseFlag
  <2>2. pc'[t] = "close user" /\ Others(t)
    BY <1>0, <1>11, GoToMoves, Zenon DEF RaiseFlag
  <2>3. "close user" \notin Receiving
    BY DEF Receiving
  <2>4. Receives' = Receives
    BY <1>n, <2>1, <2>2, <2>3, ReceivesKept, Zenon
  <2>5. Fifo!Close
    BY <2>1, <2>4, Zenon DEF Fifo!Close
  <2>6. QED
    BY <2>5, Zenon DEF Fifo!Next, Goal
<1>12. ASSUME NEW t \in Threads, Close(t)
       PROVE  Goal
  <2>1. UNCHANGED <<sent, queue, last, down>> /\ pc[t] \in Closing
    BY <1>12 DEF Close, RaiseEvent, Closing
  <2>2. pc'[t] \notin Receiving /\ Others(t)
    <3>1. Leave(t) \/ \E step \in Closing : GoTo(t, step)
      BY <1>12 DEF Close, Closing
    <3>2. CASE Leave(t)
      BY <1>0, <1>n, <3>2, EnterMoves, Zenon DEF Leave
    <3>3. ASSUME NEW step \in Closing, GoTo(t, step)
          PROVE  pc'[t] \notin Receiving /\ Others(t)
      <4>1. pc'[t] = step /\ Others(t)
        BY <1>0, <3>3, GoToMoves, Zenon
      <4>2. step \notin Receiving
        BY <1>n
      <4>3. QED
        BY <4>1, <4>2
    <3>4. QED
      BY <3>1, <3>2, <3>3
  <2>3. pc[t] \notin Receiving
    BY <1>n, <2>1
  <2>4. Receives' = Receives
    BY <2>2, <2>3, ReceivesKept, Zenon
  <2>5. QED
    BY <2>1, <2>4, Stutter, Zenon DEF Goal
<1>13. CASE UNCHANGED vars
  <2>1. UNCHANGED <<sent, queue, last, down, pc, at, timed>>
    BY <1>13 DEF vars
  <2>2. Receives' = Receives
    BY <2>1 DEF Receives, ReceivingFrom
  <2>3. QED
    BY <2>1, <2>2, Stutter, Zenon DEF Goal
<1>14. ASSUME NEW t \in Threads, Begin(t)
       PROVE  Goal
  <2>1. ASSUME NEW c \in Chan, \E b \in BOOLEAN : Call(t, c, b)
        PROVE  Goal
    BY <1>3, <2>1
  <2>2. QED
    BY <1>1, <1>4, <1>11, <1>14, <2>1, Zenon DEF Begin
<1>15. ASSUME NEW t \in Threads, Continue(t)
       PROVE  Goal
  BY <1>2, <1>5, <1>6, <1>7, <1>8, <1>9, <1>10, <1>12, <1>15, Zenon
     DEF Continue
<1>16. CASE Next
  BY <1>14, <1>15, <1>16, Zenon DEF Next, Goal
<1>17. QED
  BY <1>13, <1>16, Zenon DEF Goal

LEMMA RefinedInit == Init => Fifo!Init
<1> SUFFICES ASSUME Init
             PROVE  Fifo!Init
  OBVIOUS
<1>1. Receives = [c \in Chan |-> "no"]
  <2>1. ASSUME NEW c \in Chan
        PROVE  ReceivingFrom(c) = "no"
    <3>1. pc[Receiver(c)] = "out"
      BY Ends, Zenon DEF Init
    <3>2. QED
      BY <3>1 DEF ReceivingFrom, Receiving
  <2>2. QED
    BY <2>1, Zenon DEF Receives
<1>2. QED
  BY <1>1, Zenon DEF Init, Fifo!Init

\* Locks and events implement the queues FifoChannel describes: no message is
\* lost, doubled, reordered, or withheld from a receive that gives up.
THEOREM ConnectorRefinesFifo == Spec => DeliversInOrder
<1>1. Init => Fifo!Init
  BY RefinedInit
<1>2. ConnectorInv /\ [Next]_vars => [Fifo!Next]_(Fifo!vars)
  BY RefinedStep
<1>3. QED
  BY <1>1, <1>2, ConnectorCorrect, PTL DEF Spec, DeliversInOrder, Fifo!Spec

=============================================================================
