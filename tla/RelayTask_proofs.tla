--------------------------- MODULE RelayTask_proofs ---------------------------
(***************************************************************************)
(* Proofs about RelayTask for every number of tasks and messages, every    *)
(* channel capacity and every retry limit.                                 *)
(***************************************************************************)
EXTENDS RelayTask, SequenceTheorems, TLAPS

-----------------------------------------------------------------------------
(* The shape of a task's local state, which the type invariant and the     *)
(* invariants below rest on: a message is held exactly while it is being   *)
(* written and a text while it is being forwarded, and the status is       *)
(* Terminated exactly once the loop is left.                               *)
Left == {"closing", "leaving", "done"}

TaskShape ==
  \A t \in Tasks :
    /\ pc[t] = "sending" <=> writing[t] # <<>>
    /\ pc[t] = "forwarding" <=> pending[t] # 0
    /\ status[t] = "Terminated" <=> pc[t] \in Left

TaskInv == TaskTypeOK /\ TaskShape

(* The common tails of the actions.                                        *)
LEMMA FailTypes ==
  ASSUME NEW t \in Tasks, TaskInv, Fail(t)
  PROVE  /\ pc' \in [Tasks -> Places]
         /\ status' \in [Tasks -> Status]
         /\ attempt' \in [Tasks -> 0..AttemptBound]
         /\ pc'[t] \in {"backoff", "leaving"}
         /\ status'[t] = "Terminated" <=> pc'[t] = "leaving"
         /\ \A u \in Tasks \ {t} : pc'[u] = pc[u] /\ status'[u] = status[u]
<1>1. attempt \in [Tasks -> 0..AttemptBound]
  BY DEF TaskInv, TaskTypeOK
<1>2. Bump(attempt[t]) \in 0..AttemptBound
  BY <1>1, TaskAssumption DEF Bump
<1>3. attempt' \in [Tasks -> 0..AttemptBound]
  BY <1>1, <1>2 DEF Fail
<1>4. pc \in [Tasks -> Places] /\ status \in [Tasks -> Status]
  BY DEF TaskInv, TaskTypeOK
<1>5. CASE Terminate(t)
  BY <1>3, <1>4, <1>5 DEF Terminate, Move, Places, Status
<1>6. CASE Move(t, "backoff", "Reconnecting")
  BY <1>3, <1>4, <1>6 DEF Move, Places, Status
<1> QED BY <1>5, <1>6 DEF Fail

\* The types after a message is taken off the queue.
LEMMA TakeOutgoingTypes ==
  ASSUME NEW t \in Tasks, TaskInv, TakeOutgoing(t)
  PROVE  /\ outq' \in [Tasks -> Seq(Msgs)]
         /\ writing' \in [Tasks -> Seq(Msgs)]
         /\ \A u \in Tasks : Len(outq'[u]) <= OutCap /\ Len(writing'[u]) <= 1
         /\ writing'[t] # <<>>
<1>1. outq \in [Tasks -> Seq(Msgs)] /\ writing \in [Tasks -> Seq(Msgs)]
  BY DEF TaskInv, TaskTypeOK
<1>2. /\ Head(outq[t]) \in Msgs
      /\ Tail(outq[t]) \in Seq(Msgs)
      /\ Len(Tail(outq[t])) = Len(outq[t]) - 1
      /\ Len(outq[t]) \in Nat
  BY <1>1 DEF TakeOutgoing
<1> DEFINE h == <<Head(outq[t])>>
<1>3. h \in Seq(Msgs) /\ Len(h) = 1 /\ h # <<>>
  BY <1>2
<1> HIDE DEF h
<1>4. writing' = [writing EXCEPT ![t] = h]
  BY DEF TakeOutgoing, h
<1>5. outq' = [outq EXCEPT ![t] = Tail(outq[t])]
  BY DEF TakeOutgoing
<1>6. /\ outq' \in [Tasks -> Seq(Msgs)] /\ writing' \in [Tasks -> Seq(Msgs)]
      /\ writing'[t] # <<>>
  BY <1>1, <1>2, <1>3, <1>4, <1>5
<1>7. \A u \in Tasks : Len(outq[u]) <= OutCap /\ Len(writing[u]) <= 1
  BY DEF TaskInv, TaskTypeOK
<1>8. \A u \in Tasks : Len(outq'[u]) <= OutCap /\ Len(writing'[u]) <= 1
  <2> TAKE u \in Tasks
  <2>1. CASE u = t
    <3>1. outq'[u] = Tail(outq[t]) /\ writing'[u] = h
      BY <1>1, <1>4, <1>5, <2>1
    <3>2. Len(Tail(outq[t])) <= OutCap
      BY <1>2, <1>7, TaskAssumption
    <3>3. Len(writing'[u]) = 1
      BY <1>3, <3>1
    <3>4. Len(outq'[u]) <= OutCap
      BY <3>1, <3>2
    <3> QED BY <3>3, <3>4
  <2>2. CASE u # t
    BY <1>1, <1>4, <1>5, <1>7, <2>2
  <2> QED BY <2>1, <2>2
<1> QED BY <1>6, <1>8

\* The types after a write has ended.
LEMMA WriteEndsTypes ==
  ASSUME NEW t \in Tasks, NEW ok \in BOOLEAN, TaskInv, WriteEnds(t, ok)
  PROVE  /\ writing' \in [Tasks -> Seq(Msgs)]
         /\ \A u \in Tasks : Len(writing'[u]) <= 1
         /\ \A u \in Tasks : writing'[u] = IF u = t THEN <<>> ELSE writing[u]
         /\ settled' \in [Tasks -> Seq(Outcomes)]
<1>1. writing \in [Tasks -> Seq(Msgs)] /\ settled \in [Tasks -> Seq(Outcomes)]
  BY DEF TaskInv, TaskTypeOK
<1>2. writing[t] # <<>> /\ \A u \in Tasks : Len(writing[u]) <= 1
  BY DEF TaskInv, TaskTypeOK, TaskShape, WriteEnds
<1>3. [msg |-> Head(writing[t]), sent |-> ok] \in Outcomes
  BY <1>1, <1>2 DEF Outcomes
<1>4. settled' \in [Tasks -> Seq(Outcomes)]
  BY <1>1, <1>3 DEF WriteEnds
<1>5. writing' = [writing EXCEPT ![t] = <<>>]
  BY DEF WriteEnds
<1>6. \A u \in Tasks : writing'[u] = IF u = t THEN <<>> ELSE writing[u]
  BY <1>1, <1>5
<1>7. writing' \in [Tasks -> Seq(Msgs)] /\ \A u \in Tasks : Len(writing'[u]) <= 1
  BY <1>1, <1>2, <1>5
<1> QED BY <1>4, <1>6, <1>7

\* No task runs at first.
LEMMA TaskInvInit == TaskInit => TaskInv
  BY TaskAssumption
     DEF TaskInit, TaskInv, TaskShape, TaskTypeOK, Places, Status, Left, Texts, Outcomes

\* Every step of a task or its handle keeps the invariant.
LEMMA TaskInvStep == TaskInv /\ [TaskNext]_taskVars => TaskInv'
<1> SUFFICES ASSUME TaskInv, [TaskNext]_taskVars PROVE TaskInv'
  OBVIOUS
<1> USE TaskAssumption DEF TaskInv, TaskShape, TaskTypeOK, Places, Status, Left
<1>1. ASSUME NEW t \in Tasks, SpawnRelay(t) PROVE TaskInv'
  BY <1>1 DEF SpawnRelay
<1>2. ASSUME NEW t \in Tasks, NEW m \in Msgs, Enqueue(t, m) PROVE TaskInv'
  BY <1>2 DEF Enqueue
<1>3. ASSUME NEW t \in Tasks, SignalShutdown(t) PROVE TaskInv'
  BY <1>3 DEF SignalShutdown
<1>4. ASSUME NEW t \in Tasks, DropHandle(t) PROVE TaskInv'
  BY <1>4 DEF DropHandle
<1>5. CASE TakeReceiver BY <1>5 DEF TakeReceiver
<1>6. CASE Consume BY <1>6 DEF Consume
<1>7. CASE DropReceiver BY <1>7 DEF DropReceiver
<1>8. ASSUME NEW t \in Tasks, Start(t) PROVE TaskInv'
  BY <1>8 DEF Start, Move, NoTraffic
<1>9. ASSUME NEW t \in Tasks, BackoffElapsed(t) PROVE TaskInv'
  BY <1>9 DEF BackoffElapsed, Move, NoTraffic
<1>10. ASSUME NEW t \in Tasks, ShutdownInBackoff(t) PROVE TaskInv'
  BY <1>10 DEF ShutdownInBackoff, Terminate, Move, NoTraffic
<1>11. ASSUME NEW t \in Tasks, ConnectOk(t) PROVE TaskInv'
  BY <1>11 DEF ConnectOk, Move, NoTraffic
<1>12. ASSUME NEW t \in Tasks, ConnectErr(t) PROVE TaskInv'
  BY <1>12, FailTypes DEF ConnectErr, NoTraffic
<1>13. ASSUME NEW t \in Tasks, SendOk(t) PROVE TaskInv'
  <2>1. WriteEnds(t, TRUE) BY <1>13 DEF SendOk
  <2>2. /\ writing' \in [Tasks -> Seq(Msgs)]
        /\ \A u \in Tasks : Len(writing'[u]) <= 1
        /\ \A u \in Tasks : writing'[u] = IF u = t THEN <<>> ELSE writing[u]
        /\ settled' \in [Tasks -> Seq(Outcomes)]
    BY <2>1, WriteEndsTypes
  <2> QED BY <1>13, <2>2 DEF SendOk, WriteEnds
<1>14. ASSUME NEW t \in Tasks, SendErr(t) PROVE TaskInv'
  <2>1. WriteEnds(t, FALSE) /\ Fail(t) BY <1>14 DEF SendErr
  <2>2. /\ writing' \in [Tasks -> Seq(Msgs)]
        /\ \A u \in Tasks : Len(writing'[u]) <= 1
        /\ \A u \in Tasks : writing'[u] = IF u = t THEN <<>> ELSE writing[u]
        /\ settled' \in [Tasks -> Seq(Outcomes)]
    BY <2>1, WriteEndsTypes
  <2>3. /\ pc' \in [Tasks -> Places] /\ status' \in [Tasks -> Status]
        /\ attempt' \in [Tasks -> 0..AttemptBound]
        /\ pc'[t] \in {"backoff", "leaving"}
        /\ status'[t] = "Terminated" <=> pc'[t] = "leaving"
        /\ \A u \in Tasks \ {t} : pc'[u] = pc[u] /\ status'[u] = status[u]
    BY <2>1, FailTypes
  <2>4. /\ UNCHANGED <<outq, handle, signalled, pending, incoming, receiver,
                       accepted, texts, consumed>>
        /\ pc[t] = "sending"
    BY <2>1 DEF WriteEnds
  <2>5. TaskTypeOK'
    BY <2>2, <2>3, <2>4
  <2>6. ASSUME NEW u \in Tasks
        PROVE  /\ pc'[u] = "sending" <=> writing'[u] # <<>>
               /\ pc'[u] = "forwarding" <=> pending'[u] # 0
               /\ status'[u] = "Terminated" <=> pc'[u] \in Left
    <3>1. CASE u = t BY <2>2, <2>3, <2>4, <3>1
    <3>2. CASE u # t BY <2>2, <2>3, <2>4, <3>2
    <3> QED BY <3>1, <3>2
  <2> QED BY <2>5, <2>6
<1>23. ASSUME NEW t \in Tasks, TakeOutgoing(t) PROVE TaskInv'
  <2>1. /\ outq' \in [Tasks -> Seq(Msgs)]
        /\ writing' \in [Tasks -> Seq(Msgs)]
        /\ \A u \in Tasks : Len(outq'[u]) <= OutCap /\ Len(writing'[u]) <= 1
        /\ writing'[t] # <<>>
    BY <1>23, TakeOutgoingTypes
  <2>2. \A u \in Tasks \ {t} : writing'[u] = writing[u]
    BY <1>23 DEF TakeOutgoing
  <2> QED BY <1>23, <2>1, <2>2 DEF TakeOutgoing
<1>24. ASSUME NEW t \in Tasks, ReadPing(t) \/ PongEnds(t) PROVE TaskInv'
  BY <1>24 DEF ReadPing, PongEnds, NoTraffic
<1>15. ASSUME NEW t \in Tasks, SendersGone(t) PROVE TaskInv'
  BY <1>15 DEF SendersGone, CloseSocket, Move, NoTraffic
<1>16. ASSUME NEW t \in Tasks, ReadText(t) PROVE TaskInv'
  <2>1. texts[t] + 1 \in 1..TextBound
    BY <1>16 DEF ReadText
  <2>2. texts' \in [Tasks -> 0..TextBound] /\ pending' \in [Tasks -> 0..TextBound]
    BY <1>16, <2>1 DEF ReadText
  <2>3. TaskTypeOK' BY <1>16, <2>2 DEF ReadText
  <2>4. pending'[t] # 0 /\ pc'[t] = "forwarding" /\ status'[t] = status[t]
    BY <1>16, <2>1 DEF ReadText
  <2>5. \A u \in Tasks \ {t} : pending'[u] = pending[u] /\ pc'[u] = pc[u] /\ status'[u] = status[u]
    BY <1>16 DEF ReadText
  <2>6. TaskShape' BY <1>16, <2>4, <2>5 DEF ReadText
  <2> QED BY <2>3, <2>6
<1>17. ASSUME NEW t \in Tasks, ForwardText(t) PROVE TaskInv'
  <2>1. [task |-> t, n |-> pending[t]] \in Texts
    BY <1>17 DEF ForwardText, Texts
  <2>2. incoming' \in Seq(Texts) /\ Len(incoming') <= InCap
    BY <1>17, <2>1 DEF ForwardText
  <2> QED BY <1>17, <2>2 DEF ForwardText
<1>18. ASSUME NEW t \in Tasks, ReceiverGone(t) PROVE TaskInv'
  BY <1>18 DEF ReceiverGone, CloseSocket, Move
<1>19. ASSUME NEW t \in Tasks, ConnectionLost(t) PROVE TaskInv'
  BY <1>19, FailTypes DEF ConnectionLost, NoTraffic
<1>20. ASSUME NEW t \in Tasks, ShutdownWhileServing(t) PROVE TaskInv'
  BY <1>20 DEF ShutdownWhileServing, CloseSocket, Move, NoTraffic
<1>21. ASSUME NEW t \in Tasks, Return(t) PROVE TaskInv'
  BY <1>21 DEF Return
<1>22. CASE UNCHANGED taskVars
  BY <1>22 DEF taskVars
<1> QED
  BY <1>1, <1>2, <1>3, <1>4, <1>5, <1>6, <1>7, <1>8, <1>9, <1>10, <1>11,
     <1>12, <1>13, <1>14, <1>15, <1>16, <1>17, <1>18, <1>19, <1>20, <1>21,
     <1>22, <1>23, <1>24
     DEF TaskNext, TaskStep, HandleStep, ReceiverStep

\* The invariant of a task.
LEMMA TaskInvariant == TaskSpec => []TaskInv
  BY TaskInvInit, TaskInvStep, PTL DEF TaskSpec

(* Type correctness of the tasks and the capacity of their channels.       *)
THEOREM TaskTypeCorrect == TaskSpec => []TaskTypeOK
<1>1. TaskInv => TaskTypeOK BY DEF TaskInv
<1> QED BY <1>1, TaskInvariant, PTL

-----------------------------------------------------------------------------
(* Seen from the messages, a step is one of five: a message is accepted,   *)
(* one is taken off the queue, one is settled, the task returns, or        *)
(* nothing happens.                                                        *)
SameDone == \A u \in Tasks : pc'[u] = "done" <=> pc[u] = "done"

Quiet == UNCHANGED <<outq, writing, accepted, settled>> /\ SameDone

\* A step accepts a message, takes one, settles one, ends the task, or moves
\* none.
LEMMA MessageStep ==
  ASSUME TaskInv, [TaskNext]_taskVars
  PROVE  \/ \E t \in Tasks, m \in Msgs : Enqueue(t, m)
         \/ \E t \in Tasks : TakeOutgoing(t) /\ SameDone
         \/ \E t \in Tasks, ok \in BOOLEAN : WriteEnds(t, ok) /\ SameDone
         \/ \E t \in Tasks : Return(t)
         \/ Quiet
<1>t. pc \in [Tasks -> Places]
  BY DEF TaskInv, TaskTypeOK
<1> USE DEF Quiet, SameDone
<1>1. ASSUME NEW t \in Tasks, SendOk(t) PROVE WriteEnds(t, TRUE) /\ SameDone
  BY <1>1, <1>t DEF SendOk, WriteEnds
<1>2. ASSUME NEW t \in Tasks, SendErr(t) PROVE WriteEnds(t, FALSE) /\ SameDone
  <2>1. WriteEnds(t, FALSE) /\ Fail(t) BY <1>2 DEF SendErr
  <2>2. pc[t] # "done" BY <2>1 DEF WriteEnds
  <2> QED BY <2>1, <2>2, FailTypes
<1>7. ASSUME NEW t \in Tasks, TakeOutgoing(t) PROVE SameDone
  BY <1>7, <1>t DEF TakeOutgoing
<1>3. ASSUME NEW t \in Tasks,
             \/ SpawnRelay(t) \/ SignalShutdown(t) \/ DropHandle(t) \/ Start(t)
             \/ BackoffElapsed(t) \/ ShutdownInBackoff(t) \/ ConnectOk(t)
             \/ SendersGone(t) \/ ReadText(t) \/ ForwardText(t)
             \/ ReceiverGone(t) \/ ShutdownWhileServing(t)
             \/ ReadPing(t) \/ PongEnds(t)
      PROVE  Quiet
  <2>1. UNCHANGED <<outq, writing, accepted, settled>>
    BY <1>3 DEF SpawnRelay, SignalShutdown, DropHandle, Start, BackoffElapsed,
       ShutdownInBackoff, ConnectOk, SendersGone, ReadText, ForwardText,
       ReceiverGone, ShutdownWhileServing, ReadPing, PongEnds, NoTraffic
  <2>2. SameDone
    BY <1>3, <1>t DEF SpawnRelay, SignalShutdown, DropHandle, Start,
       BackoffElapsed, ShutdownInBackoff, ConnectOk, SendersGone, ReadText,
       ForwardText, ReceiverGone, ShutdownWhileServing, ReadPing, PongEnds,
       Terminate, CloseSocket, Move
  <2> QED BY <2>1, <2>2
<1>4. ASSUME NEW t \in Tasks, ConnectErr(t) \/ ConnectionLost(t) PROVE Quiet
  <2>1. Fail(t) /\ pc[t] # "done" /\ NoTraffic
    BY <1>4 DEF ConnectErr, ConnectionLost
  <2> QED BY <2>1, FailTypes DEF NoTraffic
<1>5. CASE ReceiverStep
  BY <1>5 DEF ReceiverStep, TakeReceiver, Consume, DropReceiver
<1>6. CASE UNCHANGED taskVars
  BY <1>6 DEF taskVars
<1> QED
  BY <1>1, <1>2, <1>3, <1>4, <1>5, <1>6, <1>7 DEF TaskNext, TaskStep, HandleStep

(* The ledger of one task under the three moves, as facts about sequences. *)
LEMMA AppendConserves ==
  ASSUME NEW w \in Seq(Msgs), NEW q \in Seq(Msgs), NEW s \in Seq(Outcomes),
         NEW a \in Seq(Msgs), NEW m \in Msgs,
         SettledInOrder(s, a), RestIsHeld(w, q, s, a)
  PROVE  /\ SettledInOrder(s, Append(a, m))
         /\ RestIsHeld(w, Append(q, m), s, Append(a, m))
<1> DEFINE k == Len(s) + Len(w)
<1>1. SettledInOrder(s, Append(a, m))
  BY DEF SettledInOrder
<1>0. Len(Append(q, m)) = Len(q) + 1 /\ Len(Append(a, m)) = Len(a) + 1
  OBVIOUS
<1>s. k + Len(q) = Len(a) /\ k \in Nat
  BY DEF RestIsHeld
<1>2. k + Len(Append(q, m)) = Len(Append(a, m))
  BY <1>0, <1>s
<1>4. \A i \in 1..Len(w) : w[i] = Append(a, m)[Len(s) + i]
  <2> TAKE i \in 1..Len(w)
  <2>1. Len(s) + i \in 1..Len(a) BY <1>s
  <2> QED BY <2>1 DEF RestIsHeld
<1>5. \A i \in 1..Len(q) : q[i] = a[k + i]
  BY DEF RestIsHeld
<1> HIDE DEF k
<1>3. ASSUME NEW i \in 1..Len(Append(q, m))
      PROVE  Append(q, m)[i] = Append(a, m)[k + i]
  <2>1. CASE i = Len(q) + 1
    <3>1. k + i = Len(a) + 1 BY <1>s, <2>1
    <3>2. Append(q, m)[Len(q) + 1] = m /\ Append(a, m)[Len(a) + 1] = m
      OBVIOUS
    <3>3. Append(q, m)[i] = m BY <2>1, <3>2
    <3>4. Append(a, m)[k + i] = m BY <3>1, <3>2
    <3> QED BY <3>3, <3>4
  <2>2. CASE i \in 1..Len(q)
    <3>1. k + i \in 1..Len(a) BY <1>s, <2>2
    <3> QED BY <1>5, <2>2, <3>1
  <2>3. i = Len(q) + 1 \/ i \in 1..Len(q) BY <1>0
  <2> QED BY <2>1, <2>2, <2>3
<1> QED BY <1>1, <1>2, <1>3, <1>4 DEF RestIsHeld, k

\* The first message queued is the next to be written.
LEMMA TakeConserves ==
  ASSUME NEW q \in Seq(Msgs), NEW s \in Seq(Outcomes), NEW a \in Seq(Msgs),
         q # <<>>, RestIsHeld(<<>>, q, s, a)
  PROVE  RestIsHeld(<<Head(q)>>, Tail(q), s, a)
<1>0. 1 \in 1..Len(q) /\ Head(q) = q[1] /\ Len(Tail(q)) = Len(q) - 1
      /\ \A i \in 1..Len(q) - 1 : Tail(q)[i] = q[i + 1]
  OBVIOUS
<1>1. Len(s) + Len(q) = Len(a) /\ \A i \in 1..Len(q) : q[i] = a[Len(s) + i]
  BY DEF RestIsHeld
<1>2. Len(<<Head(q)>>) = 1 /\ <<Head(q)>>[1] = q[1]
  BY <1>0
<1> DEFINE h == <<Head(q)>>
           r == Tail(q)
<1>3. Len(h) = 1 /\ h[1] = q[1] /\ Len(r) = Len(q) - 1
      /\ Len(q) \in Nat /\ Len(s) \in Nat
      /\ \A i \in 1..Len(q) - 1 : r[i] = q[i + 1]
  BY <1>0, <1>2
<1> HIDE DEF h, r
<1>4. Len(s) + Len(h) + Len(r) = Len(a)
  <2>1. /\ Len(s) + Len(q) = Len(a) /\ Len(s) \in Nat /\ Len(q) \in Nat
        /\ Len(h) = 1 /\ Len(r) = Len(q) - 1
    BY <1>1, <1>3
  <2>2. ASSUME NEW i \in Nat, NEW j \in Nat, NEW k, i + j = k
        PROVE  i + 1 + (j - 1) = k
    BY <2>2
  <2> QED BY ONLY <2>1, <2>2
<1>5. \A i \in 1..Len(h) : h[i] = a[Len(s) + i]
  BY <1>0, <1>1, <1>3
<1>6. ASSUME NEW i \in 1..Len(r) PROVE r[i] = a[Len(s) + Len(h) + i]
  <2>1. i + 1 \in 1..Len(q) /\ r[i] = q[i + 1]
    BY <1>3
  <2>2. Len(s) + Len(h) + i = Len(s) + (i + 1)
    BY <1>3
  <2> QED BY <1>1, <2>1, <2>2
<1>7. RestIsHeld(h, r, s, a)
  BY <1>4, <1>5, <1>6 DEF RestIsHeld
<1> QED BY <1>7 DEF h, r

\* The message being written is the next to be settled.
LEMMA SettleConserves ==
  ASSUME NEW w \in Seq(Msgs), NEW q \in Seq(Msgs), NEW s \in Seq(Outcomes),
         NEW a \in Seq(Msgs), NEW ok \in BOOLEAN, w # <<>>, Len(w) <= 1,
         SettledInOrder(s, a), RestIsHeld(w, q, s, a)
  PROVE  LET o == [msg |-> Head(w), sent |-> ok]
         IN  /\ Len(s) < Len(a) /\ o.msg = a[Len(s) + 1]
             /\ SettledInOrder(Append(s, o), a)
             /\ RestIsHeld(<<>>, q, Append(s, o), a)
<1> DEFINE o == [msg |-> Head(w), sent |-> ok]
<1>l. Len(w) \in Nat /\ Len(w) # 0
  OBVIOUS
<1>n. Len(w) = 1
  <2>1. ASSUME NEW n \in Nat, n # 0, n <= 1 PROVE n = 1
    BY <2>1
  <2> QED BY <1>l, <2>1
<1>h. Head(w) = w[1]
  OBVIOUS
<1>0. 1 \in 1..Len(w) /\ Len(w) = 1 /\ Head(w) = w[1]
  BY <1>n, <1>h
<1>1. Len(s) < Len(a) /\ o.msg = a[Len(s) + 1]
  BY <1>0 DEF RestIsHeld
<1>o. o \in Outcomes
  BY <1>0 DEF Outcomes
<1>q. /\ Len(s) + 1 + Len(q) = Len(a)
      /\ \A i \in 1..Len(q) : q[i] = a[Len(s) + 1 + i]
  BY <1>0 DEF RestIsHeld
<1> HIDE DEF o
<1>2. SettledInOrder(Append(s, o), a)
  <2> SUFFICES ASSUME NEW i \in 1..Len(Append(s, o))
               PROVE  i <= Len(a) /\ Append(s, o)[i].msg = a[i]
    BY DEF SettledInOrder
  <2>1. CASE i = Len(s) + 1 BY <1>1, <1>o, <2>1
  <2>2. CASE i \in 1..Len(s) BY <1>o, <2>2 DEF SettledInOrder
  <2> QED BY <1>o, <2>1, <2>2
<1>3. Len(Append(s, o)) = Len(s) + 1
  BY <1>o
<1>4. RestIsHeld(<<>>, q, Append(s, o), a)
  BY <1>3, <1>q DEF RestIsHeld
<1> QED BY <1>1, <1>2, <1>4 DEF o

\* Every step conserves the messages accepted.
LEMMA OutboundStep ==
  TaskInv /\ OutboundConserved /\ [TaskNext]_taskVars => OutboundConserved'
<1> SUFFICES ASSUME TaskInv, OutboundConserved, [TaskNext]_taskVars
             PROVE  OutboundConserved'
  OBVIOUS
<1>t. pc \in [Tasks -> Places] BY DEF TaskInv, TaskTypeOK
<1>s. /\ outq \in [Tasks -> Seq(Msgs)] /\ accepted \in [Tasks -> Seq(Msgs)]
      /\ writing \in [Tasks -> Seq(Msgs)] /\ settled \in [Tasks -> Seq(Outcomes)]
      /\ \A u \in Tasks : Len(writing[u]) <= 1
  BY DEF TaskInv, TaskTypeOK
<1>w. \A u \in Tasks : pc[u] = "sending" <=> writing[u] # <<>>
  BY DEF TaskInv, TaskShape
<1> DEFINE Ledger(u, w, q, s, a) ==
             SettledInOrder(s, a) /\ (pc'[u] # "done" => RestIsHeld(w, q, s, a))
<1>g. ASSUME \A u \in Tasks :
               Ledger(u, writing'[u], outq'[u], settled'[u], accepted'[u])
      PROVE  OutboundConserved'
  BY <1>g DEF OutboundConserved
<1>1. ASSUME NEW t \in Tasks, NEW m \in Msgs, Enqueue(t, m)
      PROVE  OutboundConserved'
  <2>1. /\ outq' = [outq EXCEPT ![t] = Append(outq[t], m)]
        /\ accepted' = [accepted EXCEPT ![t] = Append(accepted[t], m)]
        /\ UNCHANGED <<writing, settled, pc>> /\ pc[t] # "done"
    BY <1>1 DEF Enqueue, Running
  <2>2. /\ SettledInOrder(settled[t], Append(accepted[t], m))
        /\ RestIsHeld(writing[t], Append(outq[t], m), settled[t], Append(accepted[t], m))
    BY <1>s, <2>1, AppendConserves DEF OutboundConserved
  <2>3. ASSUME NEW u \in Tasks
        PROVE  Ledger(u, writing'[u], outq'[u], settled'[u], accepted'[u])
    BY <1>s, <2>1, <2>2 DEF OutboundConserved
  <2> QED BY <1>g, <2>3
<1>2. ASSUME NEW t \in Tasks, TakeOutgoing(t), SameDone PROVE OutboundConserved'
  <2> DEFINE h == <<Head(outq[t])>>
  <2>1. /\ outq' = [outq EXCEPT ![t] = Tail(outq[t])]
        /\ writing' = [writing EXCEPT ![t] = h]
        /\ UNCHANGED <<accepted, settled>> /\ outq[t] # <<>>
        /\ writing[t] = <<>> /\ pc[t] # "done"
    BY <1>2, <1>w DEF TakeOutgoing
  <2>2. RestIsHeld(h, Tail(outq[t]), settled[t], accepted[t])
    BY <1>s, <2>1, TakeConserves DEF OutboundConserved
  <2> HIDE DEF h
  <2>3. ASSUME NEW u \in Tasks
        PROVE  Ledger(u, writing'[u], outq'[u], settled'[u], accepted'[u])
    BY <1>2, <1>s, <2>1, <2>2 DEF OutboundConserved, SameDone
  <2> QED BY <1>g, <2>3
<1>5. ASSUME NEW t \in Tasks, NEW ok \in BOOLEAN, WriteEnds(t, ok), SameDone
      PROVE  OutboundConserved'
  <2> DEFINE o == [msg |-> Head(writing[t]), sent |-> ok]
  <2>1. /\ writing' = [writing EXCEPT ![t] = <<>>]
        /\ settled' = [settled EXCEPT ![t] = Append(settled[t], o)]
        /\ UNCHANGED <<accepted, outq>> /\ pc[t] # "done" /\ writing[t] # <<>>
    BY <1>5, <1>w DEF WriteEnds
  <2>2. /\ SettledInOrder(Append(settled[t], o), accepted[t])
        /\ RestIsHeld(<<>>, outq[t], Append(settled[t], o), accepted[t])
    BY <1>s, <2>1, SettleConserves DEF OutboundConserved
  <2> HIDE DEF o
  <2>3. ASSUME NEW u \in Tasks
        PROVE  Ledger(u, writing'[u], outq'[u], settled'[u], accepted'[u])
    BY <1>5, <1>s, <2>1, <2>2 DEF OutboundConserved, SameDone
  <2> QED BY <1>g, <2>3
<1>3. ASSUME NEW t \in Tasks, Return(t) PROVE OutboundConserved'
  <2>1. ASSUME NEW u \in Tasks
        PROVE  Ledger(u, writing'[u], outq'[u], settled'[u], accepted'[u])
    BY <1>3, <1>t, <1>s DEF Return, OutboundConserved
  <2> QED BY <1>g, <2>1
<1>4. CASE Quiet
  BY <1>4 DEF Quiet, SameDone, OutboundConserved
<1> QED BY <1>1, <1>2, <1>3, <1>4, <1>5, MessageStep

(* Every message a handle accepted is settled once, in order, or is still  *)
(* queued in order: whatever the connections, faults and capacities.       *)
THEOREM TaskConserves == TaskSpec => []OutboundConserved
<1>1. TaskInit => OutboundConserved
  <2>1. SettledInOrder(<<>>, <<>>) /\ RestIsHeld(<<>>, <<>>, <<>>, <<>>)
    BY DEF SettledInOrder, RestIsHeld
  <2> QED BY <2>1 DEF TaskInit, OutboundConserved
<1> QED BY <1>1, OutboundStep, TaskInvariant, PTL DEF TaskSpec

-----------------------------------------------------------------------------
(* Inbound: the text in a task's hand is the last one that it has read.    *)
HoldsLast == \A t \in Tasks : pending[t] \in {0, texts[t]}

InboundInv == HoldsLast /\ InboundConserved

(* Seen from the texts, a step reads one, forwards one, hands one to the   *)
(* application, gives up the receiver, or does nothing.                    *)
LEMMA TextStep ==
  ASSUME [TaskNext]_taskVars
  PROVE  \/ \E t \in Tasks : ReadText(t) \/ ForwardText(t)
         \/ Consume
         \/ /\ receiver' = "dropped" /\ texts' = texts
            /\ \/ pending' = pending
               \/ \E t \in Tasks : pending' = [pending EXCEPT ![t] = 0]
         \/ /\ UNCHANGED <<texts, pending, consumed, incoming>>
            /\ receiver = "dropped" => receiver' = "dropped"
<1> DEFINE Still == /\ UNCHANGED <<texts, pending, consumed, incoming>>
                    /\ receiver = "dropped" => receiver' = "dropped"
<1>1. ASSUME NEW t \in Tasks, HandleStep(t) PROVE Still
  BY <1>1 DEF HandleStep, SpawnRelay, Enqueue, SignalShutdown, DropHandle
<1>2. ASSUME NEW t \in Tasks,
             \/ Start(t) \/ BackoffElapsed(t) \/ ShutdownInBackoff(t)
             \/ ConnectOk(t) \/ ConnectErr(t) \/ SendersGone(t)
             \/ ConnectionLost(t) \/ ShutdownWhileServing(t)
             \/ ReadPing(t) \/ PongEnds(t)
      PROVE  Still
  <2>1. NoTraffic
    BY <1>2 DEF Start, BackoffElapsed, ShutdownInBackoff, ConnectOk, ConnectErr,
                SendersGone, ConnectionLost, ShutdownWhileServing, ReadPing, PongEnds
  <2> QED BY <2>1 DEF NoTraffic
<1>3. ASSUME NEW t \in Tasks,
             TakeOutgoing(t) \/ SendOk(t) \/ SendErr(t) \/ Return(t)
      PROVE  Still
  BY <1>3 DEF SendOk, SendErr, WriteEnds, TakeOutgoing, Return
<1>4. ASSUME NEW t \in Tasks, ReceiverGone(t)
      PROVE  receiver' = "dropped" /\ texts' = texts /\ pending' = [pending EXCEPT ![t] = 0]
  BY <1>4 DEF ReceiverGone
<1>5. TakeReceiver => Still
  BY DEF TakeReceiver
<1>6. DropReceiver => receiver' = "dropped" /\ texts' = texts /\ pending' = pending
  BY DEF DropReceiver
<1>7. UNCHANGED taskVars => Still
  BY DEF taskVars
<1> HIDE DEF Still
<1>8. \/ \E t \in Tasks : ReadText(t) \/ ForwardText(t)
      \/ Consume
      \/ /\ receiver' = "dropped" /\ texts' = texts
         /\ \/ pending' = pending
            \/ \E t \in Tasks : pending' = [pending EXCEPT ![t] = 0]
      \/ Still
  BY <1>1, <1>2, <1>3, <1>4, <1>5, <1>6, <1>7 DEF TaskNext, TaskStep, ReceiverStep
<1> QED BY <1>8 DEF Still

(* What one text more at the end does to the texts of each task.           *)
LEMMA AppendHasFirst ==
  ASSUME NEW all \in Seq(Texts), NEW t \in Tasks, NEW k \in 1..TextBound, TextBound \in Nat,
         HasFirst(t, k - 1, all)
  PROVE  HasFirst(t, k, Append(all, [task |-> t, n |-> k]))
<1> DEFINE x == [task |-> t, n |-> k]
           more == Append(all, x)
<1>1. x \in Texts /\ x.task = t /\ x.n = k
  BY DEF Texts
<1>2. /\ Len(all) \in Nat /\ Len(more) = Len(all) + 1 /\ more[Len(all) + 1] = x
      /\ \A i \in 1..Len(all) : more[i] = all[i] /\ all[i] \in Texts
  BY <1>1
<1> HIDE DEF more
<1>3. \A i \in 1..Len(more) : i \in 1..Len(all) \/ i = Len(all) + 1
  BY <1>2
<1>4. ASSUME NEW n \in 1..TextBound
      PROVE  (\E i \in 1..Len(more) : more[i] = [task |-> t, n |-> n]) <=> n <= k
  <2>1. (\E i \in 1..Len(all) : all[i] = [task |-> t, n |-> n]) <=> n <= k - 1
    BY DEF HasFirst
  <2>2. CASE n = k
    BY <1>2, <2>2
  <2>3. CASE n # k
    <3>1. x # [task |-> t, n |-> n]
      BY <2>3
    <3>2. ASSUME NEW i \in 1..Len(more), more[i] = [task |-> t, n |-> n]
          PROVE  \E j \in 1..Len(all) : all[j] = [task |-> t, n |-> n]
      BY <1>2, <1>3, <3>1, <3>2
    <3>3. ASSUME NEW i \in 1..Len(all), all[i] = [task |-> t, n |-> n]
          PROVE  \E j \in 1..Len(more) : more[j] = [task |-> t, n |-> n]
      <4>1. i \in 1..Len(more) /\ more[i] = all[i]
        BY <1>2
      <4> QED BY <3>3, <4>1
    <3>4. n <= k - 1 <=> n <= k
      BY <2>3
    <3> QED BY <2>1, <3>2, <3>3, <3>4
  <2> QED BY <2>2, <2>3
<1>5. ASSUME NEW i \in 1..Len(more), NEW j \in 1..Len(more), i < j,
             more[i].task = t, more[j].task = t
      PROVE  more[i].n < more[j].n
  <2>1. i \in 1..Len(all)
    BY <1>2, <1>5
  <2>2. CASE j \in 1..Len(all)
    BY <1>2, <1>5, <2>1, <2>2 DEF HasFirst
  <2>3. CASE j = Len(all) + 1
    <3>1. all[i] \in Texts /\ all[i].task = t
      BY <1>2, <1>5, <2>1
    <3>2. all[i].n \in 1..TextBound /\ all[i] = [task |-> t, n |-> all[i].n]
      BY <3>1 DEF Texts
    <3>3. all[i].n <= k - 1
      BY <2>1, <3>2 DEF HasFirst
    <3>4. more[i] = all[i] /\ more[j].n = k
      BY <1>1, <1>2, <2>1, <2>3
    <3> QED BY <3>2, <3>3, <3>4
  <2> QED BY <1>3, <2>2, <2>3
<1>6. HasFirst(t, k, more)
  BY <1>4, <1>5 DEF HasFirst
<1> QED BY <1>6 DEF more

\* A text of another task leaves those of this one.
LEMMA OtherHasFirst ==
  ASSUME NEW all \in Seq(Texts), NEW t \in Tasks, NEW x \in Texts, x.task # t, NEW k \in Nat,
         HasFirst(t, k, all)
  PROVE  HasFirst(t, k, Append(all, x))
<1> DEFINE more == Append(all, x)
<1>2. /\ Len(all) \in Nat /\ Len(more) = Len(all) + 1 /\ more[Len(all) + 1] = x
      /\ \A i \in 1..Len(all) : more[i] = all[i]
  OBVIOUS
<1> HIDE DEF more
<1>3. \A i \in 1..Len(more) : i \in 1..Len(all) \/ i = Len(all) + 1
  BY <1>2
<1>4. ASSUME NEW n \in 1..TextBound
      PROVE  (\E i \in 1..Len(more) : more[i] = [task |-> t, n |-> n]) <=> n <= k
  <2>1. x # [task |-> t, n |-> n]
    OBVIOUS
  <2>2. (\E i \in 1..Len(more) : more[i] = [task |-> t, n |-> n])
          <=> (\E i \in 1..Len(all) : all[i] = [task |-> t, n |-> n])
    BY <1>2, <1>3, <2>1
  <2> QED BY <2>2 DEF HasFirst
<1>5. ASSUME NEW i \in 1..Len(more), NEW j \in 1..Len(more), i < j,
             more[i].task = t, more[j].task = t
      PROVE  more[i].n < more[j].n
  <2>1. i \in 1..Len(all) /\ j \in 1..Len(all)
    BY <1>2, <1>3, <1>5
  <2> QED BY <1>2, <1>5, <2>1 DEF HasFirst
<1>6. HasFirst(t, k, more)
  BY <1>4, <1>5 DEF HasFirst
<1> QED BY <1>6 DEF more

\* A text consumed is only moved from one sequence to the other.
LEMMA ConsumeKeepsAll ==
  ASSUME NEW S, NEW c \in Seq(S), NEW q \in Seq(S), q # <<>>
  PROVE  Append(c, Head(q)) \o Tail(q) = c \o q
<1>1. /\ Head(q) \in S /\ Tail(q) \in Seq(S) /\ Len(q) \in Nat /\ Len(q) > 0
      /\ Len(Tail(q)) = Len(q) - 1 /\ \A i \in 1..Len(q) - 1 : Tail(q)[i] = q[i + 1]
      /\ Head(q) = q[1] /\ Len(c) \in Nat
  OBVIOUS
<1> DEFINE h == <<Head(q)>>
           r == Tail(q)
<1>2. h \in Seq(S) /\ Len(h) = 1 /\ h[1] = q[1]
  BY <1>1
<1>3. r \in Seq(S) /\ Len(r) = Len(q) - 1 /\ \A i \in 1..Len(q) - 1 : r[i] = q[i + 1]
  BY <1>1
<1>4. Append(c, Head(q)) = c \o h
  BY <1>1, AppendIsConcat
<1> HIDE DEF h, r
<1>t. c \in Seq(S) /\ h \in Seq(S) /\ r \in Seq(S)
  BY <1>2, <1>3
<1>5. /\ h \o r \in Seq(S) /\ Len(h \o r) = Len(h) + Len(r)
      /\ \A i \in 1..Len(h) + Len(r) :
           (h \o r)[i] = IF i <= Len(h) THEN h[i] ELSE r[i - Len(h)]
  BY ONLY <1>t, ConcatProperties, Zenon
<1>6. ASSUME NEW i \in 1..Len(q) PROVE (h \o r)[i] = q[i]
  <2>1. (h \o r)[i] = IF i <= 1 THEN h[i] ELSE r[i - 1]
    BY <1>1, <1>2, <1>3, <1>5
  <2>2. CASE i = 1
    BY <1>2, <2>1, <2>2
  <2>3. CASE i # 1
    <3>1. i - 1 \in 1..Len(q) - 1 /\ (i - 1) + 1 = i /\ ~(i <= 1)
      BY <1>1, <2>3
    <3>2. r[i - 1] = q[i]
      BY <1>3, <3>1
    <3> QED BY <2>1, <3>1, <3>2
  <2> QED BY <2>2, <2>3
<1>7. Len(h \o r) = Len(q)
  BY <1>1, <1>2, <1>3, <1>5
<1>8. h \o r = q
  BY <1>5, <1>6, <1>7, SeqEqual
<1>9. (c \o h) \o r = c \o (h \o r)
  BY ONLY <1>t, ConcatAssociative
<1> QED BY <1>4, <1>8, <1>9 DEF r

\* Every step conserves the texts read.
LEMMA InboundStep ==
  TaskInv /\ InboundInv /\ [TaskNext]_taskVars => InboundInv'
<1> SUFFICES ASSUME TaskInv, InboundInv, [TaskNext]_taskVars PROVE InboundInv'
  OBVIOUS
<1>t. /\ pending \in [Tasks -> 0..TextBound] /\ texts \in [Tasks -> 0..TextBound]
      /\ incoming \in Seq(Texts) /\ consumed \in Seq(Texts) /\ TextBound \in Nat
  BY TaskAssumption DEF TaskInv, TaskTypeOK
<1>h. /\ \A t \in Tasks : pending[t] \in {0, texts[t]}
      /\ receiver # "dropped" =>
           \A t \in Tasks : HasFirst(t, Forwarded(t), consumed \o incoming)
  BY DEF InboundInv, HoldsLast, InboundConserved
<1>f. \A t \in Tasks : (pc[t] = "forwarding" <=> pending[t] # 0)
  BY DEF TaskInv, TaskShape
<1>1. ASSUME NEW t \in Tasks, ReadText(t) PROVE InboundInv'
  <2>1. /\ pending[t] = 0 /\ texts' = [texts EXCEPT ![t] = texts[t] + 1]
        /\ pending' = [pending EXCEPT ![t] = texts[t] + 1]
        /\ UNCHANGED <<incoming, receiver, consumed>>
    BY <1>1, <1>f DEF ReadText
  <2>2. ASSUME NEW u \in Tasks
        PROVE  pending'[u] \in {0, texts'[u]} /\ Forwarded(u)' = Forwarded(u)
    BY <1>t, <1>h, <2>1 DEF Forwarded
  <2> QED BY <1>h, <2>1, <2>2 DEF InboundInv, HoldsLast, InboundConserved
<1>2. ASSUME NEW t \in Tasks, ForwardText(t) PROVE InboundInv'
  <2> DEFINE x == [task |-> t, n |-> pending[t]]
  <2>1. /\ pending[t] # 0 /\ pending' = [pending EXCEPT ![t] = 0]
        /\ incoming' = Append(incoming, x)
        /\ UNCHANGED <<texts, receiver, consumed>> /\ receiver # "dropped"
    BY <1>2, <1>f DEF ForwardText
  <2>2. pending[t] = texts[t] /\ pending[t] \in 1..TextBound
    BY <1>t, <1>h, <2>1
  <2>3. x \in Texts /\ x.task = t
    BY <2>2 DEF Texts
  <2>4. /\ consumed \o incoming \in Seq(Texts)
        /\ consumed' \o incoming' = Append(consumed \o incoming, x)
    <3>1. consumed \o Append(incoming, x) = Append(consumed \o incoming, x)
      <4>1. /\ Append(consumed \o incoming, x) = (consumed \o incoming) \o <<x>>
            /\ Append(incoming, x) = incoming \o <<x>>
            /\ consumed \o incoming \in Seq(Texts) /\ <<x>> \in Seq(Texts)
        BY <1>t, <2>3, AppendIsConcat
      <4> QED BY <1>t, <4>1, ConcatAssociative
    <3> QED BY <1>t, <2>1, <3>1
  <2> HIDE DEF x
  <2>5. ASSUME NEW u \in Tasks
        PROVE  HasFirst(u, Forwarded(u)', consumed' \o incoming')
    <3>1. HasFirst(u, Forwarded(u), consumed \o incoming)
      BY <1>h, <2>1
    <3>2. CASE u = t
      <4>1. Forwarded(u) = pending[t] - 1 /\ Forwarded(u)' = pending[t]
        BY <1>t, <2>1, <2>2, <3>2 DEF Forwarded
      <4> QED BY <1>t, <2>2, <2>4, <3>1, <3>2, <4>1, AppendHasFirst DEF x
    <3>3. CASE u # t
      <4>1. Forwarded(u)' = Forwarded(u) /\ Forwarded(u) \in Nat
        BY <1>t, <1>h, <2>1, <3>3 DEF Forwarded
      <4> QED BY <2>3, <2>4, <3>1, <3>3, <4>1, OtherHasFirst
    <3> QED BY <3>2, <3>3
  <2>6. HoldsLast'
    BY <1>t, <1>h, <2>1 DEF HoldsLast
  <2> QED BY <2>5, <2>6 DEF InboundInv, InboundConserved, HasFirst
<1>3. CASE Consume
  <2>1. /\ incoming # <<>> /\ consumed' = Append(consumed, Head(incoming))
        /\ incoming' = Tail(incoming) /\ UNCHANGED <<texts, pending, receiver>>
    BY <1>3 DEF Consume
  <2>2. consumed' \o incoming' = consumed \o incoming
    BY <1>t, <2>1, ConsumeKeepsAll
  <2>3. \A t \in Tasks : Forwarded(t)' = Forwarded(t)
    BY <2>1 DEF Forwarded
  <2> QED BY <1>h, <2>1, <2>2, <2>3 DEF InboundInv, HoldsLast, InboundConserved
<1>4. CASE receiver' = "dropped" /\ texts' = texts
           /\ (pending' = pending \/ \E t \in Tasks : pending' = [pending EXCEPT ![t] = 0])
  BY <1>t, <1>h, <1>4 DEF InboundInv, HoldsLast, InboundConserved
<1>5. CASE UNCHANGED <<texts, pending, consumed, incoming>>
           /\ (receiver = "dropped" => receiver' = "dropped")
  <2>1. \A t \in Tasks : Forwarded(t)' = Forwarded(t)
    BY <1>5 DEF Forwarded
  <2> QED BY <1>h, <1>5, <2>1 DEF InboundInv, HoldsLast, InboundConserved
<1> QED BY <1>1, <1>2, <1>3, <1>4, <1>5, TextStep

(* No text that a relay sent is lost, repeated or overtaken on its way to  *)
(* the application, whatever the connections and the capacities.           *)
THEOREM TaskInboundConserved == TaskSpec => []InboundConserved
<1>1. TaskInit => InboundInv
  <2> SUFFICES ASSUME TaskInit PROVE InboundInv
    OBVIOUS
  <2>0. \A t \in Tasks : pending[t] = 0 /\ texts[t] = 0
    BY DEF TaskInit
  <2>1. ASSUME NEW t \in Tasks
        PROVE  pending[t] = 0 /\ texts[t] = 0 /\ Forwarded(t) = 0
    <3>1. texts[t] = 0 /\ pending[t] = 0
      BY <2>0
    <3>2. Forwarded(t) = 0 - 0
      BY <3>1 DEF Forwarded
    <3> QED BY <3>1, <3>2
  <2>2. consumed \o incoming = <<>>
    BY DEF TaskInit
  <2>3. ASSUME NEW t \in Tasks PROVE HasFirst(t, 0, <<>>)
    BY TaskAssumption DEF HasFirst
  <2> QED BY <2>1, <2>2, <2>3 DEF InboundInv, HoldsLast, InboundConserved
<1>2. InboundInv => InboundConserved
  BY DEF InboundInv
<1> QED BY <1>1, <1>2, InboundStep, TaskInvariant, PTL DEF TaskSpec

-----------------------------------------------------------------------------
(* Why a task ends.  The reason a task left its loop for stays visible.    *)

\* A failure ends a task only when its retries have run out.
LEMMA FailReason ==
  ASSUME NEW t \in Tasks, TaskInv, Fail(t), status'[t] = "Terminated"
  PROVE  MaxRetries # NoLimit /\ attempt'[t] > MaxRetries
<1>1. attempt'[t] = Bump(attempt[t])
  BY DEF Fail, TaskInv, TaskTypeOK
<1>2. ~Move(t, "backoff", "Reconnecting")
  BY DEF Move, TaskInv, TaskTypeOK
<1> QED BY <1>1, <1>2 DEF Fail

\* A task that ends has a reason.
LEMMA NeverAbandonedStep ==
  TaskInv /\ NeverAbandoned /\ [TaskNext]_taskVars => NeverAbandoned'
<1> SUFFICES ASSUME TaskInv, NeverAbandoned, [TaskNext]_taskVars,
                    NEW u \in Tasks, status'[u] = "Terminated"
             PROVE  ShutdownReady(u)' \/ receiver' = "dropped" \/ OutOfRetries(u)'
  BY DEF NeverAbandoned
<1> DEFINE Reason == ShutdownReady(u) \/ receiver = "dropped" \/ OutOfRetries(u)
<1>t. /\ pc \in [Tasks -> Places] /\ status \in [Tasks -> Status]
      /\ attempt \in [Tasks -> 0..AttemptBound]
      /\ handle \in [Tasks -> BOOLEAN] /\ signalled \in [Tasks -> BOOLEAN]
  BY DEF TaskInv, TaskTypeOK
<1>s. status[u] = "Terminated" => Reason /\ pc[u] \in Left
  BY DEF NeverAbandoned, TaskInv, TaskShape
<1> USE DEF ShutdownReady, OutOfRetries, Left
<1>1. ASSUME NEW t \in Tasks, SpawnRelay(t) PROVE Reason'
  BY <1>1, <1>s, <1>t DEF SpawnRelay
<1>2. ASSUME NEW t \in Tasks, NEW m \in Msgs, Enqueue(t, m) PROVE Reason'
  BY <1>2, <1>s DEF Enqueue
<1>3. ASSUME NEW t \in Tasks, SignalShutdown(t) PROVE Reason'
  BY <1>3, <1>s, <1>t DEF SignalShutdown
<1>4. ASSUME NEW t \in Tasks, DropHandle(t) PROVE Reason'
  BY <1>4, <1>s, <1>t DEF DropHandle
<1>5. ASSUME NEW t \in Tasks, Start(t) \/ BackoffElapsed(t) PROVE Reason'
  BY <1>5, <1>s, <1>t DEF Start, BackoffElapsed, Move, NoTraffic
<1>6. ASSUME NEW t \in Tasks, ShutdownInBackoff(t) \/ ShutdownWhileServing(t) \/ SendersGone(t)
      PROVE  Reason'
  BY <1>6, <1>s, <1>t
     DEF ShutdownInBackoff, ShutdownWhileServing, SendersGone, Terminate, CloseSocket,
         Move, NoTraffic
<1>7. ASSUME NEW t \in Tasks, ConnectOk(t) PROVE Reason'
  BY <1>7, <1>s, <1>t DEF ConnectOk, Move, NoTraffic
<1>8. ASSUME NEW t \in Tasks, Fail(t), pc[t] \notin Left,
             UNCHANGED <<handle, signalled, receiver>>
      PROVE  Reason'
  <2>1. CASE u = t BY <1>8, <2>1, FailReason
  <2>2. CASE u # t
    <3>1. status'[u] = status[u] /\ attempt'[u] = attempt[u]
      BY <1>8, <1>t, <2>2, FailTypes DEF Fail
    <3> QED BY <1>8, <1>s, <3>1
  <2> QED BY <2>1, <2>2
<1>9. ASSUME NEW t \in Tasks, ConnectErr(t) \/ ConnectionLost(t) PROVE Reason'
  BY <1>8, <1>9 DEF ConnectErr, ConnectionLost, NoTraffic
<1>10. ASSUME NEW t \in Tasks, SendOk(t) PROVE Reason'
  BY <1>10, <1>s DEF SendOk, WriteEnds
<1>11. ASSUME NEW t \in Tasks, SendErr(t) PROVE Reason'
  BY <1>8, <1>11 DEF SendErr, WriteEnds
<1>16. ASSUME NEW t \in Tasks, TakeOutgoing(t) \/ ReadPing(t) \/ PongEnds(t) PROVE Reason'
  BY <1>16, <1>s DEF TakeOutgoing, ReadPing, PongEnds, NoTraffic
<1>12. ASSUME NEW t \in Tasks, ReadText(t) \/ ForwardText(t) \/ Return(t) PROVE Reason'
  BY <1>12, <1>s DEF ReadText, ForwardText, Return
<1>13. ASSUME NEW t \in Tasks, ReceiverGone(t) PROVE Reason'
  BY <1>13 DEF ReceiverGone
<1>14. CASE ReceiverStep
  BY <1>14, <1>s DEF ReceiverStep, TakeReceiver, Consume, DropReceiver
<1>15. CASE UNCHANGED taskVars
  BY <1>15, <1>s DEF taskVars
<1> QED
  BY <1>1, <1>2, <1>3, <1>4, <1>5, <1>6, <1>7, <1>9, <1>10, <1>11, <1>12,
     <1>13, <1>14, <1>15, <1>16
     DEF TaskNext, TaskStep, HandleStep

(* A relay is never given up but for a reason its owner can see.           *)
THEOREM TaskNeverAbandoned == TaskSpec => []NeverAbandoned
<1>1. TaskInit => NeverAbandoned
  BY DEF TaskInit, NeverAbandoned
<1> QED BY <1>1, NeverAbandonedStep, TaskInvariant, PTL DEF TaskSpec

-----------------------------------------------------------------------------
(* What a step may do to a task that has left its loop, and to the status  *)
(* of a task in it.                                                        *)
Final(t) ==
  status[t] = "Terminated" =>
    /\ status'[t] = "Terminated"
    /\ settled'[t] = settled[t]
    /\ texts'[t] = texts[t] /\ pending'[t] = pending[t]

\* A task that has terminated stays so, and settles and reads nothing more.
LEMMA FinalStep ==
  ASSUME TaskInv, [TaskNext]_taskVars, NEW u \in Tasks
  PROVE  Final(u)
<1>t. /\ status \in [Tasks -> Status] /\ settled \in [Tasks -> Seq(Outcomes)]
      /\ texts \in [Tasks -> 0..TextBound] /\ pending \in [Tasks -> 0..TextBound]
  BY DEF TaskInv, TaskTypeOK
<1>s. status[u] = "Terminated" => pc[u] \in Left
  BY DEF TaskInv, TaskShape
<1> USE DEF Final, Left
<1>1. ASSUME NEW t \in Tasks, NEW m \in Msgs, Enqueue(t, m) PROVE Final(u)
  BY <1>1 DEF Enqueue
<1>2. ASSUME NEW t \in Tasks,
             SpawnRelay(t) \/ SignalShutdown(t) \/ DropHandle(t) \/ Return(t)
      PROVE  Final(u)
  BY <1>2 DEF SpawnRelay, SignalShutdown, DropHandle, Return
<1>3. ASSUME NEW t \in Tasks,
             \/ Start(t) \/ BackoffElapsed(t) \/ ShutdownInBackoff(t)
             \/ ConnectOk(t) \/ SendersGone(t) \/ ShutdownWhileServing(t)
      PROVE  Final(u)
  BY <1>3, <1>t, <1>s
     DEF Start, BackoffElapsed, ShutdownInBackoff, ConnectOk, SendersGone,
         ShutdownWhileServing, Terminate, CloseSocket, Move, NoTraffic
<1>4. ASSUME NEW t \in Tasks, ConnectErr(t) \/ ConnectionLost(t) PROVE Final(u)
  BY <1>4, <1>s, FailTypes DEF ConnectErr, ConnectionLost, NoTraffic
<1>5. ASSUME NEW t \in Tasks, NEW ok \in BOOLEAN, WriteEnds(t, ok),
             status'[u] = status[u] \/ u = t
      PROVE  Final(u)
  BY <1>5, <1>t, <1>s DEF WriteEnds
<1>6. ASSUME NEW t \in Tasks, SendOk(t) PROVE Final(u)
  BY <1>5, <1>6 DEF SendOk
<1>7. ASSUME NEW t \in Tasks, SendErr(t) PROVE Final(u)
  BY <1>5, <1>7, FailTypes DEF SendErr
<1>8. ASSUME NEW t \in Tasks, ReadText(t) \/ ForwardText(t) \/ ReceiverGone(t)
      PROVE  Final(u)
  BY <1>8, <1>t, <1>s DEF ReadText, ForwardText, ReceiverGone, CloseSocket, Move
<1>11. ASSUME NEW t \in Tasks, TakeOutgoing(t) \/ ReadPing(t) \/ PongEnds(t)
       PROVE  Final(u)
  BY <1>11, <1>t DEF TakeOutgoing, ReadPing, PongEnds, NoTraffic
<1>9. CASE ReceiverStep
  BY <1>9 DEF ReceiverStep, TakeReceiver, Consume, DropReceiver
<1>10. CASE UNCHANGED taskVars
  BY <1>10 DEF taskVars
<1> QED
  BY <1>1, <1>2, <1>3, <1>4, <1>6, <1>7, <1>8, <1>9, <1>10, <1>11
     DEF TaskNext, TaskStep, HandleStep

(* A terminated task stays terminated and moves no message again.          *)
THEOREM TaskTerminatedIsFinal == TaskSpec => TerminatedIsFinal
<1>1. TaskInv /\ [TaskNext]_taskVars => [\A t \in Tasks : Final(t)]_taskVars
  BY FinalStep
<1>2. TaskSpec => [][\A t \in Tasks : Final(t)]_taskVars
  BY <1>1, TaskInvariant, PTL DEF TaskSpec
<1> QED BY <1>2 DEF TerminatedIsFinal, Final

-----------------------------------------------------------------------------
(* Refinement: enqueueing is accepting, the end of a write is settling,    *)
(* returning is closing; every other step stutters.                        *)
THEOREM TaskImplementsFifo == TaskSpec => ImplementsFifo
<1> DEFINE closed == [t \in Tasks |-> pc[t] = "done"]
<1>1. TaskInit => Fifo!FifoInit
  BY DEF TaskInit, Fifo!FifoInit
<1>2. TaskInv /\ OutboundConserved /\ [TaskNext]_taskVars => [Fifo!FifoNext]_(Fifo!fifoVars)
  <2> SUFFICES ASSUME TaskInv, OutboundConserved, [TaskNext]_taskVars
               PROVE  Fifo!FifoNext \/ UNCHANGED Fifo!fifoVars
    OBVIOUS
  <2>t. /\ pc \in [Tasks -> Places] /\ outq \in [Tasks -> Seq(Msgs)]
        /\ accepted \in [Tasks -> Seq(Msgs)] /\ settled \in [Tasks -> Seq(Outcomes)]
    BY DEF TaskInv, TaskTypeOK
  <2>1. ASSUME NEW t \in Tasks, NEW m \in Msgs, Enqueue(t, m)
        PROVE  Fifo!FifoNext
    <3>1. ~closed[t] /\ closed' = closed
      BY <2>1 DEF Enqueue, Running
    <3>2. Fifo!Accept(t, m)
      BY <2>1, <3>1 DEF Enqueue, Fifo!Accept
    <3> QED BY <3>2 DEF Fifo!FifoNext
  <2>2. ASSUME NEW t \in Tasks, NEW ok \in BOOLEAN, WriteEnds(t, ok), SameDone
        PROVE  Fifo!FifoNext
    <3>1. ~closed[t] /\ closed' = closed /\ pc[t] = "sending"
      BY <2>2 DEF WriteEnds, SameDone
    <3>2. /\ writing[t] \in Seq(Msgs) /\ writing[t] # <<>> /\ Len(writing[t]) <= 1
          /\ SettledInOrder(settled[t], accepted[t])
          /\ RestIsHeld(writing[t], outq[t], settled[t], accepted[t])
      BY <3>1 DEF TaskInv, TaskTypeOK, TaskShape, OutboundConserved
    <3>3. /\ Len(settled[t]) < Len(accepted[t])
          /\ Head(writing[t]) = accepted[t][Len(settled[t]) + 1]
      <4>1. /\ outq[t] \in Seq(Msgs) /\ accepted[t] \in Seq(Msgs)
            /\ settled[t] \in Seq(Outcomes)
        BY <2>t
      <4> QED BY <3>2, <4>1, SettleConserves
    <3>4. Fifo!Settle(t, ok)
      BY <2>2, <3>1, <3>3 DEF WriteEnds, Fifo!Settle
    <3> QED BY <3>4 DEF Fifo!FifoNext
  <2>5. ASSUME NEW t \in Tasks, TakeOutgoing(t), SameDone
        PROVE  UNCHANGED Fifo!fifoVars
    <3>1. closed' = closed BY <2>5 DEF SameDone
    <3> QED BY <2>5, <3>1 DEF TakeOutgoing, Fifo!fifoVars
  <2>3. ASSUME NEW t \in Tasks, Return(t) PROVE Fifo!FifoNext
    <3>1. ~closed[t] /\ closed' = [closed EXCEPT ![t] = TRUE]
      BY <2>3, <2>t DEF Return
    <3>2. Fifo!Close(t)
      BY <2>3, <3>1 DEF Return, Fifo!Close
    <3> QED BY <3>2 DEF Fifo!FifoNext
  <2>4. CASE Quiet
    <3>1. closed' = closed BY <2>4 DEF Quiet, SameDone
    <3> QED BY <2>4, <3>1 DEF Quiet, Fifo!fifoVars
  <2> QED BY <2>1, <2>2, <2>3, <2>4, <2>5, MessageStep
<1> QED
  BY <1>1, <1>2, TaskInvariant, TaskConserves, PTL
     DEF TaskSpec, ImplementsFifo, Fifo!FifoSpec
=============================================================================
