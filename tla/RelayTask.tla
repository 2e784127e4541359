------------------------------ MODULE RelayTask ------------------------------
(***************************************************************************)
(* The background tasks of relay_pool/relay.rs: each task keeps one        *)
(* WebSocket connection alive, sends the client messages queued for its    *)
(* relay, and forwards what the relay says to the incoming channel that    *)
(* all tasks of a pool share.                                              *)
(*                                                                         *)
(* A task is identified by the spawn_relay call that created it, so a URL  *)
(* that is removed and added again names two tasks.  A step is the code    *)
(* between two await points: statuses written within one such stretch are  *)
(* written once, so nothing observable is lost.                            *)
(*                                                                         *)
(* Four of these waits are for the other end of the connection, and none   *)
(* of them has a timeout: connecting, writing a message, answering a ping  *)
(* and closing the socket.  A task in one of them hears nothing else, and  *)
(* a relay that stops reading can keep it there for ever.                  *)
(*                                                                         *)
(* Left out, because no state depends on it: message text, backoff times   *)
(* (the sleep may end at any moment), binary frames, and text that does    *)
(* not parse, which the task drops.                                        *)
(***************************************************************************)
EXTENDS Integers, Sequences

CONSTANTS
  Tasks,         \* spawn_relay calls
  Msgs,          \* client messages (events, REQs, CLOSEs); each is sent once
  OutCap,        \* capacity of a task's outgoing channel (256 in the code)
  InCap,         \* capacity of the shared incoming channel (incoming_buffer)
  MaxRetries,    \* ReconnectPolicy.max_retries, or NoLimit
  NoLimit,       \* max_retries = None
  AttemptBound,  \* bound: attempt is not told apart above this value
  TextBound      \* bound: texts a relay sends to one task

ASSUME TaskAssumption ==
  /\ OutCap \in Nat \ {0}
  /\ InCap \in Nat \ {0}
  /\ MaxRetries \in Nat \union {NoLimit}
  /\ NoLimit \notin Nat
  /\ AttemptBound \in Nat \ {0}
  /\ MaxRetries # NoLimit => MaxRetries < AttemptBound
  /\ TextBound \in Nat

VARIABLES
  pc,         \* where the task waits
  status,     \* the watch channel read by RelayHandle::status
  attempt,    \* consecutive failures since the last connection
  outq,       \* the outgoing mpsc channel
  writing,    \* the message the task is writing to the socket, at most one
  handle,     \* the RelayHandle exists (it owns the two senders)
  signalled,  \* RelayHandle::shutdown has put () in the shutdown channel
  pending,    \* the parsed text the task is forwarding, 0 if none
  incoming,   \* the shared incoming mpsc channel
  receiver,   \* its receiver: still in the pool, taken, or dropped
  accepted,   \* history: the messages a task's channel accepted, in order
  settled,    \* history: those whose write has ended, and whether it failed
  texts,      \* history: how many texts the task has parsed
  consumed    \* history: what the application received

taskVars == <<pc, status, attempt, outq, writing, handle, signalled,
              pending, incoming, receiver, accepted, settled, texts, consumed>>

Status == {"Disconnected", "Connecting", "Connected", "Reconnecting",
           "Terminated"}

Places == {"unborn", "spawned", "backoff", "connecting", "serving",
           "sending", "ponging", "forwarding", "closing", "leaving", "done"}

(* The task waits for the relay, or for the network on the way to it.      *)
AwaitsPeer(t) == pc[t] \in {"connecting", "sending", "ponging", "closing"}

(* A text is named by its task and its position in what the relay sent.    *)
Texts == [task : Tasks, n : 1..TextBound]

Outcomes == [msg : Msgs, sent : BOOLEAN]

(* The task function has not returned, so its channel ends still exist.    *)
Running(t) == pc[t] \notin {"unborn", "done"}

(* shutdown_rx.recv() resolves: with the signal, or with None once the     *)
(* handle and its sender are gone.                                         *)
ShutdownReady(t) == signalled[t] \/ ~handle[t]

-----------------------------------------------------------------------------
TaskInit ==
  /\ pc = [t \in Tasks |-> "unborn"]
  /\ status = [t \in Tasks |-> "Disconnected"]
  /\ attempt = [t \in Tasks |-> 0]
  /\ outq = [t \in Tasks |-> <<>>]
  /\ writing = [t \in Tasks |-> <<>>]
  /\ handle = [t \in Tasks |-> FALSE]
  /\ signalled = [t \in Tasks |-> FALSE]
  /\ pending = [t \in Tasks |-> 0]
  /\ incoming = <<>>
  /\ receiver = "parked"
  /\ accepted = [t \in Tasks |-> <<>>]
  /\ settled = [t \in Tasks |-> <<>>]
  /\ texts = [t \in Tasks |-> 0]
  /\ consumed = <<>>

-----------------------------------------------------------------------------
(* What the owner of a handle does.                                        *)

(* spawn_relay: the channels and the handle exist, the task is scheduled.  *)
SpawnRelay(t) ==
  /\ pc[t] = "unborn"
  /\ pc' = [pc EXCEPT ![t] = "spawned"]
  /\ handle' = [handle EXCEPT ![t] = TRUE]
  /\ UNCHANGED <<status, attempt, outq, writing, signalled, pending,
                 incoming, receiver, accepted, settled, texts, consumed>>

(* Mutant: the channel is unbounded.                                       *)
EnqueueUnbounded(t, m) ==
  /\ handle[t] /\ Running(t)
  /\ \A i \in 1..Len(accepted[t]) : accepted[t][i] # m
  /\ outq' = [outq EXCEPT ![t] = Append(@, m)]
  /\ accepted' = [accepted EXCEPT ![t] = Append(@, m)]
  /\ UNCHANGED <<pc, status, attempt, writing, handle, signalled, pending,
                 incoming, receiver, settled, texts, consumed>>

(* RelayHandle::send when the channel has room (it waits while it is full) *)
(* Bound: a task is given a message once.                                  *)
Enqueue(t, m) ==
  /\ handle[t] /\ Running(t)
  /\ \A i \in 1..Len(accepted[t]) : accepted[t][i] # m
  /\ Len(outq[t]) < OutCap
  /\ outq' = [outq EXCEPT ![t] = Append(@, m)]
  /\ accepted' = [accepted EXCEPT ![t] = Append(@, m)]
  /\ UNCHANGED <<pc, status, attempt, writing, handle, signalled, pending,
                 incoming, receiver, settled, texts, consumed>>

(* RelayHandle::shutdown: the channel has one slot, so a second signal     *)
(* would wait; when the task is gone the send fails and is ignored.        *)
SignalShutdown(t) ==
  /\ handle[t] /\ ~signalled[t]
  /\ signalled' = [signalled EXCEPT ![t] = TRUE]
  /\ UNCHANGED <<pc, status, attempt, outq, writing, handle, pending,
                 incoming, receiver, accepted, settled, texts, consumed>>

DropHandle(t) ==
  /\ handle[t]
  /\ handle' = [handle EXCEPT ![t] = FALSE]
  /\ UNCHANGED <<pc, status, attempt, outq, writing, signalled, pending,
                 incoming, receiver, accepted, settled, texts, consumed>>

-----------------------------------------------------------------------------
(* What the owner of the incoming channel does.                            *)

TakeReceiver ==
  /\ receiver = "parked"
  /\ receiver' = "taken"
  /\ UNCHANGED <<pc, status, attempt, outq, writing, handle, signalled,
                 pending, incoming, accepted, settled, texts, consumed>>

Consume ==
  /\ receiver = "taken"
  /\ incoming # <<>>
  /\ consumed' = Append(consumed, Head(incoming))
  /\ incoming' = Tail(incoming)
  /\ UNCHANGED <<pc, status, attempt, outq, writing, handle, signalled,
                 pending, receiver, accepted, settled, texts>>

(* Dropping the receiver discards what is buffered and fails every send.   *)
DropReceiver ==
  /\ receiver # "dropped"
  /\ receiver' = "dropped"
  /\ incoming' = <<>>
  /\ UNCHANGED <<pc, status, attempt, outq, writing, handle, signalled,
                 pending, accepted, settled, texts, consumed>>

-----------------------------------------------------------------------------
(* The steps of relay_task.                                                *)

Move(t, place, st) ==
  /\ pc' = [pc EXCEPT ![t] = place]
  /\ status' = [status EXCEPT ![t] = st]

(* status := Terminated and a break out of the loop, with the socket to    *)
(* close first when there is one.  The channels exist until the function   *)
(* returns.                                                                *)
Terminate(t) == Move(t, "leaving", "Terminated")

CloseSocket(t) == Move(t, "closing", "Terminated")

Bump(n) == IF n < AttemptBound THEN n + 1 ELSE n

(* Mutant: max_retries is never looked at.                                 *)
FailUnlimited(t) ==
  /\ attempt' = [attempt EXCEPT ![t] = Bump(@)]
  /\ Move(t, "backoff", "Reconnecting")

(* Mutant: the retry that the limit still allows is not made.              *)
FailTooEarly(t) ==
  /\ attempt' = [attempt EXCEPT ![t] = Bump(@)]
  /\ \/ /\ MaxRetries # NoLimit
        /\ Bump(attempt[t]) >= MaxRetries
        /\ Terminate(t)
     \/ /\ MaxRetries # NoLimit => Bump(attempt[t]) < MaxRetries
        /\ Move(t, "backoff", "Reconnecting")

(* attempt += 1; continue 'outer: the top of the loop checks the limit.    *)
Fail(t) ==
  /\ attempt' = [attempt EXCEPT ![t] = Bump(@)]
  /\ \/ /\ MaxRetries # NoLimit
        /\ Bump(attempt[t]) > MaxRetries
        /\ Terminate(t)
     \/ /\ MaxRetries # NoLimit => Bump(attempt[t]) <= MaxRetries
        /\ Move(t, "backoff", "Reconnecting")

(* What a step of the task that moves no message leaves alone.             *)
NoTraffic == UNCHANGED <<outq, writing, handle, signalled, pending, incoming,
                         receiver, accepted, settled, texts, consumed>>

Start(t) ==
  /\ pc[t] = "spawned"
  /\ Move(t, "connecting", "Connecting")
  /\ UNCHANGED attempt /\ NoTraffic

BackoffElapsed(t) ==
  /\ pc[t] = "backoff"
  /\ Move(t, "connecting", "Connecting")
  /\ UNCHANGED attempt /\ NoTraffic

(* Mutant: the status is published, but the loop goes on.                  *)
ShutdownWithoutBreak(t) ==
  /\ pc[t] = "backoff"
  /\ ShutdownReady(t)
  /\ Move(t, "connecting", "Terminated")
  /\ UNCHANGED attempt /\ NoTraffic

ShutdownInBackoff(t) ==
  /\ pc[t] = "backoff"
  /\ ShutdownReady(t)
  /\ Terminate(t)
  /\ UNCHANGED attempt /\ NoTraffic

ConnectOk(t) ==
  /\ pc[t] = "connecting"
  /\ Move(t, "serving", "Connected")
  /\ attempt' = [attempt EXCEPT ![t] = 0]
  /\ NoTraffic

ConnectErr(t) ==
  /\ pc[t] = "connecting"
  /\ Fail(t)
  /\ NoTraffic

(* The select branch of outgoing_rx: the message leaves the channel before *)
(* it is written, and the task waits for the socket to take it.            *)
TakeOutgoing(t) ==
  /\ pc[t] = "serving"
  /\ outq[t] # <<>>
  /\ pc' = [pc EXCEPT ![t] = "sending"]
  /\ outq' = [outq EXCEPT ![t] = Tail(@)]
  /\ writing' = [writing EXCEPT ![t] = <<Head(outq[t])>>]
  /\ UNCHANGED <<status, attempt, handle, signalled, pending, incoming,
                 receiver, accepted, settled, texts, consumed>>

(* Mutants: a message whose write failed goes to the back of the queue, or *)
(* to its front to be tried again.                                         *)
WriteEndsRequeued(t, ok) ==
  /\ pc[t] = "sending"
  /\ writing' = [writing EXCEPT ![t] = <<>>]
  /\ outq' = IF ok THEN outq ELSE [outq EXCEPT ![t] = @ \o writing[t]]
  /\ settled' = IF ok
                THEN [settled EXCEPT ![t] = Append(@, [msg |-> Head(writing[t]), sent |-> ok])]
                ELSE settled
  /\ UNCHANGED <<handle, signalled, pending, incoming, receiver, accepted,
                 texts, consumed>>

WriteEndsRetried(t, ok) ==
  /\ pc[t] = "sending"
  /\ writing' = [writing EXCEPT ![t] = <<>>]
  /\ outq' = IF ok THEN outq ELSE [outq EXCEPT ![t] = writing[t] \o @]
  /\ Len(settled[t]) < 4
  /\ settled' = [settled EXCEPT
                   ![t] = Append(@, [msg |-> Head(writing[t]), sent |-> ok])]
  /\ UNCHANGED <<handle, signalled, pending, incoming, receiver, accepted,
                 texts, consumed>>

(* ws_sink.send returns: whether or not it failed, the task is done with   *)
(* the message.                                                            *)
WriteEnds(t, ok) ==
  /\ pc[t] = "sending"
  /\ writing' = [writing EXCEPT ![t] = <<>>]
  /\ settled' = [settled EXCEPT
                   ![t] = Append(@, [msg |-> Head(writing[t]), sent |-> ok])]
  /\ UNCHANGED <<outq, handle, signalled, pending, incoming, receiver,
                 accepted, texts, consumed>>

SendOk(t) ==
  /\ WriteEnds(t, TRUE)
  /\ pc' = [pc EXCEPT ![t] = "serving"]
  /\ UNCHANGED <<status, attempt>>

SendErr(t) ==
  /\ WriteEnds(t, FALSE)
  /\ Fail(t)

(* A ping is answered before anything else is looked at; an error of the   *)
(* answer is ignored.                                                      *)
ReadPing(t) ==
  /\ pc[t] = "serving"
  /\ pc' = [pc EXCEPT ![t] = "ponging"]
  /\ UNCHANGED <<status, attempt>> /\ NoTraffic

PongEnds(t) ==
  /\ pc[t] = "ponging"
  /\ pc' = [pc EXCEPT ![t] = "serving"]
  /\ UNCHANGED <<status, attempt>> /\ NoTraffic

(* outgoing_rx.recv() is None: every sender is gone and nothing is queued. *)
SendersGone(t) ==
  /\ pc[t] = "serving"
  /\ outq[t] = <<>>
  /\ ~handle[t]
  /\ CloseSocket(t)
  /\ UNCHANGED attempt /\ NoTraffic

(* A text parses: the task now waits in incoming_tx.send, and until it     *)
(* gets through, it looks at no other branch of the select.                *)
ReadText(t) ==
  /\ pc[t] = "serving"
  /\ texts[t] < TextBound
  /\ pc' = [pc EXCEPT ![t] = "forwarding"]
  /\ texts' = [texts EXCEPT ![t] = @ + 1]
  /\ pending' = [pending EXCEPT ![t] = texts[t] + 1]
  /\ UNCHANGED <<status, attempt, outq, writing, handle, signalled, incoming,
                 receiver, accepted, settled, consumed>>

(* Mutant: try_send, which drops the text when the channel is full.        *)
ForwardOrDrop(t) ==
  /\ pc[t] = "forwarding"
  /\ receiver # "dropped"
  /\ incoming' = IF Len(incoming) < InCap
                 THEN Append(incoming, [task |-> t, n |-> pending[t]])
                 ELSE incoming
  /\ pending' = [pending EXCEPT ![t] = 0]
  /\ pc' = [pc EXCEPT ![t] = "serving"]
  /\ UNCHANGED <<status, attempt, outq, writing, handle, signalled, receiver,
                 accepted, settled, texts, consumed>>

ForwardText(t) ==
  /\ pc[t] = "forwarding"
  /\ receiver # "dropped"
  /\ Len(incoming) < InCap
  /\ incoming' = Append(incoming, [task |-> t, n |-> pending[t]])
  /\ pending' = [pending EXCEPT ![t] = 0]
  /\ pc' = [pc EXCEPT ![t] = "serving"]
  /\ UNCHANGED <<status, attempt, outq, writing, handle, signalled, receiver,
                 accepted, settled, texts, consumed>>

ReceiverGone(t) ==
  /\ pc[t] = "forwarding"
  /\ receiver = "dropped"
  /\ CloseSocket(t)
  /\ pending' = [pending EXCEPT ![t] = 0]
  /\ UNCHANGED <<attempt, outq, writing, handle, signalled, incoming,
                 receiver, accepted, settled, texts, consumed>>

(* Close frame, end of stream, or a WebSocket error.                       *)
ConnectionLost(t) ==
  /\ pc[t] = "serving"
  /\ Fail(t)
  /\ NoTraffic

(* Mutant: the select of a live connection has no shutdown branch.         *)
ShutdownUnheard(t) == FALSE

ShutdownWhileServing(t) ==
  /\ pc[t] = "serving"
  /\ ShutdownReady(t)
  /\ CloseSocket(t)
  /\ UNCHANGED attempt /\ NoTraffic

(* relay_task returns, when the socket if any is closed (an error of that  *)
(* is ignored), and drops outgoing_rx with what it still holds.            *)
Return(t) ==
  /\ pc[t] \in {"leaving", "closing"}
  /\ pc' = [pc EXCEPT ![t] = "done"]
  /\ outq' = [outq EXCEPT ![t] = <<>>]
  /\ UNCHANGED <<status, attempt, writing, handle, signalled, pending,
                 incoming, receiver, accepted, settled, texts, consumed>>

-----------------------------------------------------------------------------
TaskStep(t) ==
  \/ Start(t) \/ BackoffElapsed(t) \/ ShutdownInBackoff(t)
  \/ ConnectOk(t) \/ ConnectErr(t)
  \/ TakeOutgoing(t) \/ SendOk(t) \/ SendErr(t) \/ SendersGone(t)
  \/ ReadPing(t) \/ PongEnds(t)
  \/ ReadText(t) \/ ForwardText(t) \/ ReceiverGone(t)
  \/ ConnectionLost(t) \/ ShutdownWhileServing(t)
  \/ Return(t)

HandleStep(t) ==
  \/ SpawnRelay(t)
  \/ \E m \in Msgs : Enqueue(t, m)
  \/ SignalShutdown(t)
  \/ DropHandle(t)

ReceiverStep == TakeReceiver \/ Consume \/ DropReceiver

TaskNext == (\E t \in Tasks : TaskStep(t) \/ HandleStep(t)) \/ ReceiverStep

TaskSpec == TaskInit /\ [][TaskNext]_taskVars

(* Every timer fires and every step that is ready in a running task is     *)
(* scheduled.  The select polls its branches from a random position, so a  *)
(* branch that is ready again and again is taken.  The application drains  *)
(* its channel.  Nothing is assumed of the other end of a connection: the  *)
(* ends of connecting, writing, answering a ping and closing the socket,   *)
(* none of which has a timeout, have no fairness.                          *)
TaskFairness ==
  /\ \A t \in Tasks :
       /\ WF_taskVars(Start(t))
       /\ WF_taskVars(BackoffElapsed(t))
       /\ SF_taskVars(ShutdownInBackoff(t))
       /\ SF_taskVars(TakeOutgoing(t))
       /\ WF_taskVars(ForwardText(t) \/ ReceiverGone(t))
       /\ SF_taskVars(ShutdownWhileServing(t))
       /\ WF_taskVars(pc[t] = "leaving" /\ Return(t))
  /\ WF_taskVars(TakeReceiver)
  /\ WF_taskVars(Consume)

FairTaskSpec == TaskSpec /\ TaskFairness

-----------------------------------------------------------------------------
(* Types, and the size of the two channels.                                *)
TaskTypeOK ==
  /\ pc \in [Tasks -> Places]
  /\ status \in [Tasks -> Status]
  /\ attempt \in [Tasks -> 0..AttemptBound]
  /\ outq \in [Tasks -> Seq(Msgs)]
  /\ writing \in [Tasks -> Seq(Msgs)]
  /\ \A t \in Tasks : Len(outq[t]) <= OutCap /\ Len(writing[t]) <= 1
  /\ handle \in [Tasks -> BOOLEAN]
  /\ signalled \in [Tasks -> BOOLEAN]
  /\ pending \in [Tasks -> 0..TextBound]
  /\ incoming \in Seq(Texts)
  /\ Len(incoming) <= InCap
  /\ receiver \in {"parked", "taken", "dropped"}
  /\ accepted \in [Tasks -> Seq(Msgs)]
  /\ settled \in [Tasks -> Seq(Outcomes)]
  /\ texts \in [Tasks -> 0..TextBound]
  /\ consumed \in Seq(Texts)

(* Every message a task accepted is accounted for, in order: the settled   *)
(* ones come first, each exactly once, and until the task returns the rest *)
(* is the one it is writing and its queue.                                 *)
SettledInOrder(done, all) ==
  \A i \in 1..Len(done) : i <= Len(all) /\ done[i].msg = all[i]

RestIsHeld(hand, queue, done, all) ==
  /\ Len(done) + Len(hand) + Len(queue) = Len(all)
  /\ \A i \in 1..Len(hand) : hand[i] = all[Len(done) + i]
  /\ \A i \in 1..Len(queue) : queue[i] = all[Len(done) + Len(hand) + i]

(* Across any number of reconnections the code may lose a message on a     *)
(* send error, but never reorders, repeats or skips one.                   *)
OutboundConserved ==
  \A t \in Tasks :
    /\ SettledInOrder(settled[t], accepted[t])
    /\ pc[t] # "done" => RestIsHeld(writing[t], outq[t], settled[t], accepted[t])

(* A sequence of texts holds the first ones of a relay, and no other of    *)
(* its texts, in the order the relay sent them.                            *)
HasFirst(t, count, all) ==
  /\ \A n \in 1..TextBound :
       (\E i \in 1..Len(all) : all[i] = [task |-> t, n |-> n]) <=> n <= count
  /\ \A i, j \in 1..Len(all) :
       i < j /\ all[i].task = t /\ all[j].task = t => all[i].n < all[j].n

Forwarded(t) == texts[t] - (IF pending[t] = 0 THEN 0 ELSE 1)

(* As long as somebody may read them, the texts of each relay are in what  *)
(* the application received, in the channel, or in the task's hand, once   *)
(* each and in order, whatever the task is doing or why it ended.          *)
InboundConserved ==
  receiver # "dropped" =>
    \A t \in Tasks : HasFirst(t, Forwarded(t), consumed \o incoming)

OutOfRetries(t) == MaxRetries # NoLimit /\ attempt[t] > MaxRetries

(* A relay is given up only for a reason its owner can see: the handle was *)
(* shut down or dropped, the receiver is gone, or the retry limit of the   *)
(* policy is exceeded, and not an attempt before that.  No loss of         *)
(* connection alone ends a task (REQ-062).                                 *)
NeverAbandoned ==
  \A t \in Tasks :
    status[t] = "Terminated" =>
      ShutdownReady(t) \/ receiver = "dropped" \/ OutOfRetries(t)

(* The comment on RelayHandle: "Dropping the handle will not stop the      *)
(* background task; call RelayHandle::shutdown for a graceful close."      *)
DroppingKeepsTask ==
  \A t \in Tasks :
    status[t] = "Terminated" =>
      signalled[t] \/ receiver = "dropped" \/ OutOfRetries(t)

(* A task that terminates never comes back and never touches the network   *)
(* or the application again, even if messages are still queued for it.     *)
TerminatedIsFinal ==
  [][\A t \in Tasks :
       status[t] = "Terminated" =>
         /\ status'[t] = "Terminated"
         /\ settled'[t] = settled[t]
         /\ texts'[t] = texts[t] /\ pending'[t] = pending[t]]_taskVars

(* Each task is an at-most-once FIFO link.                                 *)
Fifo == INSTANCE LossyFifo
          WITH Links <- Tasks, Payloads <- Msgs,
               given <- accepted, outcome <- settled,
               closed <- [t \in Tasks |-> pc[t] = "done"]

ImplementsFifo == Fifo!FifoSpec

(* A task whose handle was shut down or dropped ends, though it may be     *)
(* backing off or blocked on a full incoming channel then, or stays for    *)
(* ever in one wait for its relay: the only thing that can keep it.        *)
StopsWhenAsked ==
  \A t \in Tasks :
    (pc[t] # "unborn" /\ ShutdownReady(t))
      ~> (pc[t] = "done" \/ []AwaitsPeer(t))

(* With a retry limit a queued message does not wait for ever: it is       *)
(* settled, or the task ends, unless the relay never ends a wait of the    *)
(* task.                                                                   *)
QueueMoves ==
  \A t \in Tasks, m \in Msgs :
    (\E i \in 1..Len(outq[t]) : outq[t][i] = m)
      ~> (\/ pc[t] = "done"
          \/ \E i \in 1..Len(settled[t]) : settled[t][i].msg = m
          \/ []AwaitsPeer(t))

=============================================================================
