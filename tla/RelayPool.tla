------------------------------ MODULE RelayPool ------------------------------
(***************************************************************************)
(* The relay pool of relay_pool/mod.rs on top of its tasks: application    *)
(* tasks (callers) add and remove relays, publish events and open and      *)
(* close subscriptions through one asynchronous mutex, which guards the    *)
(* map from URLs to relay handles.                                         *)
(*                                                                         *)
(* The mutex is tokio's: a FIFO queue of waiters whose head holds it.  A   *)
(* broadcast keeps it while it waits for room in one relay's channel after *)
(* another, in the order the map iterates, which is any order.  A caller   *)
(* may drop the future of a call that is waiting (a timeout around it).    *)
(*                                                                         *)
(* Left out: URL parsing (its errors change nothing), and the calls that   *)
(* only read (relay_status, relay_statuses, relay_count).                  *)
(***************************************************************************)
EXTENDS RelayTask, FiniteSets, SequencesExt

CONSTANTS
  Urls,      \* relay URLs
  Callers,   \* application tasks that call the pool
  Events,    \* events to publish
  SubIds,    \* subscription ids
  GenBound,  \* bound: spawn_relay calls per URL
  NoTask, NoArg

Req(s) == <<"REQ", s>>
Close(s) == <<"CLOSE", s>>

ASSUME PoolAssumption ==
  /\ GenBound \in Nat \ {0}
  /\ Tasks = Urls \X (1..GenBound)
  /\ Msgs = Events \union {Req(s) : s \in SubIds} \union {Close(s) : s \in SubIds}
  /\ \A s \in SubIds : Req(s) \notin Events /\ Close(s) \notin Events
  /\ NoTask \notin Tasks
  /\ IsFiniteSet(Callers)

VARIABLES
  relays,   \* the map: which spawn of the URL the handle is of, 0 if absent
  spawned,  \* spawns of each URL so far
  lockq,    \* callers queued for the mutex; the head holds it
  op,       \* the call a caller is in
  arg,      \* its argument
  at,       \* the task whose handle the caller is using
  todo,     \* the URLs a broadcast has still to visit
  pool,     \* whether the RelayPool exists
  issued,   \* history: the messages given to the pool
  result    \* history: the PublishResult of each event at each relay

poolVars == <<relays, spawned, lockq, op, arg, at, todo, pool, issued, result>>
vars == <<taskVars, poolVars>>

Broadcasts == {"publish", "subscribe", "unsubscribe"}
Ops == Broadcasts \union {"idle", "add", "remove", "shutdown"}

Current(u) == <<u, relays[u]>>
Listed == {u \in Urls : relays[u] # 0}

(* Mutant: a shared lock, which everyone who asked for it holds.           *)
HoldingShared(c) == \E i \in 1..Len(lockq) : lockq[i] = c

(* Mutant: a read-write lock, which broadcasts take for reading.           *)
HoldingToRead(c) ==
  \E i \in 1..Len(lockq) :
    /\ lockq[i] = c
    /\ i = 1 \/ \A j \in 1..i : op[lockq[j]] \in {"publish", "subscribe", "unsubscribe"}

Holding(c) == lockq # <<>> /\ Head(lockq) = c
AllIdle == \A c \in Callers : op[c] = "idle"

(* Callers share the pool by reference until shutdown takes it by value.   *)
Shared == pool = "up" /\ \A c \in Callers : op[c] # "shutdown"

-----------------------------------------------------------------------------
Init ==
  /\ TaskInit
  /\ relays = [u \in Urls |-> 0]
  /\ spawned = [u \in Urls |-> 0]
  /\ lockq = <<>>
  /\ op = [c \in Callers |-> "idle"]
  /\ arg = [c \in Callers |-> NoArg]
  /\ at = [c \in Callers |-> NoTask]
  /\ todo = [c \in Callers |-> {}]
  /\ pool = "up"
  /\ issued = {}
  /\ result = [e \in Events |-> [u \in Urls |-> "none"]]

-----------------------------------------------------------------------------
(* A call begins by queueing for the mutex and ends by releasing it.       *)

Call(c, o, x) ==
  /\ Shared
  /\ op[c] = "idle"
  /\ op' = [op EXCEPT ![c] = o]
  /\ arg' = [arg EXCEPT ![c] = x]
  /\ lockq' = Append(lockq, c)
  /\ UNCHANGED <<taskVars, relays, spawned, at, todo, pool, result>>

(* The caller leaves the queue: the guard is dropped, or never was given.  *)
Release(c) ==
  /\ \E i \in 1..Len(lockq) : lockq[i] = c /\ lockq' = RemoveAt(lockq, i)
  /\ op' = [op EXCEPT ![c] = "idle"]
  /\ arg' = [arg EXCEPT ![c] = NoArg]
  /\ at' = [at EXCEPT ![c] = NoTask]
  /\ todo' = [todo EXCEPT ![c] = {}]

(* Bound: a URL is spawned at most GenBound times.                         *)
AddRelay(c, u) ==
  /\ spawned[u] + Cardinality({d \in Callers : op[d] = "add" /\ arg[d] = u}) < GenBound
  /\ Call(c, "add", u)
  /\ UNCHANGED issued

RemoveRelay(c, u) == Call(c, "remove", u) /\ UNCHANGED issued

(* Bound: a message is issued once (event ids and subscription ids are     *)
(* unique; an application that retries an event issues it again).          *)
Issue(c, o, m) ==
  /\ m \notin issued
  /\ issued' = issued \union {m}
  /\ Call(c, o, m)

Publish(c, e) == Issue(c, "publish", e)

Subscribe(c, s) == Issue(c, "subscribe", Req(s))

Unsubscribe(c, s) == Req(s) \in issued /\ Issue(c, "unsubscribe", Close(s))

(* When shutdown takes the pool by value, nobody else is in a call.        *)
Shutdown(c) == AllIdle /\ Call(c, "shutdown", NoArg) /\ UNCHANGED issued

-----------------------------------------------------------------------------
(* add_relay and remove_relay, holding the mutex.                          *)

AddDuplicate(c) ==
  /\ Holding(c) /\ op[c] = "add"
  /\ relays[arg[c]] # 0
  /\ Release(c)
  /\ UNCHANGED <<taskVars, relays, spawned, pool, issued, result>>

AddSpawn(c) ==
  LET u == arg[c]
      g == spawned[u] + 1
  IN  /\ Holding(c) /\ op[c] = "add"
      /\ relays[u] = 0
      /\ SpawnRelay(<<u, g>>)
      /\ relays' = [relays EXCEPT ![u] = g]
      /\ spawned' = [spawned EXCEPT ![u] = g]
      /\ Release(c)
      /\ UNCHANGED <<pool, issued, result>>

RemoveMissing(c) ==
  /\ Holding(c) /\ op[c] = "remove"
  /\ at[c] = NoTask /\ relays[arg[c]] = 0
  /\ Release(c)
  /\ UNCHANGED <<taskVars, relays, spawned, pool, issued, result>>

(* Mutant: the entry is looked up and not removed.                         *)
EvictKeepsEntry(c, u) ==
  /\ at[c] = NoTask
  /\ relays[u] # 0
  /\ at' = [at EXCEPT ![c] = Current(u)]
  /\ SignalShutdown(Current(u))
  /\ UNCHANGED <<relays, spawned, lockq, op, arg, todo, pool, issued, result>>

(* The handle leaves the map and is shut down; the one-slot channel is     *)
(* empty, so this never waits.  It is dropped at the end of the call.      *)
Evict(c, u) ==
  /\ at[c] = NoTask
  /\ relays[u] # 0
  /\ relays' = [relays EXCEPT ![u] = 0]
  /\ at' = [at EXCEPT ![c] = Current(u)]
  /\ SignalShutdown(Current(u))
  /\ UNCHANGED <<spawned, lockq, op, arg, todo, pool, issued, result>>

RemoveEvict(c) == Holding(c) /\ op[c] = "remove" /\ Evict(c, arg[c])

(* Mutant: the removed handle is handed to the caller, who keeps it.       *)
RemoveReturnsHandle(c) ==
  /\ Holding(c) /\ op[c] = "remove"
  /\ at[c] # NoTask
  /\ Release(c)
  /\ UNCHANGED <<taskVars, relays, spawned, pool, issued, result>>

RemoveDrop(c) ==
  /\ Holding(c) /\ op[c] = "remove"
  /\ at[c] # NoTask
  /\ DropHandle(at[c])
  /\ Release(c)
  /\ UNCHANGED <<relays, spawned, pool, issued, result>>

-----------------------------------------------------------------------------
(* publish, subscribe and unsubscribe, holding the mutex.                  *)

(* Go on to any URL of the set, or return when there is none left.         *)
Advance(c, rest) ==
  \/ /\ rest = {}
     /\ Release(c)
  \/ \E u \in rest :
       /\ at' = [at EXCEPT ![c] = Current(u)]
       /\ todo' = [todo EXCEPT ![c] = rest \ {u}]
       /\ UNCHANGED <<lockq, op, arg>>

BroadcastBegin(c) ==
  /\ Holding(c) /\ op[c] \in Broadcasts
  /\ at[c] = NoTask
  /\ Advance(c, Listed)
  /\ UNCHANGED <<taskVars, relays, spawned, pool, issued, result>>

(* Mutant: the relay's status is reported instead of the send's outcome.   *)
ReportStatus(c, r) ==
  result' = IF op[c] = "publish"
            THEN [result EXCEPT ![arg[c]][at[c][1]] = status[at[c]]]
            ELSE result

(* publish reports each send; subscribe and unsubscribe ignore failures.   *)
Report(c, r) ==
  result' = IF op[c] = "publish"
            THEN [result EXCEPT ![arg[c]][at[c][1]] = r]
            ELSE result

(* handle.send found room in the channel, possibly after a wait ...        *)
BroadcastSend(c) ==
  /\ Holding(c) /\ op[c] \in Broadcasts
  /\ at[c] # NoTask
  /\ Enqueue(at[c], arg[c])
  /\ Report(c, "ok")
  /\ Advance(c, todo[c])
  /\ UNCHANGED <<relays, spawned, pool, issued>>

(* Mutant: an error of the channel is not reported.                        *)
RefusalIgnored(c) ==
  /\ Holding(c) /\ op[c] \in Broadcasts
  /\ at[c] # NoTask
  /\ ~Running(at[c])
  /\ Report(c, "ok")
  /\ Advance(c, todo[c])
  /\ UNCHANGED <<taskVars, relays, spawned, pool, issued>>

(* ... or the task has returned and dropped the receiving end.             *)
BroadcastRefused(c) ==
  /\ Holding(c) /\ op[c] \in Broadcasts
  /\ at[c] # NoTask
  /\ ~Running(at[c])
  /\ Report(c, "err")
  /\ Advance(c, todo[c])
  /\ UNCHANGED <<taskVars, relays, spawned, pool, issued>>

(* The future of a waiting call is dropped: it leaves the mutex's queue,   *)
(* and a broadcast stops half-way.                                         *)
Abandon(c) ==
  /\ op[c] \in Broadcasts \/ (op[c] \in {"add", "remove"} /\ at[c] = NoTask)
  /\ Release(c)
  /\ UNCHANGED <<taskVars, relays, spawned, pool, issued, result>>

-----------------------------------------------------------------------------
(* The end of the pool.                                                    *)

ShutdownEvict(c) ==
  /\ Holding(c) /\ op[c] = "shutdown"
  /\ \E u \in Urls : Evict(c, u)

ShutdownDrop(c) ==
  /\ Holding(c) /\ op[c] = "shutdown"
  /\ at[c] # NoTask
  /\ DropHandle(at[c])
  /\ at' = [at EXCEPT ![c] = NoTask]
  /\ UNCHANGED <<relays, spawned, lockq, op, arg, todo, pool, issued, result>>

ShutdownEnd(c) ==
  /\ Holding(c) /\ op[c] = "shutdown"
  /\ at[c] = NoTask /\ Listed = {}
  /\ pool' = "dropping"
  /\ Release(c)
  /\ UNCHANGED <<taskVars, relays, spawned, issued, result>>

(* The pool is dropped without a shutdown.                                 *)
DropPool ==
  /\ pool = "up" /\ AllIdle
  /\ pool' = "dropping"
  /\ UNCHANGED <<taskVars, relays, spawned, lockq, op, arg, at, todo, issued, result>>

(* Mutant: the map outlives the pool.                                      *)
DropForgets(u) ==
  /\ pool = "dropping"
  /\ relays[u] # 0
  /\ relays' = [relays EXCEPT ![u] = 0]
  /\ UNCHANGED <<taskVars, spawned, lockq, op, arg, at, todo, pool, issued, result>>

DropListed(u) ==
  /\ pool = "dropping"
  /\ relays[u] # 0
  /\ DropHandle(Current(u))
  /\ relays' = [relays EXCEPT ![u] = 0]
  /\ UNCHANGED <<spawned, lockq, op, arg, at, todo, pool, issued, result>>

(* The last field dropped is the receiver, if nobody has taken it.         *)
DropEnd ==
  /\ pool = "dropping" /\ Listed = {}
  /\ pool' = "dropped"
  /\ IF receiver = "parked" THEN DropReceiver ELSE UNCHANGED taskVars
  /\ UNCHANGED <<relays, spawned, lockq, op, arg, at, todo, issued, result>>

-----------------------------------------------------------------------------
CallerStep(c) ==
  \/ AddDuplicate(c) \/ AddSpawn(c)
  \/ RemoveMissing(c) \/ RemoveEvict(c) \/ RemoveDrop(c)
  \/ BroadcastBegin(c) \/ BroadcastSend(c) \/ BroadcastRefused(c)
  \/ ShutdownEvict(c) \/ ShutdownDrop(c) \/ ShutdownEnd(c)

CallerCall(c) ==
  \/ \E u \in Urls : AddRelay(c, u) \/ RemoveRelay(c, u)
  \/ \E e \in Events : Publish(c, e)
  \/ \E s \in SubIds : Subscribe(c, s) \/ Unsubscribe(c, s)
  \/ Shutdown(c)

PoolEnd == DropPool \/ (\E u \in Urls : DropListed(u)) \/ DropEnd

(* events() and the application's use of the receiver it returned.         *)
EventsStep ==
  /\ \/ Shared /\ TakeReceiver
     \/ Consume
     \/ receiver = "taken" /\ DropReceiver
  /\ UNCHANGED poolVars

Next ==
  \/ \E c \in Callers : CallerStep(c) \/ CallerCall(c) \/ Abandon(c)
  \/ PoolEnd
  \/ EventsStep
  \/ (\E t \in Tasks : TaskStep(t)) /\ UNCHANGED poolVars

Spec == Init /\ [][Next]_vars

(* The tasks' fairness, callers that are polled, and an application that   *)
(* takes the receiver and drains it independently of its calls.            *)
Fairness ==
  /\ \A t \in Tasks :
       /\ WF_vars(Start(t) /\ UNCHANGED poolVars)
       /\ WF_vars(BackoffElapsed(t) /\ UNCHANGED poolVars)
       /\ SF_vars(ShutdownInBackoff(t) /\ UNCHANGED poolVars)
       /\ SF_vars(TakeOutgoing(t) /\ UNCHANGED poolVars)
       /\ WF_vars((ForwardText(t) \/ ReceiverGone(t)) /\ UNCHANGED poolVars)
       /\ SF_vars(ShutdownWhileServing(t) /\ UNCHANGED poolVars)
       /\ WF_vars(pc[t] = "leaving" /\ Return(t) /\ UNCHANGED poolVars)
  /\ \A c \in Callers : WF_vars(CallerStep(c))
  /\ \A u \in Urls : WF_vars(DropListed(u))
  /\ WF_vars(DropEnd)
  /\ WF_vars(EventsStep /\ receiver' # "dropped")

FairSpec == Spec /\ Fairness

-----------------------------------------------------------------------------
PoolTypeOK ==
  /\ relays \in [Urls -> 0..GenBound]
  /\ spawned \in [Urls -> 0..GenBound]
  /\ lockq \in Seq(Callers)
  /\ op \in [Callers -> Ops]
  /\ arg \in [Callers -> Urls \union Msgs \union {NoArg}]
  /\ at \in [Callers -> Tasks \union {NoTask}]
  /\ todo \in [Callers -> SUBSET Urls]
  /\ pool \in {"up", "dropping", "dropped"}
  /\ issued \in SUBSET Msgs
  /\ result \in [Events -> [Urls -> {"none", "ok", "err"}]]

(* The mutex: exactly the callers inside a call are queued, once each, and *)
(* only the head of the queue is using a handle.                           *)
MutexOK ==
  /\ \A c \in Callers :
       /\ op[c] # "idle" <=> \E i \in 1..Len(lockq) : lockq[i] = c
       /\ at[c] # NoTask => lockq[1] = c
  /\ \A i, j \in 1..Len(lockq) : lockq[i] = lockq[j] => i = j

(* No handle leaks: the handles that exist are those in the map and the    *)
(* one being removed, so at most one task per URL can be fed, and every    *)
(* other task has been told to stop.                                       *)
MapOwnsHandles ==
  \A u \in Urls, g \in 1..GenBound :
    handle[<<u, g>>] <=>
      \/ relays[u] = g
      \/ \E c \in Callers : op[c] \in {"remove", "shutdown"} /\ at[c] = <<u, g>>

(* A broadcast only visits relays that are in the map at that moment: what *)
(* it read when it took the mutex is still true at its last send.          *)
NoStaleTarget ==
  \A c \in Callers :
    op[c] \in Broadcasts /\ at[c] # NoTask =>
      /\ relays[at[c][1]] = at[c][2]
      /\ todo[c] \subseteq Listed

(* Two relays that accepted the same two messages accepted them in the     *)
(* same order, whoever issued them: broadcasts do not interleave.          *)
SameOrderEverywhere ==
  \A t, u \in Tasks :
    \A i, j \in 1..Len(accepted[t]), k, l \in 1..Len(accepted[u]) :
      i < j /\ accepted[t][i] = accepted[u][k] /\ accepted[t][j] = accepted[u][l]
        => k < l

(* success in a PublishResult means exactly that some task of that relay   *)
(* accepted the event.                                                     *)
ResultsExact ==
  \A e \in Events, u \in Urls :
    result[e][u] = "ok" <=>
      \E g \in 1..GenBound : \E i \in 1..Len(accepted[<<u, g>>]) :
        accepted[<<u, g>>][i] = e

(* A relay in the pool's map keeps its connection task (REQ-062), unless   *)
(* the policy's retries run out or the application drops the receiver.     *)
ListedKeepsTrying ==
  \A u \in Listed :
    status[Current(u)] = "Terminated" =>
      OutOfRetries(Current(u)) \/ receiver = "dropped"

(* A caller waits for room at a relay whose task waits for its relay.      *)
StuckAtRelay(c) == at[c] # NoTask /\ AwaitsPeer(at[c])

(* With a retry limit and an application that drains its events, every     *)
(* call returns, although broadcasts wait for slow relays while holding    *)
(* the mutex.  One thing can block a call, and with it the whole pool: a   *)
(* broadcast for ever at one relay that never ends a wait of its task.     *)
CallsReturn ==
  \A c \in Callers :
    (op[c] # "idle") ~> (op[c] = "idle" \/ \E d \in Callers : []StuckAtRelay(d))

(* A task that is not in the map any more ends, unless its relay never     *)
(* ends a wait of it.                                                      *)
RemovedStops ==
  \A u \in Urls, g \in 1..GenBound :
    (spawned[u] >= g /\ relays[u] # g)
      ~> (pc[<<u, g>>] = "done" \/ []AwaitsPeer(<<u, g>>))

=============================================================================
