------------------------------ MODULE Threads ------------------------------
(***************************************************************************)
(* The conversation threads of conversation_threads.rs: a ThreadManager    *)
(* that one agent keeps, fed with the messages its inbox accepted (in the  *)
(* order they arrive, which is not the order they were sent in, and with   *)
(* repetitions) and with the calls of the application.                     *)
(***************************************************************************)
EXTENDS Events, FiniteSets

CONSTANTS
  ThreadIds,     \* thread identifiers
  RecordBound    \* bound: messages recorded on one thread

ASSUME ThreadAssumption == None \notin ThreadIds /\ RecordBound \in Nat

VARIABLES
  threads,   \* the threads tracked, by id
  recorded   \* history: what was recorded on each since it was created

threadVars == <<threads, recorded>>

ThreadState == {"Open", "Completed", "Cancelled"}
is_open(thread) == thread.state = "Open"

NewThread(initiator) ==
  [state |-> "Open", initiator |-> initiator, event_chain |-> <<>>,
   participants |-> <<initiator>>, last_activity |-> 0]

Tracked == DOMAIN threads
Occurs(x, s) == \E i \in DOMAIN s : s[i] = x
\* Mutant: a message that comes again is recorded again.
AppendAlways(s, x) == Append(s, x)

AppendNew(s, x) == IF Occurs(x, s) THEN s ELSE Append(s, x)

ThreadInit ==
  /\ threads = [t \in {} |-> NewThread(None)]
  /\ recorded = [t \in {} |-> <<>>]

\* What was recorded on a thread, nothing when it is new.
Heard(t) == IF t \in Tracked THEN recorded[t] ELSE <<>>

-----------------------------------------------------------------------------
\* open_thread and start_thread pass an id that is fresh, a peer's id may
\* be tracked already.
open_thread_with_id(t, initiator) ==
  /\ threads' = [u \in Tracked \union {t} |->
                   IF u \in Tracked THEN threads[u] ELSE NewThread(initiator)]
  /\ recorded' = [u \in Tracked \union {t} |-> Heard(u)]

open_thread(t, initiator) == t \notin Tracked /\ open_thread_with_id(t, initiator)

\* What record_event makes of a thread.
WithEvent(thread, event) ==
  [thread EXCEPT !.event_chain = AppendNew(@, event.id),
                 !.participants = AppendNew(@, event.pubkey),
                 !.last_activity = IF event.created_at > @ THEN event.created_at ELSE @]

\* The entry of a thread, created by the sender when there is none.
EntryFor(t, sender) == IF t \in Tracked THEN threads[t] ELSE NewThread(sender)

Put(t, thread) == threads' = [u \in Tracked \union {t} |-> IF u = t THEN thread ELSE threads[u]]
Note(t, event) ==
  /\ Len(Heard(t)) < RecordBound
  /\ recorded' = [u \in Tracked \union {t} |->
                    IF u = t THEN Append(Heard(t), event) ELSE recorded[u]]

record_event(t, event) ==
  /\ Put(t, WithEvent(EntryFor(t, event.pubkey), event))
  /\ Note(t, event)

Cancelling == {"cancel", "bye"}

\* record_inbound: the message has passed the inbox, so its performative
\* is its first performative tag.
record_inbound(event) ==
  LET t == FindTag(event, "Thread")
      next == WithEvent(EntryFor(t, event.pubkey), event)
  IN  IF Tagged(event, "Thread") = {}
      THEN UNCHANGED threadVars
      ELSE /\ Put(t, IF FindTag(event, "Performative") \in Cancelling
                     THEN [next EXCEPT !.state = "Cancelled"] ELSE next)
           /\ Note(t, event)

set_state(t, state) ==
  /\ t \in Tracked
  /\ Put(t, [threads[t] EXCEPT !.state = state])
  /\ UNCHANGED recorded

complete(t) == set_state(t, "Completed")
cancel(t) == set_state(t, "Cancelled")

remove(t) ==
  /\ t \in Tracked
  /\ threads' = [u \in Tracked \ {t} |-> threads[u]]
  /\ recorded' = [u \in Tracked \ {t} |-> recorded[u]]

\* The message that goes on with a thread: a reply to the last event of the
\* chain, without a recipient, which the caller adds.
continue_thread(t, performative) ==
  LET chain == threads[t].event_chain
  IN  [Message(performative) EXCEPT
         !.thread = t,
         !.extra_tags = IF chain = <<>> THEN <<>>
                        ELSE <<[variant |-> "Event", args |-> <<chain[Len(chain)]>>]>>]

ThreadCall(t, initiator) ==
  \/ open_thread_with_id(t, initiator)
  \/ complete(t)
  \/ cancel(t)
  \/ \E state \in ThreadState : set_state(t, state)
  \/ remove(t)

-----------------------------------------------------------------------------
(* The properties.                                                         *)

\* The first place of an event in what was recorded on a thread.
FirstHeard(t, id) ==
  CHOOSE i \in DOMAIN recorded[t] :
    recorded[t][i].id = id /\ \A j \in 1..(i - 1) : recorded[t][j].id # id

NoRepeat(s) == \A i, j \in DOMAIN s : s[i] = s[j] => i = j

\* The chain of a thread holds every event recorded on it once, in the order
\* of their first arrival, however often each of them came.
ChainIsHistory ==
  \A t \in Tracked :
    LET chain == threads[t].event_chain
    IN  /\ NoRepeat(chain)
        /\ {chain[i] : i \in DOMAIN chain} = {recorded[t][i].id : i \in DOMAIN recorded[t]}
        /\ \A i, j \in DOMAIN chain :
             i < j => FirstHeard(t, chain[i]) < FirstHeard(t, chain[j])

\* The participants are the initiator and the authors, each once, and the
\* activity is the latest time any message of the thread claims.
PartiesAndActivity ==
  \A t \in Tracked :
    LET thread == threads[t]
        heard == {recorded[t][i] : i \in DOMAIN recorded[t]}
    IN  /\ NoRepeat(thread.participants)
        /\ {thread.participants[i] : i \in DOMAIN thread.participants}
             = {thread.initiator} \union {e.pubkey : e \in heard}
        /\ \A e \in heard : e.created_at <= thread.last_activity
        /\ thread.last_activity \in {0} \union {e.created_at : e \in heard}

ThreadHistory == ChainIsHistory /\ PartiesAndActivity

\* A created_at is a u64: what was recorded is dated by a natural number.
Dated == \A t \in Tracked : \A i \in DOMAIN recorded[t] : recorded[t][i].created_at \in Nat

=============================================================================
