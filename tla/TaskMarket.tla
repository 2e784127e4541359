------------------------------ MODULE TaskMarket ------------------------------
(***************************************************************************)
(* The open task market of open_task_market.rs: agents publish tasks,      *)
(* claims, assignments and withdrawals as signed events, and every         *)
(* observer feeds the events it receives to a TaskRegistry of its own.     *)
(*                                                                         *)
(* Relays deliver events in any order, more than once (an observer listens *)
(* to several relays, and a relay resends stored events after a            *)
(* reconnection), or not at all.  An event published once can be received  *)
(* for ever, so the network is the set of the events published.            *)
(*                                                                         *)
(* A registry entry does not refer to any other, so one task is modelled;  *)
(* its event id names it.  Left out: the description, the amount and the   *)
(* timestamps, which no transition reads, and events that are not of the   *)
(* market, which process_event refuses without a change.                   *)
(***************************************************************************)
EXTENDS Integers, Sequences, FiniteSets

CONSTANTS
  Agents,      \* public keys
  Observers,   \* registries
  NoOne,       \* assignee = None, and an event without a p tag
  EventBound,  \* bound: events published
  ClaimBound   \* bound: claims recorded in one entry

ASSUME MarketAssumption ==
  /\ NoOne \notin Agents
  /\ EventBound \in Nat
  /\ ClaimBound \in Nat

VARIABLES
  published,  \* the events that exist
  known,      \* the observers whose registry holds the task
  entry       \* its entry there

vars == <<published, known, entry>>

Policies == {"first-reply-wins", "publisher-chooses"}

(* A claim-policy tag that is missing or unknown reads as the default.     *)
PolicyTags == Policies \union {"other"}

PolicyOf(tag) == IF tag \in Policies THEN tag ELSE "first-reply-wins"

States == {"Open", "Claimed", "Assigned", "Withdrawn"}

Terminal == {"Assigned", "Withdrawn"}

(* One event: its performative, its author, its p tag, its claim-policy    *)
(* tag.  Only a task event reads the last, only an assign event the p tag. *)
Event == [verb : {"task", "claim", "assign", "withdraw"}, by : Agents,
          to : Agents \union {NoOne}, policy : PolicyTags]

Entry == [publisher : Agents, policy : Policies, state : States,
          claims : Seq(Agents), assignee : Agents \union {NoOne}]

Fresh(e) == [publisher |-> e.by, policy |-> PolicyOf(e.policy), state |-> "Open",
             claims |-> <<>>, assignee |-> NoOne]

-----------------------------------------------------------------------------
(* TaskState: the states a claim, an assignment and a withdrawal lead to;  *)
(* no state is a TransitionError.                                          *)

(* Mutant: a late claim takes over.                                        *)
LateClaimSteals(s, p) ==
  IF p = "first-reply-wins"
  THEN IF s \in {"Open", "Assigned"} THEN {"Assigned"} ELSE {}
  ELSE IF s \in {"Open", "Claimed"} THEN {"Claimed"} ELSE {}

AfterClaim(s, p) ==
  IF p = "first-reply-wins"
  THEN IF s = "Open" THEN {"Assigned"} ELSE {}
  ELSE IF s \in {"Open", "Claimed"} THEN {"Claimed"} ELSE {}

AfterAssign(s) == IF s = "Claimed" THEN {"Assigned"} ELSE {}

(* Mutants: an assigned task can still be withdrawn; an error is stored.   *)
WithdrawAnyTime(s) == {"Withdrawn"}

WithdrawStoresError(s) == IF s \in {"Open", "Claimed"} THEN {"Withdrawn"} ELSE {"error"}

AfterWithdraw(s) == IF s \in {"Open", "Claimed"} THEN {"Withdrawn"} ELSE {}

-----------------------------------------------------------------------------
Init ==
  /\ published = {}
  /\ known = {}
  /\ entry = [o \in Observers |->
                [publisher |-> NoOne, policy |-> "first-reply-wins",
                 state |-> "Open", claims |-> <<>>, assignee |-> NoOne]]

(* Any agent may publish any event that refers to the task; the task's own *)
(* id is the hash of its event, so there is one task event, and it is      *)
(* first.                                                                  *)
Publish(e) ==
  /\ Cardinality(published) < EventBound
  /\ e \notin published
  /\ (e.verb = "task") = (published = {})
  /\ published' = published \union {e}
  /\ UNCHANGED <<known, entry>>

PublishTask(a, tag) ==
  Publish([verb |-> "task", by |-> a, to |-> NoOne, policy |-> tag])

PublishClaim(a) ==
  Publish([verb |-> "claim", by |-> a, to |-> NoOne, policy |-> "other"])

PublishAssign(a, b) ==
  Publish([verb |-> "assign", by |-> a, to |-> b, policy |-> "other"])

PublishWithdraw(a) ==
  Publish([verb |-> "withdraw", by |-> a, to |-> NoOne, policy |-> "other"])

-----------------------------------------------------------------------------
(* TaskRegistry::process_event, one action per performative.  An event     *)
(* that is refused (task not found, unauthorized, no such transition)      *)
(* leaves the registry as it was.                                          *)

(* The entry is inserted whether or not there is one.                      *)
ProcessTask(o, e) ==
  /\ e.verb = "task"
  /\ known' = known \union {o}
  /\ entry' = [entry EXCEPT ![o] = Fresh(e)]

(* A claim is not looked up among those recorded: a claim received twice   *)
(* is recorded twice.                                                      *)
ProcessClaim(o, e) ==
  /\ e.verb = "claim"
  /\ o \in known
  /\ Len(entry[o].claims) < ClaimBound
  /\ \E s \in AfterClaim(entry[o].state, entry[o].policy) :
       entry' = [entry EXCEPT
                   ![o].claims = Append(@, e.by),
                   ![o].state = s,
                   ![o].assignee = IF /\ entry[o].policy = "first-reply-wins"
                                      /\ s = "Assigned"
                                   THEN e.by ELSE @]
  /\ UNCHANGED known

(* Mutant: nobody asks who assigns.                                        *)
AnyoneAssigns(o, e) ==
  /\ e.verb = "assign"
  /\ o \in known
  /\ \E s \in AfterAssign(entry[o].state) :
       entry' = [entry EXCEPT ![o].state = s, ![o].assignee = e.to]
  /\ UNCHANGED known

(* The assignee is the p tag: it need not have claimed the task.           *)
ProcessAssign(o, e) ==
  /\ e.verb = "assign"
  /\ o \in known
  /\ e.by = entry[o].publisher
  /\ \E s \in AfterAssign(entry[o].state) :
       entry' = [entry EXCEPT ![o].state = s, ![o].assignee = e.to]
  /\ UNCHANGED known

ProcessWithdraw(o, e) ==
  /\ e.verb = "withdraw"
  /\ o \in known
  /\ e.by = entry[o].publisher
  /\ \E s \in AfterWithdraw(entry[o].state) :
       entry' = [entry EXCEPT ![o].state = s]
  /\ UNCHANGED known

ProcessEvent(o, e) ==
  /\ \/ ProcessTask(o, e) \/ ProcessClaim(o, e)
     \/ ProcessAssign(o, e) \/ ProcessWithdraw(o, e)
  /\ UNCHANGED published

PublishStep ==
  \E a \in Agents :
    \/ \E tag \in PolicyTags : PublishTask(a, tag)
    \/ PublishClaim(a)
    \/ \E b \in Agents \union {NoOne} : PublishAssign(a, b)
    \/ PublishWithdraw(a)

Next ==
  \/ PublishStep
  \/ \E o \in Observers, e \in published : ProcessEvent(o, e)

Spec == Init /\ [][Next]_vars

-----------------------------------------------------------------------------
MarketTypeOK ==
  /\ published \in SUBSET Event
  /\ known \in SUBSET Observers
  /\ \A o \in known : entry[o] \in Entry /\ Len(entry[o].claims) <= ClaimBound

(* The events of the market an entry's publisher may decide it with.       *)
Decisions(p) == {e \in published : e.verb \in {"assign", "withdraw"} /\ e.by = p}

(* How an entry got where it is: a first reply wins alone and at once, an  *)
(* assignment was claimed by someone and ordered by the publisher, and     *)
(* only the publisher withdraws.  No order or repetition of events, and no *)
(* event of another agent, can fake it.                                    *)
JustifiedEntry(x) ==
  /\ x.state = "Open" => x.claims = <<>> /\ x.assignee = NoOne
  /\ x.state = "Claimed" =>
       x.policy = "publisher-chooses" /\ x.claims # <<>> /\ x.assignee = NoOne
  /\ x.state = "Assigned" /\ x.policy = "first-reply-wins" =>
       x.claims = <<x.assignee>>
  /\ x.state = "Assigned" /\ x.policy = "publisher-chooses" =>
       /\ x.claims # <<>>
       /\ \E e \in Decisions(x.publisher) : e.verb = "assign" /\ e.to = x.assignee
  /\ x.state = "Withdrawn" =>
       /\ x.assignee = NoOne
       /\ \E e \in Decisions(x.publisher) : e.verb = "withdraw"

ClaimsPublished(x) ==
  \A i \in 1..Len(x.claims) :
    \E e \in published : e.verb = "claim" /\ e.by = x.claims[i]

OutcomeJustified ==
  \A o \in known : JustifiedEntry(entry[o]) /\ ClaimsPublished(entry[o])

(* Where the publisher chooses and has spoken once, two observers that     *)
(* have the task closed agree on how, whatever each of them missed.        *)
ObserversAgree ==
  \A o, p \in known :
    /\ entry[o].policy = "publisher-chooses"
    /\ entry[o].state \in Terminal /\ entry[p].state \in Terminal
    /\ Cardinality(Decisions(entry[o].publisher)) = 1
    => entry[o].state = entry[p].state /\ entry[o].assignee = entry[p].assignee

(* A closed task is reopened by nothing but its own task event received    *)
(* again, and then loses its claims and its assignee with its state.       *)
ClosedUntilReset ==
  [][\A o \in known :
       entry[o].state \in Terminal /\ entry'[o] # entry[o] =>
         /\ entry'[o].state = "Open" /\ entry'[o].claims = <<>>
         /\ entry'[o].publisher = entry[o].publisher]_vars

(* The documentation of TaskState: "Assigned to a claimant (terminal)",    *)
(* "Publisher withdrew the task (terminal)".                               *)
TerminalIsFinal ==
  [][\A o \in known :
       entry[o].state \in Terminal => entry'[o].state = entry[o].state]_vars

=============================================================================
