-------------------------- MODULE TaskMarket_proofs --------------------------
(***************************************************************************)
(* Proofs about TaskMarket for any agents, any number of observers, events *)
(* and claims.                                                             *)
(***************************************************************************)
EXTENDS TaskMarket, FiniteSetTheorems, TLAPS

(* The entry of an observer that does not know the task is a placeholder.  *)
Placeholder == [publisher : Agents \union {NoOne}, policy : Policies, state : States,
                claims : Seq(Agents), assignee : Agents \union {NoOne}]

Shape ==
  /\ entry \in [Observers -> Placeholder]
  /\ IsFiniteSet(published)

(* There is one task event, and every entry was made from it.              *)
OneTask ==
  \A e, f \in published : e.verb = "task" /\ f.verb = "task" => e = f

MadeFrom(x, e) == e.verb = "task" /\ x.publisher = e.by /\ x.policy = PolicyOf(e.policy)

EntryHasTask == \A o \in known : \E e \in published : MadeFrom(entry[o], e)

MarketInv ==
  MarketTypeOK /\ Shape /\ OneTask /\ EntryHasTask /\ OutcomeJustified

-----------------------------------------------------------------------------
\* Nothing is published or known at first.
LEMMA MarketInvInit == Init => MarketInv
<1> SUFFICES ASSUME Init PROVE MarketInv
  OBVIOUS
<1>1. <<>> \in Seq(Agents)
  OBVIOUS
<1>2. Shape
  BY <1>1, FS_EmptySet DEF Init, Shape, Placeholder, Policies, States
<1> QED
  BY <1>2 DEF Init, MarketInv, MarketTypeOK, OneTask, EntryHasTask, OutcomeJustified

(* More events justify no less.                                            *)
LEMMA JustifiedMonotone ==
  ASSUME published \subseteq published', NEW x, JustifiedEntry(x), ClaimsPublished(x)
  PROVE  JustifiedEntry(x)' /\ ClaimsPublished(x)'
  BY DEF JustifiedEntry, ClaimsPublished, Decisions

\* An event published justifies no less than before.
LEMMA PublishKeepsInv ==
  ASSUME MarketInv, NEW e \in Event, Publish(e)
  PROVE  MarketInv'
<1>1. published \subseteq published' /\ published' \in SUBSET Event
  BY DEF Publish, MarketInv, MarketTypeOK
<1>2. MarketTypeOK'
  BY <1>1 DEF Publish, MarketInv, MarketTypeOK
<1>3. Shape'
  BY FS_AddElement DEF Publish, MarketInv, Shape
<1>4. OneTask'
  BY DEF Publish, MarketInv, OneTask
<1>5. EntryHasTask'
  BY <1>1 DEF Publish, MarketInv, EntryHasTask, MadeFrom
<1>6. OutcomeJustified'
  BY <1>1, JustifiedMonotone DEF Publish, MarketInv, OutcomeJustified
<1> QED BY <1>2, <1>3, <1>4, <1>5, <1>6 DEF MarketInv

(* A step of one observer keeps the invariant if its new entry is good.    *)
Good(x) ==
  /\ x \in Entry /\ Len(x.claims) <= ClaimBound
  /\ \E e \in published : MadeFrom(x, e)
  /\ JustifiedEntry(x) /\ ClaimsPublished(x)

\* It is enough that the entry an observer writes is a good one.
LEMMA GoodEntryKeepsInv ==
  ASSUME MarketInv, NEW o \in Observers, NEW x, Good(x),
         entry' = [entry EXCEPT ![o] = x],
         known' \subseteq known \union {o}, UNCHANGED published
  PROVE  MarketInv'
<1>1. \A p \in known' : \/ entry'[p] = x
                        \/ entry'[p] = entry[p] /\ p \in known
  <2> TAKE p \in known'
  <2>1. entry \in [Observers -> Placeholder] /\ p \in Observers
    BY DEF MarketInv, MarketTypeOK, Shape
  <2>2. p = o => entry'[p] = x
    BY <2>1
  <2>3. p # o => entry'[p] = entry[p] /\ p \in known
    BY <2>1
  <2> QED BY <2>2, <2>3
<1>2. known' \in SUBSET Observers
  BY DEF MarketInv, MarketTypeOK
<1>3. MarketTypeOK'
  BY <1>1, <1>2 DEF MarketInv, MarketTypeOK, Good
<1>4. Shape'
  BY DEF MarketInv, Shape, Good, Entry, Placeholder
<1>5. OneTask'
  BY DEF MarketInv, OneTask
<1>6. EntryHasTask'
  BY <1>1 DEF MarketInv, EntryHasTask, Good
<1>7. OutcomeJustified'
  BY <1>1 DEF MarketInv, OutcomeJustified, Good, JustifiedEntry, ClaimsPublished, Decisions
<1> QED BY <1>3, <1>4, <1>5, <1>6, <1>7 DEF MarketInv

-----------------------------------------------------------------------------
(* The four handlers.                                                      *)

\* A task that is processed opens its entry without claims.
LEMMA ProcessTaskKeepsInv ==
  ASSUME MarketInv, NEW o \in Observers, NEW e \in published,
         ProcessTask(o, e), UNCHANGED published
  PROVE  MarketInv'
<1>1. e \in Event
  BY DEF MarketInv, MarketTypeOK
<1>2. Fresh(e) \in Entry /\ Len(Fresh(e).claims) <= ClaimBound
  BY <1>1, MarketAssumption DEF Fresh, Entry, Event, PolicyOf, Policies, States
<1>3. Good(Fresh(e))
  BY <1>2 DEF Good, Fresh, MadeFrom, ProcessTask, JustifiedEntry, ClaimsPublished
<1> QED BY <1>3, GoodEntryKeepsInv DEF ProcessTask

\* A claim is noted on a known task, and closes it only where the first one wins.
LEMMA ProcessClaimKeepsInv ==
  ASSUME MarketInv, NEW o \in Observers, NEW e \in published,
         ProcessClaim(o, e), UNCHANGED published
  PROVE  MarketInv'
<1> DEFINE x == entry[o]
<1>1. PICK s \in AfterClaim(x.state, x.policy) :
        entry' = [entry EXCEPT
                   ![o].claims = Append(@, e.by),
                   ![o].state = s,
                   ![o].assignee = IF /\ entry[o].policy = "first-reply-wins"
                                      /\ s = "Assigned"
                                   THEN e.by ELSE @]
  BY DEF ProcessClaim
<1> DEFINE y == [x EXCEPT !.claims = Append(@, e.by), !.state = s,
                          !.assignee = IF x.policy = "first-reply-wins" /\ s = "Assigned"
                                       THEN e.by ELSE @]
<1>2. /\ x \in Entry /\ e \in Event /\ e.verb = "claim" /\ o \in known
      /\ Len(x.claims) < ClaimBound /\ known' = known
  BY DEF MarketInv, MarketTypeOK, ProcessClaim
<1>3. entry' = [entry EXCEPT ![o] = y]
  BY <1>1 DEF MarketInv, Shape
<1>4. JustifiedEntry(x) /\ ClaimsPublished(x)
  BY <1>2 DEF MarketInv, OutcomeJustified
<1>5. y \in Entry /\ Len(y.claims) <= ClaimBound
  <2>1. s \in States
    BY <1>1 DEF AfterClaim, States
  <2>2. e.by \in Agents
    BY <1>2 DEF Event
  <2>3. Append(x.claims, e.by) \in Seq(Agents) /\ Len(Append(x.claims, e.by)) = Len(x.claims) + 1
    BY <1>2, <2>2 DEF Entry
  <2>4. y \in Entry /\ y.claims = Append(x.claims, e.by)
    BY <1>2, <2>1, <2>2, <2>3 DEF Entry
  <2>5. Len(x.claims) \in Nat
    BY <1>2 DEF Entry
  <2> QED BY <1>2, <2>3, <2>4, <2>5, MarketAssumption
<1>6. \E f \in published : MadeFrom(y, f)
  BY <1>2 DEF MarketInv, EntryHasTask, MadeFrom, Entry
<1>7. JustifiedEntry(y)
  <2>1. CASE x.policy = "first-reply-wins"
    <3>1. x.state = "Open" /\ s = "Assigned" /\ x.claims = <<>>
      BY <1>1, <1>4, <2>1 DEF AfterClaim, JustifiedEntry
    <3>2. y.claims = <<e.by>> /\ y.assignee = e.by /\ y.state = "Assigned"
          /\ y.policy = "first-reply-wins"
      BY <1>2, <2>1, <3>1 DEF Entry
    <3> QED BY <3>2 DEF JustifiedEntry
  <2>2. CASE x.policy = "publisher-chooses"
    <3>1. x.state \in {"Open", "Claimed"} /\ s = "Claimed" /\ x.assignee = NoOne
      BY <1>1, <1>4, <2>2 DEF AfterClaim, JustifiedEntry
    <3>2. y.claims = Append(x.claims, e.by) /\ y.assignee = NoOne /\ y.state = "Claimed"
          /\ y.policy = "publisher-chooses"
      BY <1>2, <2>2, <3>1 DEF Entry
    <3>3. y.claims # <<>>
      BY <1>2, <3>2 DEF Entry
    <3> QED BY <3>2, <3>3 DEF JustifiedEntry
  <2> QED BY <1>2, <2>1, <2>2 DEF Entry, Policies
<1>8. ClaimsPublished(y)
  <2>1. y.claims = Append(x.claims, e.by) /\ x.claims \in Seq(Agents)
    BY <1>2 DEF Entry
  <2> QED BY <1>2, <1>4, <2>1 DEF ClaimsPublished
<1> HIDE DEF y
<1>9. Good(y) BY <1>5, <1>6, <1>7, <1>8 DEF Good
<1> QED BY <1>2, <1>3, <1>9, GoodEntryKeepsInv

\* An assignment is its publisher's, and gives the task to the one it names.
LEMMA ProcessAssignKeepsInv ==
  ASSUME MarketInv, NEW o \in Observers, NEW e \in published,
         ProcessAssign(o, e), UNCHANGED published
  PROVE  MarketInv'
<1> DEFINE x == entry[o]
<1> DEFINE y == [x EXCEPT !.state = "Assigned", !.assignee = e.to]
<1>1. /\ x \in Entry /\ e \in Event /\ e.verb = "assign" /\ o \in known
      /\ e.by = x.publisher /\ x.state = "Claimed" /\ known' = known
      /\ Len(x.claims) <= ClaimBound
  BY DEF MarketInv, MarketTypeOK, ProcessAssign, AfterAssign
<1>2. entry' = [entry EXCEPT ![o] = y]
  BY DEF ProcessAssign, AfterAssign, MarketInv, Shape
<1>3. JustifiedEntry(x) /\ ClaimsPublished(x)
  BY <1>1 DEF MarketInv, OutcomeJustified
<1>4. y \in Entry /\ y.claims = x.claims /\ y.policy = x.policy
      /\ y.publisher = x.publisher /\ y.state = "Assigned" /\ y.assignee = e.to
  BY <1>1 DEF Entry, Event, States
<1>5. \E f \in published : MadeFrom(y, f)
  BY <1>1, <1>4 DEF MarketInv, EntryHasTask, MadeFrom
<1>6. e \in Decisions(y.publisher)
  BY <1>1, <1>4 DEF Decisions
<1>7. x.policy = "publisher-chooses" /\ x.claims # <<>>
  BY <1>1, <1>3 DEF JustifiedEntry
<1> HIDE DEF y
<1>8. JustifiedEntry(y)
  BY <1>1, <1>4, <1>6, <1>7 DEF JustifiedEntry
<1>9. ClaimsPublished(y)
  BY <1>3, <1>4 DEF ClaimsPublished
<1>10. Good(y) BY <1>1, <1>4, <1>5, <1>8, <1>9 DEF Good
<1> QED BY <1>1, <1>2, <1>10, GoodEntryKeepsInv

\* A withdrawal closes an open task of its publisher.
LEMMA ProcessWithdrawKeepsInv ==
  ASSUME MarketInv, NEW o \in Observers, NEW e \in published,
         ProcessWithdraw(o, e), UNCHANGED published
  PROVE  MarketInv'
<1> DEFINE x == entry[o]
<1> DEFINE y == [x EXCEPT !.state = "Withdrawn"]
<1>1. /\ x \in Entry /\ e \in Event /\ e.verb = "withdraw" /\ o \in known
      /\ e.by = x.publisher /\ x.state \in {"Open", "Claimed"} /\ known' = known
      /\ Len(x.claims) <= ClaimBound
  BY DEF MarketInv, MarketTypeOK, ProcessWithdraw, AfterWithdraw
<1>2. entry' = [entry EXCEPT ![o] = y]
  BY <1>1 DEF ProcessWithdraw, AfterWithdraw, MarketInv, Shape
<1>3. JustifiedEntry(x) /\ ClaimsPublished(x)
  BY <1>1 DEF MarketInv, OutcomeJustified
<1>4. y \in Entry /\ y.claims = x.claims /\ y.policy = x.policy
      /\ y.publisher = x.publisher /\ y.state = "Withdrawn" /\ y.assignee = x.assignee
  BY <1>1 DEF Entry, States
<1>5. \E f \in published : MadeFrom(y, f)
  BY <1>1, <1>4 DEF MarketInv, EntryHasTask, MadeFrom
<1>6. e \in Decisions(y.publisher)
  BY <1>1, <1>4 DEF Decisions
<1> HIDE DEF y
<1>7. JustifiedEntry(y)
  BY <1>1, <1>3, <1>4, <1>6 DEF JustifiedEntry
<1>8. ClaimsPublished(y)
  BY <1>3, <1>4 DEF ClaimsPublished
<1>9. Good(y) BY <1>1, <1>4, <1>5, <1>7, <1>8 DEF Good
<1> QED BY <1>1, <1>2, <1>9, GoodEntryKeepsInv

-----------------------------------------------------------------------------
\* What the builders publish are events.
LEMMA PublishStepEvent == PublishStep => \E e \in Event : Publish(e)
  BY DEF PublishStep, PublishTask, PublishClaim, PublishAssign, PublishWithdraw,
         Event, PolicyTags

\* Every step of publishers, network and observers keeps the invariant.
LEMMA MarketInvStep == MarketInv /\ [Next]_vars => MarketInv'
<1> SUFFICES ASSUME MarketInv, [Next]_vars PROVE MarketInv'
  OBVIOUS
<1>1. CASE PublishStep
  BY <1>1, PublishStepEvent, PublishKeepsInv
<1>2. ASSUME NEW o \in Observers, NEW e \in published, ProcessEvent(o, e)
      PROVE  MarketInv'
  BY <1>2, ProcessTaskKeepsInv, ProcessClaimKeepsInv, ProcessAssignKeepsInv,
     ProcessWithdrawKeepsInv DEF ProcessEvent
<1>3. CASE UNCHANGED vars
  BY <1>3 DEF vars, MarketInv, MarketTypeOK, Shape, OneTask, EntryHasTask,
     OutcomeJustified, JustifiedEntry, ClaimsPublished, Decisions
<1> QED BY <1>1, <1>2, <1>3 DEF Next

\* The invariant of the market.
LEMMA MarketInvariant == Spec => []MarketInv
  BY MarketInvInit, MarketInvStep, PTL DEF Spec

(* Type correctness: in particular no refused transition is ever stored.   *)
THEOREM MarketTypeCorrect == Spec => []MarketTypeOK
<1>1. MarketInv => MarketTypeOK BY DEF MarketInv
<1> QED BY <1>1, MarketInvariant, PTL

(* However events are ordered, repeated and lost, what a registry says of  *)
(* the task is justified by events of the right authors.                   *)
THEOREM MarketJustified == Spec => []OutcomeJustified
<1>1. MarketInv => OutcomeJustified BY DEF MarketInv
<1> QED BY <1>1, MarketInvariant, PTL

-----------------------------------------------------------------------------
(* Agreement: entries come from one task event, so they share publisher    *)
(* and policy, and a closed one quotes a decision; there is only one.      *)
LEMMA Agreement == MarketInv => ObserversAgree
<1> SUFFICES ASSUME MarketInv, NEW o \in known, NEW p \in known,
                    entry[o].policy = "publisher-chooses",
                    entry[o].state \in Terminal, entry[p].state \in Terminal,
                    Cardinality(Decisions(entry[o].publisher)) = 1
             PROVE  entry[o].state = entry[p].state /\ entry[o].assignee = entry[p].assignee
  BY DEF ObserversAgree
<1>1. entry[p].policy = entry[o].policy /\ entry[p].publisher = entry[o].publisher
  BY DEF MarketInv, OneTask, EntryHasTask, MadeFrom
<1>2. PICK d : Decisions(entry[o].publisher) = {d}
  <2>1. IsFiniteSet(Decisions(entry[o].publisher))
    BY FS_Subset DEF MarketInv, Shape, Decisions
  <2> QED BY <2>1, FS_Singleton
<1>3. ASSUME NEW q \in known, entry[q].policy = "publisher-chooses",
             entry[q].publisher = entry[o].publisher, entry[q].state \in Terminal
      PROVE  \/ /\ entry[q].state = "Assigned" /\ d.verb = "assign"
                /\ entry[q].assignee = d.to
             \/ /\ entry[q].state = "Withdrawn" /\ d.verb = "withdraw"
                /\ entry[q].assignee = NoOne
  <2>1. JustifiedEntry(entry[q]) BY DEF MarketInv, OutcomeJustified
  <2> QED BY <1>2, <1>3, <2>1 DEF JustifiedEntry, Terminal
<1> QED BY <1>1, <1>3

(* Where the publisher chooses and has spoken once, observers that have    *)
(* the task closed agree on how.                                           *)
THEOREM MarketAgreement == Spec => []ObserversAgree
  BY Agreement, MarketInvariant, PTL

-----------------------------------------------------------------------------
(* A closed entry changes only where its own task event is received.       *)
Reopens(o) ==
  entry[o].state \in Terminal /\ entry'[o] # entry[o] =>
    /\ entry'[o].state = "Open" /\ entry'[o].claims = <<>>
    /\ entry'[o].publisher = entry[o].publisher

\* A step reopens a known task only by its own task event.
LEMMA ResetStep ==
  ASSUME MarketInv, [Next]_vars, NEW o \in known
  PROVE  Reopens(o)
<1> USE DEF Reopens
<1>1. CASE PublishStep
  BY <1>1, PublishStepEvent DEF Publish
<1>2. ASSUME NEW p \in Observers, NEW e \in published, ProcessTask(p, e)
      PROVE  Reopens(o)
  <2>1. entry'[o] = entry[o] \/ entry'[o] = Fresh(e)
    BY <1>2 DEF ProcessTask, MarketInv, MarketTypeOK, Shape
  <2>2. e.by = entry[o].publisher
    BY <1>2 DEF ProcessTask, MarketInv, EntryHasTask, MadeFrom, OneTask
  <2> QED BY <2>1, <2>2 DEF Fresh
<1>3. ASSUME NEW p \in Observers, NEW e \in published,
             ProcessClaim(p, e) \/ ProcessAssign(p, e) \/ ProcessWithdraw(p, e)
      PROVE  Reopens(o)
  <2>1. entry[p].state \notin Terminal
    BY <1>3 DEF ProcessClaim, ProcessAssign, ProcessWithdraw, AfterClaim, AfterAssign,
                AfterWithdraw, Terminal
  <2>2. o # p => entry'[o] = entry[o]
    <3>t. o \in Observers /\ entry \in [Observers -> Placeholder]
      BY DEF MarketInv, MarketTypeOK, Shape
    <3>1. CASE ProcessClaim(p, e)
      BY <3>t, <3>1 DEF ProcessClaim
    <3>2. CASE ProcessAssign(p, e)
      BY <3>t, <3>2 DEF ProcessAssign
    <3>3. CASE ProcessWithdraw(p, e)
      BY <3>t, <3>3 DEF ProcessWithdraw
    <3> QED BY <1>3, <3>1, <3>2, <3>3
  <2> QED BY <2>1, <2>2
<1>4. CASE UNCHANGED vars
  BY <1>4 DEF vars
<1> QED BY <1>1, <1>2, <1>3, <1>4 DEF Next, ProcessEvent

(* Nothing but the task's own event received again reopens a closed task.  *)
THEOREM MarketClosedUntilReset == Spec => ClosedUntilReset
<1>1. MarketInv /\ [Next]_vars => [\A o \in known : Reopens(o)]_vars
  BY ResetStep
<1>2. Spec => [][\A o \in known : Reopens(o)]_vars
  BY <1>1, MarketInvariant, PTL DEF Spec
<1> QED BY <1>2 DEF ClosedUntilReset, Reopens

=============================================================================
