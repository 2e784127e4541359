------------------------------- MODULE Commerce -------------------------------
(***************************************************************************)
(* One negotiation between a worker and a client in the commerce dialect:  *)
(* the state machine of commerce_dialect.rs, the PaymentOrderingGuard and  *)
(* AmountTracker of payment_safety.rs and the reconciliation of            *)
(* zap_integration.rs, used together as tests/e2e_scenario.rs uses them.   *)
(*                                                                         *)
(* Each side keeps its own copies and applies to them every message it     *)
(* sends or receives.  Relays lose, repeat and reorder messages: the       *)
(* network is the set of the messages sent, and any of them may arrive     *)
(* again at any time.  A side sends only what its own state allows, and    *)
(* in the direction of the NIP's table (Appendix A): the worker quotes and *)
(* invoices, the client accepts and pays, either counters or rejects, and  *)
(* the worker may try to accept a counter.                                 *)
(*                                                                         *)
(* Left out: terms, references and lnurl, which no check reads, and the    *)
(* Lightning payment itself, of which the zap receipt is the record.       *)
(***************************************************************************)
EXTENDS Integers, FiniteSets

CONSTANTS
  Amounts,    \* prices in millisatoshis
  NoAmount,   \* no price yet
  QuoteBound  \* bound: quotes and counters sent, together

ASSUME CommerceAssumption ==
  /\ Amounts \subseteq Nat
  /\ NoAmount \notin Amounts
  /\ QuoteBound \in Nat

VARIABLES
  state,    \* the NegotiationState of each side
  guard,    \* the state inside each side's PaymentOrderingGuard
  quoted,   \* the price of the last quote a side sent or took
  agreed,   \* AmountTracker: the agreed amount
  verified, \* the invoice's amount tag passed validate_amount_tags
  sent,     \* the messages that exist
  bids,     \* history: how many quotes and counters were sent
  warned,   \* history: the warnings each side's guard returned
  settled,  \* history: what the worker's reconciliations of the zap gave
  refused   \* history: the state machine refused the worker a step of the NIP

vars == <<state, guard, quoted, agreed, verified, sent, bids, warned, settled, refused>>

Roles == {"worker", "client"}

States == {"Open", "Quoted", "Accepted", "Rejected", "Countered", "Working",
           "Completed", "Invoiced", "Paid"}

Verbs == {"quote", "accept-quote", "reject-quote", "counter", "invoice", "paid"}

Warnings == {"PaidBeforeInvoice", "InvoiceBeforeAcceptance", "PrematurePaymentClaim"}

Results == {"exact", "over", "under"}

(* A message with its author and the amount tag it carries; "zap" is the   *)
(* zap receipt.                                                            *)
Messages == [by : Roles, verb : Verbs \union {"zap"}, amount : Amounts \union {NoAmount}]

-----------------------------------------------------------------------------
(* NegotiationState::apply: the transitions of its match.                  *)
Moves == {
  <<"Open", "quote", "Quoted">>,
  <<"Countered", "quote", "Quoted">>,
  <<"Quoted", "accept-quote", "Accepted">>,
  <<"Quoted", "reject-quote", "Rejected">>,
  <<"Quoted", "counter", "Countered">>,
  <<"Accepted", "invoice", "Invoiced">>,
  <<"Working", "invoice", "Invoiced">>,
  <<"Completed", "invoice", "Invoiced">>,
  <<"Invoiced", "paid", "Paid">> }

(* Where the verb leads from the state: one state, or none on an error.    *)
(* Mutant: a quote can be invoiced before it is accepted.                  *)
AfterUnaccepted(s, v) ==
  {m[3] : m \in {n \in Moves \union {<<"Quoted", "invoice", "Invoiced">>} : n[1] = s /\ n[2] = v}}

After(s, v) == {m[3] : m \in {n \in Moves : n[1] = s /\ n[2] = v}}

Legal(s, v) == After(s, v) # {}

(* The state after a verb whose error is ignored.                          *)
Applied(s, v) == IF Legal(s, v) THEN CHOOSE t \in After(s, v) : TRUE ELSE s

(* PaymentOrderingGuard::check_transition: its warnings, then its state.   *)

(* Mutant: an invoice before the work is completed raises the alarm.       *)
WarnsTooSoon(s, v) ==
  {w \in Warnings :
     \/ /\ w = "InvoiceBeforeAcceptance" /\ v = "invoice"
        /\ s \in {"Open", "Quoted", "Countered", "Accepted"}
     \/ /\ w = "PaidBeforeInvoice" /\ v = "paid"
        /\ s \in {"Open", "Quoted", "Accepted", "Countered", "Working", "Completed"}}

WarnsOf(s, v) ==
  {w \in Warnings :
     \/ /\ w = "InvoiceBeforeAcceptance" /\ v = "invoice"
        /\ s \in {"Open", "Quoted", "Countered"}
     \/ /\ w = "PaidBeforeInvoice" /\ v = "paid"
        /\ s \in {"Open", "Quoted", "Accepted", "Countered", "Working", "Completed"}}

(* Mutants: the guard follows only the verbs it warns about and those that *)
(* lead there; an error of the state machine becomes a state.              *)
GuardSkipsCounter(s, v) == IF v = "counter" THEN s ELSE Applied(s, v)

GuardStoresError(s, v) == IF Legal(s, v) THEN Applied(s, v) ELSE "error"

GuardAfter(s, v) == Applied(s, v)

(* check_zap_receipt.                                                      *)
ZapWarnings(s) ==
  IF s \in {"Invoiced", "Paid"} THEN {} ELSE {"PrematurePaymentClaim"}

(* AmountTracker::validate_amount_tags: nothing agreed and no tag pass.    *)
(* Mutant: no comparison.                                                  *)
AmountNotChecked(agreement, tag) == TRUE

AmountOK(agreement, tag) == agreement = NoAmount \/ tag = NoAmount \/ tag = agreement

Reconcile(zap, invoice) ==
  IF zap = invoice THEN "exact" ELSE IF zap > invoice THEN "over" ELSE "under"

-----------------------------------------------------------------------------
Init ==
  /\ state = [r \in Roles |-> "Open"]
  /\ guard = [r \in Roles |-> "Open"]
  /\ quoted = [r \in Roles |-> NoAmount]
  /\ agreed = [r \in Roles |-> NoAmount]
  /\ verified = FALSE
  /\ sent = {}
  /\ bids = 0
  /\ warned = [r \in Roles |-> {}]
  /\ settled = {}
  /\ refused = FALSE

(* Both copies of one side see a verb.                                     *)
Observe(r, v) ==
  /\ state' = [state EXCEPT ![r] = Applied(@, v)]
  /\ guard' = [guard EXCEPT ![r] = GuardAfter(@, v)]
  /\ warned' = [warned EXCEPT ![r] = @ \union WarnsOf(guard[r], v)]

Send(r, v, a) ==
  /\ Legal(state[r], v)
  /\ Observe(r, v)
  /\ sent' = sent \union {[by |-> r, verb |-> v, amount |-> a]}
  /\ UNCHANGED <<settled, refused>>

-----------------------------------------------------------------------------
(* Either side.                                                            *)

SendCounter(r, a) ==
  /\ bids < QuoteBound
  /\ bids' = bids + 1
  /\ Send(r, "counter", a)
  /\ UNCHANGED <<quoted, agreed, verified>>

SendReject(r) ==
  /\ Send(r, "reject-quote", NoAmount)
  /\ UNCHANGED <<quoted, agreed, verified, bids>>

(* Counters, rejections and payments only move the two copies.             *)
ReceiveMove(r, m) ==
  /\ m \in sent /\ m.by # r
  /\ m.verb \in {"counter", "reject-quote", "paid"}
  /\ Observe(r, m.verb)
  /\ UNCHANGED <<quoted, agreed, verified, sent, bids, settled, refused>>

-----------------------------------------------------------------------------
(* The worker.                                                             *)

SendQuote(a) ==
  /\ bids < QuoteBound
  /\ bids' = bids + 1
  /\ Send("worker", "quote", a)
  /\ quoted' = [quoted EXCEPT !["worker"] = a]
  /\ UNCHANGED <<agreed, verified>>

(* The NIP's negotiation flow: after a counter the worker accepts it.      *)
AcceptCounter ==
  /\ state["worker"] = "Countered"
  /\ IF Legal("Countered", "accept-quote")
     THEN Send("worker", "accept-quote", NoAmount)
     ELSE refused' = TRUE /\ UNCHANGED <<state, guard, warned, sent, settled>>
  /\ UNCHANGED <<quoted, agreed, verified, bids>>

(* begin_work and complete_work touch the NegotiationState only.           *)
BeginWork ==
  /\ state["worker"] = "Accepted"
  /\ state' = [state EXCEPT !["worker"] = "Working"]
  /\ UNCHANGED <<guard, quoted, agreed, verified, sent, bids, warned, settled, refused>>

CompleteWork ==
  /\ state["worker"] = "Working"
  /\ state' = [state EXCEPT !["worker"] = "Completed"]
  /\ UNCHANGED <<guard, quoted, agreed, verified, sent, bids, warned, settled, refused>>

SendInvoice ==
  /\ Send("worker", "invoice", agreed["worker"])
  /\ UNCHANGED <<quoted, agreed, verified, bids>>

(* The agreed amount is set from the acceptance's own tag or from the      *)
(* quote the worker believes is accepted: the code leaves it to the caller.*)
ReceiveAccept(m) ==
  /\ m \in sent /\ m.verb = "accept-quote"
  /\ Observe("worker", m.verb)
  /\ IF Legal(state["worker"], m.verb)
     THEN \E a \in {m.amount, quoted["worker"]} :
            agreed' = [agreed EXCEPT !["worker"] = a]
     ELSE UNCHANGED agreed
  /\ UNCHANGED <<quoted, verified, sent, bids, settled, refused>>

(* A zap receipt is checked against the state, then reconciled.            *)
ReceiveZap(m) ==
  /\ m \in sent /\ m.verb = "zap"
  /\ warned' = [warned EXCEPT !["worker"] = @ \union ZapWarnings(guard["worker"])]
  /\ settled' = settled \union {Reconcile(m.amount, agreed["worker"])}
  /\ UNCHANGED <<state, guard, quoted, agreed, verified, sent, bids, refused>>

-----------------------------------------------------------------------------
(* The client.                                                             *)

ReceiveQuote(m) ==
  /\ m \in sent /\ m.verb = "quote"
  /\ Observe("client", m.verb)
  /\ quoted' = IF Legal(state["client"], m.verb)
               THEN [quoted EXCEPT !["client"] = m.amount] ELSE quoted
  /\ UNCHANGED <<agreed, verified, sent, bids, settled, refused>>

SendAccept ==
  /\ Send("client", "accept-quote", quoted["client"])
  /\ agreed' = [agreed EXCEPT !["client"] = quoted["client"]]
  /\ UNCHANGED <<quoted, verified, bids>>

(* The invoice moves the state whatever its amount; the amount is checked  *)
(* after that.                                                             *)
ReceiveInvoice(m) ==
  /\ m \in sent /\ m.verb = "invoice"
  /\ Observe("client", m.verb)
  /\ verified' = AmountOK(agreed["client"], m.amount)
  /\ UNCHANGED <<quoted, agreed, sent, bids, settled, refused>>

(* The client pays the amount it agreed to, and says so.                   *)
SendPaid ==
  /\ verified
  /\ Legal(state["client"], "paid")
  /\ Observe("client", "paid")
  /\ sent' = sent \union {[by |-> "client", verb |-> v, amount |-> agreed["client"]] :
                            v \in {"paid", "zap"}}
  /\ UNCHANGED <<quoted, agreed, verified, bids, settled, refused>>

-----------------------------------------------------------------------------
WorkerStep ==
  \/ \E a \in Amounts : SendQuote(a)
  \/ AcceptCounter \/ BeginWork \/ CompleteWork \/ SendInvoice
  \/ \E m \in sent : ReceiveAccept(m) \/ ReceiveZap(m)

ClientStep ==
  \/ SendAccept \/ SendPaid
  \/ \E m \in sent : ReceiveQuote(m) \/ ReceiveInvoice(m)

EitherStep ==
  \E r \in Roles :
    \/ \E a \in Amounts : SendCounter(r, a)
    \/ SendReject(r)
    \/ \E m \in sent : ReceiveMove(r, m)

Next == WorkerStep \/ ClientStep \/ EitherStep

Spec == Init /\ [][Next]_vars

-----------------------------------------------------------------------------
CommerceTypeOK ==
  /\ state \in [Roles -> States]
  /\ guard \in [Roles -> States]
  /\ quoted \in [Roles -> Amounts \union {NoAmount}]
  /\ agreed \in [Roles -> Amounts \union {NoAmount}]
  /\ verified \in BOOLEAN
  /\ sent \in SUBSET Messages
  /\ bids \in 0..QuoteBound
  /\ warned \in [Roles -> SUBSET Warnings]
  /\ settled \in SUBSET Results
  /\ refused \in BOOLEAN

(* The two copies of the negotiation never drift apart, although only one  *)
(* of them hears of the work.  They agree that a quote changes nothing in  *)
(* Accepted, where the documentation of apply (commerce_dialect.rs:107)    *)
(* lists a transition to Working that the code does not have.              *)
CopiesInStep ==
  \A r \in Roles :
    guard[r] = IF state[r] \in {"Working", "Completed"} THEN "Accepted" ELSE state[r]

(* Between two sides that behave, the guard never cries wolf, however the  *)
(* network loses, repeats and reorders their messages.                     *)
NoFalseAlarm == \A r \in Roles : warned[r] = {}

(* How far the two sides can be apart: who is past a point has heard of it *)
(* from the side that decides it.  Nobody works on an offer the client did *)
(* not accept, is invoiced by nobody, or is paid by nobody.                *)
NobodyIsAhead ==
  /\ state["worker"] \in {"Accepted", "Working", "Completed", "Invoiced", "Paid"} =>
       state["client"] \in {"Accepted", "Invoiced", "Paid"}
  /\ state["client"] \in {"Invoiced", "Paid"} =>
       state["worker"] \in {"Invoiced", "Paid"}
  /\ state["worker"] = "Paid" => state["client"] = "Paid"

(* Even when a repeated counter makes the two sides agree on different     *)
(* prices, no money moves: what is paid is what both had agreed to, and    *)
(* the worker had quoted it.                                               *)
PaymentMatches ==
  /\ settled \subseteq {"exact"}
  /\ \A m \in sent : m.verb \in {"paid", "zap"} =>
       /\ m.amount = agreed["worker"] /\ m.amount = agreed["client"]
       /\ [by |-> "worker", verb |-> "quote", amount |-> m.amount] \in sent

(* The NIP's negotiation flow (specs/nip-xx-agent-communication.md): a     *)
(* quote, the client's counter, and the worker's accept-quote.             *)
CounterCanBeAccepted == ~refused

=============================================================================
