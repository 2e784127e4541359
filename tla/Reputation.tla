----------------------------- MODULE Reputation -----------------------------
(***************************************************************************)
(* Zap requests and receipts of zap_integration.rs as events, and the      *)
(* aggregator of reputation_query.rs that one observer keeps about one     *)
(* agent.  Receipts come from several relays, so in any order and more     *)
(* than once, and neither parser checks a signature.                       *)
(*                                                                         *)
(* An amount is an integer, a u64 when it is in 0..MaxU64.  The JSON of a  *)
(* zap request is the event itself, or a record that is no event.          *)
(***************************************************************************)
EXTENDS Wire, FiniteSets, FiniteSetsExt

CONSTANTS
  Subject,          \* the agent the aggregator is about
  MaxU64,           \* the largest amount: sums wrap beyond it
  AssignedBound     \* bound: assignments recorded

ASSUME ReputationAssumption ==
  /\ Subject \in Keys
  /\ MaxU64 \in Nat
  /\ AssignedBound \in Nat

VARIABLES
  receipts,          \* the receipts counted, by event id
  receipt_dialects,  \* the dialects of those that have any
  assigned_count,
  fed                \* history: the events given to the aggregator

reputationVars == <<receipts, receipt_dialects, assigned_count, fed>>

KIND_ZAP_REQUEST == 9734
KIND_ZAP_RECEIPT == 9735

-----------------------------------------------------------------------------
(* Requests and receipts.                                                  *)

\* A zap request to build; its event and its lnurl are optional, its
\* relays are a sequence.
zap_request(z) ==
  LET tag(key, value) == IF value = None THEN <<>> ELSE << <<key, value>> >>
  IN  IF z.recipient = None THEN Err("MissingField")
      ELSE IF z.amount_msats < 0 THEN Err("MissingField")
      ELSE
        Ok(Unsigned(KIND_ZAP_REQUEST,
             << <<"p", z.recipient>> >>
             \o tag("e", z.event_id)
             \o << <<"amount", z.amount_msats>> >>
             \o (IF z.relays = <<>> THEN <<>> ELSE << <<"relays">> \o z.relays >>)
             \o tag("lnurl", z.lnurl),
           [form |-> "text"]))

zap_receipt_filter(key) == [kinds |-> {KIND_ZAP_RECEIPT}, p_tags |-> {key}]
zap_receipt_filter_since(key, since) ==
  [kinds |-> {KIND_ZAP_RECEIPT}, p_tags |-> {key}, since |-> since]

\* The values of the tags with a key, in order.
Values(tags, key) ==
  LET found == Filtered(tags, LAMBDA raw : Len(raw) >= 2 /\ raw[1] = key)
  IN  [i \in DOMAIN found |-> found[i][2]]

FirstOf(values) == IF values = <<>> THEN None ELSE values[1]

IsEventJson(json) == "kind" \in DOMAIN json

\* ZapReceipt::from_event
zap_receipt(event) ==
  LET described == Values(event.tags, "description")
      request == described[1]
      amounts == Filtered(Values(request.tags, "amount"), LAMBDA a : a \in 0..MaxU64)
  IN  IF event.kind # KIND_ZAP_RECEIPT THEN Err("WrongKind")
      ELSE IF Tagged(event, "PubKey") = {} THEN Err("MissingField")
      ELSE IF described = <<>> THEN Err("MissingField")
      ELSE IF ~IsEventJson(request) THEN Err("Json")
      ELSE IF request.kind # KIND_ZAP_REQUEST THEN Err("MalformedRequest")
      ELSE IF amounts = <<>> THEN Err("MissingField")
      ELSE Ok([event |-> event, recipient |-> FindTag(event, "PubKey"),
               event_id |-> FindTag(event, "Event"),
               bolt11 |-> FirstOf(Values(event.tags, "bolt11")),
               amount_msats |-> amounts[1], zap_request |-> request])

-----------------------------------------------------------------------------
(* The aggregator.                                                         *)

ReputationInit ==
  /\ receipts = [id \in {} |-> None]
  /\ receipt_dialects = [id \in {} |-> <<>>]
  /\ assigned_count = 0
  /\ fed = {}

With(f, x, y) == [z \in DOMAIN f \union {x} |-> IF z = x THEN y ELSE f[z]]

\* The dialects the caller gives, or those of the embedded zap request.
ReceiptDialects(receipt, given) ==
  LET tags == receipt.zap_request.tags
      named == Filtered(tags, LAMBDA raw : Tag_parse(raw).variant = "Dialect")
  IN  IF given # <<>> THEN given ELSE [i \in DOMAIN named |-> named[i][2]]

Counted(event) ==
  LET receipt == zap_receipt(event)
  IN  receipt.ok /\ receipt.val.recipient = Subject

add_zap_receipt_with_dialects(event, given) ==
  LET receipt == zap_receipt(event)
      dialects == ReceiptDialects(receipt.val, given)
  IN  /\ fed' = fed \union {event}
      /\ UNCHANGED assigned_count
      /\ IF ~Counted(event) \/ event.id \in DOMAIN receipts
         THEN UNCHANGED <<receipts, receipt_dialects>>
         ELSE /\ receipts' = With(receipts, event.id, receipt.val)
              /\ receipt_dialects' = IF dialects = <<>> THEN receipt_dialects
                                     ELSE With(receipt_dialects, event.id, dialects)

add_zap_receipt(event) == add_zap_receipt_with_dialects(event, <<>>)

record_assignments(count) ==
  /\ assigned_count + count <= AssignedBound
  /\ assigned_count' = assigned_count + count
  /\ UNCHANGED <<receipts, receipt_dialects, fed>>

Amount(id) == receipts[id].amount_msats
Wrapped(n) == n % (MaxU64 + 1)

\* The dialects of a receipt, as the summary counts them: once per tag.
Mentions(d) ==
  UNION {{<<id, i>> : i \in {j \in DOMAIN receipt_dialects[id] :
                              receipt_dialects[id][j] = d}} :
           id \in DOMAIN receipt_dialects}

\* What the completion rate is a share of: fewer assignments than receipts
\* may have been recorded.  Mutant: the two together.
OfBoth(completed) == assigned_count + completed

OfTasks(completed) == IF assigned_count > completed THEN assigned_count ELSE completed

summarize ==
  LET completed == Cardinality(DOMAIN receipts)
      tasks == OfTasks(completed)
      named == UNION {{receipt_dialects[id][i] : i \in DOMAIN receipt_dialects[id]} :
                        id \in DOMAIN receipt_dialects}
  IN  [total_earnings_msats |-> Wrapped(MapThenSumSet(Amount, DOMAIN receipts)),
       completed_tasks |-> completed,
       assigned_tasks |-> assigned_count,
       completion_rate_pct |-> IF tasks = 0 THEN 100
                              ELSE Min({100, (completed * 100) \div tasks}),
       last_activity |-> Max({0} \union {receipts[id].event.created_at : id \in DOMAIN receipts}),
       domain_expertise |->
         [d \in named |->
            [task_count |-> Cardinality(Mentions(d)),
             total_msats |-> Wrapped(MapThenSumSet(LAMBDA m : Amount(m[1]), Mentions(d)))]]]

-----------------------------------------------------------------------------
(* The verdict of payment_safety.rs on a publisher, at a time.             *)

TrustThresholds(payments, rate, paid, inactivity) ==
  [min_completed_payments |-> payments, min_completion_rate_pct |-> rate,
   min_total_paid_msats |-> paid, max_inactivity_secs |-> inactivity]

permissive == TrustThresholds(0, 0, 0, 0)
default_thresholds == TrustThresholds(1, 50, 0, 0)
strict == TrustThresholds(5, 80, 100000, 30 * 24 * 3600)

verify_publisher(summary, required, at) ==
  {v \in {"InsufficientPaymentHistory", "LowCompletionRate", "InsufficientTotalPaid",
          "StaleActivity"} :
     CASE v = "InsufficientPaymentHistory" ->
            summary.completed_tasks < required.min_completed_payments
       [] v = "LowCompletionRate" ->
            summary.completion_rate_pct < required.min_completion_rate_pct
       [] v = "InsufficientTotalPaid" ->
            summary.total_earnings_msats < required.min_total_paid_msats
       [] v = "StaleActivity" ->
            /\ required.max_inactivity_secs > 0 /\ at > 0 /\ summary.last_activity > 0
            /\ at - summary.last_activity > required.max_inactivity_secs}

is_trusted(verdict) == verdict = {}

-----------------------------------------------------------------------------
\* Satoshis and millisatoshis; a release build lets the product wrap.
sats_to_msats(sats) == Wrapped(sats * 1000)
msats_to_sats(msats) == msats \div 1000

-----------------------------------------------------------------------------
\* What the summary says depends on the set of receipts given, never on
\* their order or on how often each came: one payment to the subject per
\* event id, each the first event given with that id.
PaymentsCountOnce ==
  LET mine == {e \in fed : zap_receipt(e).ok /\ zap_receipt(e).val.recipient = Subject}
  IN  /\ DOMAIN receipts = {e.id : e \in mine}
      /\ \A id \in DOMAIN receipts :
           \E e \in mine : e.id = id /\ receipts[id] = zap_receipt(e).val
      /\ DOMAIN receipt_dialects \subseteq DOMAIN receipts

Repeats(s) == \E i, j \in DOMAIN s : i # j /\ s[i] = s[j]

\* The numbers of a summary fit each other: a full rate exactly when nothing
\* assigned is outstanding, and no more receipts of one domain than in all,
\* except when a receipt names a dialect twice, which counts it twice.
SummaryAddsUp ==
  LET s == summarize
  IN  /\ s.completion_rate_pct \in 0..100
      /\ s.completion_rate_pct = 100 <=> s.assigned_tasks <= s.completed_tasks
      /\ s.completed_tasks = 0 => s.total_earnings_msats = 0 /\ s.last_activity = 0
      /\ \A d \in DOMAIN s.domain_expertise :
           \/ s.domain_expertise[d].task_count <= s.completed_tasks
           \/ \E id \in DOMAIN receipt_dialects : Repeats(receipt_dialects[id])

ReputationIsFair == PaymentsCountOnce /\ SummaryAddsUp

=============================================================================
