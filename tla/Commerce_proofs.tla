--------------------------- MODULE Commerce_proofs ---------------------------
(***************************************************************************)
(* Proofs about Commerce for any set of prices and any number of bids: two *)
(* sides that behave keep in step over any network.                        *)
(***************************************************************************)
EXTENDS Commerce, TLAPS

-----------------------------------------------------------------------------
(* The state machine as a table: where each verb leads.                    *)
LEMMA AfterMoves ==
  ASSUME NEW s, NEW v, NEW t
  PROVE  t \in After(s, v) <=> <<s, v, t>> \in Moves
<1>1. \A m \in Moves : m = <<m[1], m[2], m[3]>>
  BY DEF Moves
<1>2. ASSUME t \in After(s, v) PROVE <<s, v, t>> \in Moves
  <2>1. PICK m \in Moves : m[1] = s /\ m[2] = v /\ m[3] = t
    BY <1>2 DEF After
  <2> QED BY <1>1, <2>1
<1>3. ASSUME <<s, v, t>> \in Moves PROVE t \in After(s, v)
  <2> DEFINE m == <<s, v, t>>
  <2>1. m \in Moves /\ m[1] = s /\ m[2] = v /\ m[3] = t
    BY <1>3
  <2> QED BY <2>1 DEF After
<1> QED BY <1>2, <1>3

\* The transitions of a quote.
LEMMA OnQuote ==
  ASSUME NEW s \in States
  PROVE  /\ Legal(s, "quote") <=> s \in {"Open", "Countered"}
         /\ Applied(s, "quote") = IF s \in {"Open", "Countered"} THEN "Quoted" ELSE s
<1>1. After(s, "quote") = IF s \in {"Open", "Countered"} THEN {"Quoted"} ELSE {}
  BY AfterMoves DEF Moves, States
<1> QED BY <1>1 DEF Legal, Applied

\* The transitions of the three answers to a quote.
LEMMA OnAnswer ==
  ASSUME NEW s \in States,
         NEW v, NEW t,
         <<v, t>> \in {<<"accept-quote", "Accepted">>, <<"reject-quote", "Rejected">>,
                       <<"counter", "Countered">>}
  PROVE  /\ Legal(s, v) <=> s = "Quoted"
         /\ Applied(s, v) = IF s = "Quoted" THEN t ELSE s
<1>1. After(s, v) = IF s = "Quoted" THEN {t} ELSE {}
  BY AfterMoves DEF Moves, States
<1> QED BY <1>1 DEF Legal, Applied

\* The transitions of an invoice.
LEMMA OnInvoice ==
  ASSUME NEW s \in States
  PROVE  /\ Legal(s, "invoice") <=> s \in {"Accepted", "Working", "Completed"}
         /\ Applied(s, "invoice") =
              IF s \in {"Accepted", "Working", "Completed"} THEN "Invoiced" ELSE s
<1>1. After(s, "invoice") =
        IF s \in {"Accepted", "Working", "Completed"} THEN {"Invoiced"} ELSE {}
  BY AfterMoves DEF Moves, States
<1> QED BY <1>1 DEF Legal, Applied

\* The transitions of a payment.
LEMMA OnPaid ==
  ASSUME NEW s \in States
  PROVE  /\ Legal(s, "paid") <=> s = "Invoiced"
         /\ Applied(s, "paid") = IF s = "Invoiced" THEN "Paid" ELSE s
<1>1. After(s, "paid") = IF s = "Invoiced" THEN {"Paid"} ELSE {}
  BY AfterMoves DEF Moves, States
<1> QED BY <1>1 DEF Legal, Applied

\* The transitions of an acceptance.
LEMMA OnAccept ==
  ASSUME NEW s \in States
  PROVE  /\ Legal(s, "accept-quote") <=> s = "Quoted"
         /\ Applied(s, "accept-quote") = IF s = "Quoted" THEN "Accepted" ELSE s
  BY OnAnswer

(* Rejections and counters.                                                *)
LEMMA OnOther ==
  ASSUME NEW s \in States, NEW v \in {"reject-quote", "counter"}
  PROVE  /\ Legal(s, v) <=> s = "Quoted"
         /\ Applied(s, v) \in IF s = "Quoted" THEN {"Rejected", "Countered"} ELSE {s}
  BY OnAnswer

\* Every verb leaves a state of the negotiation.
LEMMA AppliedTypes ==
  ASSUME NEW s \in States, NEW v \in Verbs PROVE Applied(s, v) \in States
  BY OnQuote, OnAccept, OnOther, OnInvoice, OnPaid DEF Verbs, States

-----------------------------------------------------------------------------
(* The inductive invariant.  How far a side has got is what its peer's     *)
(* messages rest on, and a message carries the price its author holds.     *)
Late == {"Accepted", "Invoiced", "Paid"}

Hired == Late \union {"Working", "Completed"}

Billed == {"Invoiced", "Paid"}

ClientNeverWorks == state["client"] \notin {"Working", "Completed"}

Earned(m) ==
  /\ m.verb = "quote" => m.by = "worker" /\ m.amount \in Amounts
  /\ m.verb = "accept-quote" =>
       m.by = "client" /\ m.amount = agreed["client"] /\ state["client"] \in Late
  /\ m.verb = "invoice" =>
       m.by = "worker" /\ m.amount = agreed["worker"] /\ state["worker"] \in Billed
  /\ m.verb \in {"paid", "zap"} =>
       m.by = "client" /\ m.amount = agreed["client"] /\ state["client"] = "Paid"

MessagesEarned == \A m \in sent : Earned(m)

WasQuoted(a) == [by |-> "worker", verb |-> "quote", amount |-> a] \in sent

PricesHeld ==
  /\ quoted["client"] # NoAmount => WasQuoted(quoted["client"])
  /\ agreed["client"] # NoAmount => WasQuoted(agreed["client"])
  /\ state["client"] = "Quoted" => quoted["client"] \in Amounts
  /\ state["worker"] = "Quoted" => quoted["worker"] \in Amounts
  /\ state["client"] \in Late => agreed["client"] \in Amounts
  /\ state["worker"] \in Hired => agreed["worker"] \in Amounts

PricesAgree ==
  /\ verified => state["worker"] \in Billed /\ agreed["worker"] = agreed["client"]
  /\ state["client"] = "Paid" => agreed["worker"] = agreed["client"]

CommerceInv ==
  /\ CommerceTypeOK /\ CopiesInStep /\ NoFalseAlarm /\ NobodyIsAhead
  /\ ClientNeverWorks /\ MessagesEarned /\ PricesHeld /\ PricesAgree
  /\ settled \subseteq {"exact"}

\* Both sides start open and nothing is on its way.
LEMMA CommerceInvInit == Init => CommerceInv
<1> SUFFICES ASSUME Init PROVE CommerceInv
  OBVIOUS
<1>1. CommerceTypeOK
  <2>1. bids \in 0..QuoteBound
    BY CommerceAssumption DEF Init
  <2>2. "Open" \in States
    BY DEF States
  <2> QED BY <2>1, <2>2 DEF Init, CommerceTypeOK
<1>2. CopiesInStep /\ NoFalseAlarm
  BY DEF Init, CopiesInStep, NoFalseAlarm
<1>3. state["client"] = "Open" /\ state["worker"] = "Open"
  BY DEF Init, Roles
<1>4. NobodyIsAhead /\ ClientNeverWorks
  BY <1>3 DEF NobodyIsAhead, ClientNeverWorks
<1>5. PricesHeld /\ PricesAgree /\ MessagesEarned /\ settled \subseteq {"exact"}
  BY <1>3 DEF Init, PricesHeld, PricesAgree, MessagesEarned, Roles, Late, Hired
<1> QED BY <1>1, <1>2, <1>4, <1>5 DEF CommerceInv

(* What a verb does to the copies of the side that sees it.                *)
LEMMA ObserveEffect ==
  ASSUME CommerceInv, NEW r \in Roles, NEW v \in Verbs, Observe(r, v)
  PROVE  /\ state' \in [Roles -> States] /\ guard' \in [Roles -> States]
         /\ warned' \in [Roles -> SUBSET Warnings]
         /\ state'[r] = Applied(state[r], v)
         /\ \A q \in Roles \ {r} : state'[q] = state[q]
         /\ CopiesInStep'
         /\ WarnsOf(guard[r], v) = {} => NoFalseAlarm'
<1> USE DEF CommerceInv
<1>1. /\ state \in [Roles -> States] /\ guard \in [Roles -> States]
      /\ warned \in [Roles -> SUBSET Warnings]
  BY DEF CommerceTypeOK
<1>2. Applied(state[r], v) \in States /\ Applied(guard[r], v) \in States
  BY <1>1, AppliedTypes
<1>3. state' \in [Roles -> States] /\ guard' \in [Roles -> States]
  BY <1>1, <1>2 DEF Observe, GuardAfter
<1>4. WarnsOf(guard[r], v) \subseteq Warnings
  BY DEF WarnsOf
<1>5. warned' \in [Roles -> SUBSET Warnings]
  BY <1>1, <1>4 DEF Observe
<1>6. /\ state'[r] = Applied(state[r], v) /\ guard'[r] = Applied(guard[r], v)
      /\ \A q \in Roles \ {r} : state'[q] = state[q] /\ guard'[q] = guard[q]
  BY <1>1 DEF Observe, GuardAfter
<1>7. CopiesInStep'
  <2>1. CASE state[r] \notin {"Working", "Completed"}
    <3>1. Applied(state[r], v) \notin {"Working", "Completed"}
      BY <1>1, <2>1, OnQuote, OnAccept, OnOther, OnInvoice, OnPaid DEF Verbs
    <3> QED BY <1>6, <2>1, <3>1 DEF CopiesInStep
  <2>2. CASE state[r] \in {"Working", "Completed"}
    <3>1. "Accepted" \in States /\ state[r] \in States /\ guard[r] = "Accepted"
      BY <1>1, <2>2 DEF States, CopiesInStep
    <3>2. \/ Applied(guard[r], v) = "Invoiced" /\ Applied(state[r], v) = "Invoiced"
          \/ Applied(guard[r], v) = guard[r] /\ Applied(state[r], v) = state[r]
      BY <2>2, <3>1, OnQuote, OnAccept, OnOther, OnInvoice, OnPaid DEF Verbs
    <3> QED BY <1>6, <2>2, <3>1, <3>2 DEF CopiesInStep
  <2> QED BY <2>1, <2>2
<1>8. ASSUME WarnsOf(guard[r], v) = {} PROVE NoFalseAlarm'
  BY <1>1, <1>8 DEF Observe, NoFalseAlarm
<1> QED BY <1>3, <1>5, <1>6, <1>7, <1>8

-----------------------------------------------------------------------------
(* Either side.  Counters and rejections raise no warning and move a side  *)
(* only from Quoted, where nothing has been agreed.                        *)
LEMMA TypesHold ==
  CommerceInv => /\ state \in [Roles -> States] /\ guard \in [Roles -> States]
                 /\ quoted \in [Roles -> Amounts \union {NoAmount}]
                 /\ agreed \in [Roles -> Amounts \union {NoAmount}]
                 /\ verified \in BOOLEAN /\ sent \in SUBSET Messages
                 /\ "client" \in Roles /\ "worker" \in Roles
  BY DEF CommerceInv, CommerceTypeOK, Roles

\* A rejection or a counter, sent or received, settles no price.
LEMMA TurnedDown ==
  ASSUME CommerceInv, NEW r \in Roles, NEW v \in {"reject-quote", "counter"},
         Observe(r, v),
         UNCHANGED <<quoted, agreed, verified, settled>>,
         NEW a \in Amounts \union {NoAmount},
         sent' \in {sent, sent \union {[by |-> r, verb |-> v, amount |-> a]}},
         bids' \in 0..QuoteBound, refused' \in BOOLEAN
  PROVE  CommerceInv'
<1> USE DEF CommerceInv
<1>1. v \in Verbs /\ WarnsOf(guard[r], v) = {}
  BY DEF Verbs, WarnsOf
<1>2. /\ state' \in [Roles -> States] /\ guard' \in [Roles -> States]
      /\ warned' \in [Roles -> SUBSET Warnings]
      /\ state'[r] = Applied(state[r], v)
      /\ \A q \in Roles \ {r} : state'[q] = state[q]
      /\ CopiesInStep' /\ NoFalseAlarm'
  BY <1>1, ObserveEffect
<1>3. \A q \in Roles : \/ state'[q] = state[q]
                       \/ state[q] = "Quoted" /\ state'[q] \in {"Rejected", "Countered"}
  BY <1>2, TypesHold, OnOther
<1>4. CommerceTypeOK'
  BY <1>1, <1>2 DEF CommerceTypeOK, Messages
<1>5. NobodyIsAhead' /\ ClientNeverWorks'
  BY <1>3, TypesHold DEF NobodyIsAhead, ClientNeverWorks
<1>6. MessagesEarned'
  BY <1>3, TypesHold DEF MessagesEarned, Earned, Late, Billed
<1>7. PricesHeld' /\ PricesAgree'
  BY <1>3, TypesHold DEF PricesHeld, PricesAgree, WasQuoted, Late, Billed, Hired
<1> QED BY <1>2, <1>4, <1>5, <1>6, <1>7

\* A side counters.
LEMMA SendCounterKeepsInv ==
  ASSUME CommerceInv, NEW r \in Roles, NEW a \in Amounts, SendCounter(r, a)
  PROVE  CommerceInv'
<1>1. bids' \in 0..QuoteBound
  BY CommerceAssumption DEF SendCounter, CommerceInv, CommerceTypeOK
<1>2. refused' \in BOOLEAN
  BY DEF SendCounter, Send, CommerceInv, CommerceTypeOK
<1> QED BY <1>1, <1>2, TurnedDown DEF SendCounter, Send

\* A side rejects.
LEMMA SendRejectKeepsInv ==
  ASSUME CommerceInv, NEW r \in Roles, SendReject(r) PROVE CommerceInv'
<1>1. bids' \in 0..QuoteBound /\ refused' \in BOOLEAN
  BY DEF SendReject, Send, CommerceInv, CommerceTypeOK
<1> QED BY <1>1, TurnedDown DEF SendReject, Send

(* A payment that arrives was made, so the worker has sent its invoice.    *)
LEMMA ReceiveMoveKeepsInv ==
  ASSUME CommerceInv, NEW r \in Roles, NEW m \in sent, ReceiveMove(r, m)
  PROVE  CommerceInv'
<1> USE DEF CommerceInv
<1>1. bids' \in 0..QuoteBound /\ refused' \in BOOLEAN
  BY DEF ReceiveMove, CommerceTypeOK
<1>2. CASE m.verb \in {"reject-quote", "counter"}
  BY <1>1, <1>2, TurnedDown DEF ReceiveMove
<1>3. CASE m.verb = "paid"
  <2>1. r = "worker" /\ state["client"] = "Paid" /\ state["worker"] \in Billed
    BY <1>3 DEF ReceiveMove, MessagesEarned, Earned, Roles, NobodyIsAhead, Billed
  <2>2. guard["worker"] \in Billed
    BY <2>1, TypesHold DEF CopiesInStep, Billed
  <2>3. "paid" \in Verbs /\ WarnsOf(guard[r], "paid") = {}
    BY <2>1, <2>2 DEF Verbs, WarnsOf, Billed
  <2>4. /\ state' \in [Roles -> States] /\ guard' \in [Roles -> States]
        /\ warned' \in [Roles -> SUBSET Warnings]
        /\ state'["worker"] = Applied(state["worker"], "paid")
        /\ state'["client"] = state["client"]
        /\ CopiesInStep' /\ NoFalseAlarm'
    BY <1>3, <2>1, <2>3, TypesHold, ObserveEffect DEF ReceiveMove
  <2>5. state'["worker"] = "Paid"
    BY <2>1, <2>4, OnPaid, TypesHold DEF Billed
  <2>6. CommerceTypeOK'
    BY <2>4 DEF ReceiveMove, CommerceTypeOK
  <2>7. NobodyIsAhead' /\ ClientNeverWorks'
    BY <2>1, <2>4, <2>5 DEF NobodyIsAhead, ClientNeverWorks
  <2>8. MessagesEarned'
    BY <2>4, <2>5 DEF ReceiveMove, MessagesEarned, Earned, Billed
  <2>9. PricesHeld' /\ PricesAgree'
    BY <2>1, <2>4, <2>5
       DEF ReceiveMove, PricesHeld, PricesAgree, WasQuoted, Billed, Hired, Late
  <2> QED BY <2>4, <2>6, <2>7, <2>8, <2>9 DEF ReceiveMove
<1> QED BY <1>2, <1>3 DEF ReceiveMove

-----------------------------------------------------------------------------
(* The worker.                                                             *)
LEMMA SendQuoteKeepsInv ==
  ASSUME CommerceInv, NEW a \in Amounts, SendQuote(a) PROVE CommerceInv'
<1> USE DEF CommerceInv
<1>1. "quote" \in Verbs /\ WarnsOf(guard["worker"], "quote") = {}
  BY DEF Verbs, WarnsOf
<1>2. /\ state' \in [Roles -> States] /\ guard' \in [Roles -> States]
      /\ warned' \in [Roles -> SUBSET Warnings]
      /\ state'["worker"] = Applied(state["worker"], "quote")
      /\ state'["client"] = state["client"]
      /\ CopiesInStep' /\ NoFalseAlarm'
  BY <1>1, TypesHold, ObserveEffect DEF SendQuote, Send
<1>3. state["worker"] \in {"Open", "Countered"} /\ state'["worker"] = "Quoted"
  BY <1>2, OnQuote, TypesHold DEF SendQuote, Send
<1>4. CommerceTypeOK'
  <2>1. bids' \in 0..QuoteBound
    BY CommerceAssumption DEF SendQuote, CommerceTypeOK
  <2>2. sent' \in SUBSET Messages
    BY TypesHold DEF SendQuote, Send, Messages, Verbs
  <2>3. quoted' \in [Roles -> Amounts \union {NoAmount}]
    BY TypesHold DEF SendQuote
  <2> QED BY <1>2, <2>1, <2>2, <2>3 DEF SendQuote, Send, CommerceTypeOK
<1>5. NobodyIsAhead' /\ ClientNeverWorks'
  BY <1>2, <1>3 DEF NobodyIsAhead, ClientNeverWorks
<1>6. MessagesEarned'
  BY <1>2, <1>3 DEF SendQuote, Send, MessagesEarned, Earned, Billed
<1>7. quoted'["worker"] = a /\ quoted'["client"] = quoted["client"]
  BY TypesHold DEF SendQuote
<1>8. PricesHeld' /\ PricesAgree'
  BY <1>2, <1>3, <1>7
     DEF SendQuote, Send, PricesHeld, PricesAgree, WasQuoted, Billed, Hired, Late
<1> QED BY <1>2, <1>4, <1>5, <1>6, <1>8 DEF SendQuote, Send

(* The state machine always refuses it.                                    *)
LEMMA AcceptCounterKeepsInv ==
  ASSUME CommerceInv, AcceptCounter PROVE CommerceInv'
<1>1. ~Legal("Countered", "accept-quote")
  BY OnAccept DEF States
<1> QED
  BY <1>1
     DEF AcceptCounter, CommerceInv, CommerceTypeOK, CopiesInStep, NoFalseAlarm,
         NobodyIsAhead, ClientNeverWorks, MessagesEarned, Earned, PricesHeld,
         WasQuoted, PricesAgree

(* Only the NegotiationState hears of the work.                            *)
LEMMA WorkKeepsInv ==
  ASSUME CommerceInv, BeginWork \/ CompleteWork PROVE CommerceInv'
<1> USE DEF CommerceInv
<1>1. /\ state' \in [Roles -> States]
      /\ state["worker"] \in {"Accepted", "Working"}
      /\ state'["worker"] \in {"Working", "Completed"}
      /\ state'["client"] = state["client"]
  BY TypesHold DEF BeginWork, CompleteWork, States
<1>2. UNCHANGED <<guard, quoted, agreed, verified, sent, bids, warned, settled, refused>>
  BY DEF BeginWork, CompleteWork
<1>3. CommerceTypeOK'
  BY <1>1, <1>2 DEF CommerceTypeOK
<1>4. CopiesInStep'
  <2>1. guard["worker"] = "Accepted"
    BY <1>1, TypesHold DEF CopiesInStep
  <2> QED BY <1>1, <1>2, <2>1 DEF CopiesInStep, Roles
<1>5. NobodyIsAhead' /\ ClientNeverWorks' /\ NoFalseAlarm'
  BY <1>1, <1>2 DEF NobodyIsAhead, ClientNeverWorks, NoFalseAlarm
<1>6. MessagesEarned'
  BY <1>1, <1>2 DEF MessagesEarned, Earned, Billed
<1>7. PricesHeld' /\ PricesAgree'
  BY <1>1, <1>2 DEF PricesHeld, PricesAgree, WasQuoted, Billed, Hired, Late
<1> QED BY <1>2, <1>3, <1>4, <1>5, <1>6, <1>7

\* The worker invoices the price that both agreed to.
LEMMA SendInvoiceKeepsInv ==
  ASSUME CommerceInv, SendInvoice PROVE CommerceInv'
<1> USE DEF CommerceInv
<1>1. state["worker"] \in {"Accepted", "Working", "Completed"}
  BY OnInvoice, TypesHold DEF SendInvoice, Send
<1>2. guard["worker"] = "Accepted"
  BY <1>1, TypesHold DEF CopiesInStep
<1>3. "invoice" \in Verbs /\ WarnsOf(guard["worker"], "invoice") = {}
  BY <1>2 DEF Verbs, WarnsOf
<1>4. /\ state' \in [Roles -> States] /\ guard' \in [Roles -> States]
      /\ warned' \in [Roles -> SUBSET Warnings]
      /\ state'["worker"] = Applied(state["worker"], "invoice")
      /\ state'["client"] = state["client"]
      /\ CopiesInStep' /\ NoFalseAlarm'
  BY <1>3, TypesHold, ObserveEffect DEF SendInvoice, Send
<1>5. state'["worker"] = "Invoiced"
  BY <1>1, <1>4, OnInvoice, TypesHold
<1>6. CommerceTypeOK'
  <2>1. sent' \in SUBSET Messages
    BY TypesHold DEF SendInvoice, Send, Messages, Verbs
  <2> QED BY <1>4, <2>1 DEF SendInvoice, Send, CommerceTypeOK
<1>7. NobodyIsAhead' /\ ClientNeverWorks'
  BY <1>1, <1>4, <1>5 DEF NobodyIsAhead, ClientNeverWorks
<1>8. MessagesEarned'
  BY <1>4, <1>5 DEF SendInvoice, Send, MessagesEarned, Earned, Billed
<1>9. PricesHeld' /\ PricesAgree'
  BY <1>1, <1>4, <1>5
     DEF SendInvoice, Send, PricesHeld, PricesAgree, WasQuoted, Billed, Hired, Late
<1> QED BY <1>4, <1>6, <1>7, <1>8, <1>9 DEF SendInvoice, Send

(* An acceptance that arrives was sent, and carries the client's price.    *)
LEMMA ReceiveAcceptKeepsInv ==
  ASSUME CommerceInv, NEW m \in sent, ReceiveAccept(m) PROVE CommerceInv'
<1> USE DEF CommerceInv
<1>1. m.verb = "accept-quote" /\ state["client"] \in Late /\ m.amount \in Amounts
  BY DEF ReceiveAccept, MessagesEarned, Earned, PricesHeld
<1>2. "accept-quote" \in Verbs /\ WarnsOf(guard["worker"], "accept-quote") = {}
  BY DEF Verbs, WarnsOf
<1>3. /\ state' \in [Roles -> States] /\ guard' \in [Roles -> States]
      /\ warned' \in [Roles -> SUBSET Warnings]
      /\ state'["worker"] = Applied(state["worker"], "accept-quote")
      /\ state'["client"] = state["client"]
      /\ CopiesInStep' /\ NoFalseAlarm'
  BY <1>1, <1>2, TypesHold, ObserveEffect DEF ReceiveAccept
<1>4. CASE state["worker"] = "Quoted"
  <2>1. state'["worker"] = "Accepted"
    BY <1>3, <1>4, OnAccept, TypesHold
  <2>2. /\ agreed' \in [Roles -> Amounts \union {NoAmount}]
        /\ agreed'["worker"] \in Amounts /\ agreed'["client"] = agreed["client"]
    BY <1>1, <1>4, OnAccept, TypesHold DEF ReceiveAccept, PricesHeld
  <2>3. CommerceTypeOK'
    BY <1>3, <2>2 DEF ReceiveAccept, CommerceTypeOK
  <2>4. NobodyIsAhead' /\ ClientNeverWorks'
    BY <1>1, <1>3, <1>4, <2>1 DEF NobodyIsAhead, ClientNeverWorks, Late
  <2>5. MessagesEarned'
    BY <1>3, <1>4, <2>1, <2>2 DEF ReceiveAccept, MessagesEarned, Earned, Billed
  <2>6. PricesHeld' /\ PricesAgree'
    BY <1>3, <1>4, <2>1, <2>2
       DEF ReceiveAccept, PricesHeld, PricesAgree, NobodyIsAhead, WasQuoted,
           Billed, Hired, Late
  <2> QED BY <1>3, <2>3, <2>4, <2>5, <2>6 DEF ReceiveAccept
<1>5. CASE state["worker"] # "Quoted"
  <2>1. state'["worker"] = state["worker"] /\ UNCHANGED agreed
    BY <1>1, <1>3, <1>5, OnAccept, TypesHold DEF ReceiveAccept
  <2>2. CommerceTypeOK'
    BY <1>3, <2>1 DEF ReceiveAccept, CommerceTypeOK
  <2>3. NobodyIsAhead' /\ ClientNeverWorks' /\ MessagesEarned' /\ PricesHeld' /\ PricesAgree'
    BY <1>3, <2>1
       DEF ReceiveAccept, NobodyIsAhead, ClientNeverWorks, MessagesEarned, Earned,
           PricesHeld, PricesAgree, WasQuoted
  <2> QED BY <1>3, <2>2, <2>3 DEF ReceiveAccept
<1> QED BY <1>4, <1>5

(* A zap receipt that arrives was paid for the price the worker holds.     *)
LEMMA ReceiveZapKeepsInv ==
  ASSUME CommerceInv, NEW m \in sent, ReceiveZap(m) PROVE CommerceInv'
<1> USE DEF CommerceInv
<1>1. m.amount = agreed["worker"] /\ state["worker"] \in Billed
  BY DEF ReceiveZap, MessagesEarned, Earned, PricesAgree, NobodyIsAhead, Billed
<1>2. guard["worker"] \in Billed
  BY <1>1, TypesHold DEF CopiesInStep, Billed
<1>3. NoFalseAlarm' /\ warned' \in [Roles -> SUBSET Warnings]
  <2>1. ZapWarnings(guard["worker"]) = {}
    BY <1>2 DEF ZapWarnings, Billed
  <2> QED BY <2>1 DEF ReceiveZap, NoFalseAlarm, CommerceTypeOK
<1>4. settled' \subseteq {"exact"} /\ settled' \subseteq Results
  BY <1>1 DEF ReceiveZap, Reconcile, Results
<1>5. CommerceTypeOK'
  BY <1>3, <1>4 DEF ReceiveZap, CommerceTypeOK
<1> QED
  BY <1>3, <1>4, <1>5
     DEF ReceiveZap, CopiesInStep, NobodyIsAhead, ClientNeverWorks, MessagesEarned,
         Earned, PricesHeld, WasQuoted, PricesAgree

-----------------------------------------------------------------------------
(* The client.                                                             *)
LEMMA ReceiveQuoteKeepsInv ==
  ASSUME CommerceInv, NEW m \in sent, ReceiveQuote(m) PROVE CommerceInv'
<1> USE DEF CommerceInv
<1>1. /\ m.verb = "quote" /\ m.by = "worker" /\ m.amount \in Amounts
      /\ WasQuoted(m.amount)
  <2>1. m.verb = "quote" /\ m.by = "worker" /\ m.amount \in Amounts /\ m \in Messages
    BY TypesHold DEF ReceiveQuote, MessagesEarned, Earned
  <2>2. m = [by |-> m.by, verb |-> m.verb, amount |-> m.amount]
    BY <2>1 DEF Messages
  <2> QED BY <2>1, <2>2 DEF WasQuoted
<1>2. "quote" \in Verbs /\ WarnsOf(guard["client"], "quote") = {}
  BY DEF Verbs, WarnsOf
<1>3. /\ state' \in [Roles -> States] /\ guard' \in [Roles -> States]
      /\ warned' \in [Roles -> SUBSET Warnings]
      /\ state'["client"] = Applied(state["client"], "quote")
      /\ state'["worker"] = state["worker"]
      /\ CopiesInStep' /\ NoFalseAlarm'
  BY <1>1, <1>2, TypesHold, ObserveEffect DEF ReceiveQuote
<1>4. CASE state["client"] \in {"Open", "Countered"}
  <2>1. state'["client"] = "Quoted"
    BY <1>3, <1>4, OnQuote, TypesHold
  <2>2. /\ quoted' \in [Roles -> Amounts \union {NoAmount}]
        /\ quoted'["client"] = m.amount /\ quoted'["worker"] = quoted["worker"]
    BY <1>1, <1>4, OnQuote, TypesHold DEF ReceiveQuote
  <2>3. CommerceTypeOK'
    BY <1>3, <2>2 DEF ReceiveQuote, CommerceTypeOK
  <2>4. NobodyIsAhead' /\ ClientNeverWorks' /\ MessagesEarned'
    BY <1>3, <1>4, <2>1
       DEF ReceiveQuote, NobodyIsAhead, ClientNeverWorks, MessagesEarned, Earned, Late
  <2>5. PricesHeld' /\ PricesAgree'
    BY <1>1, <1>3, <1>4, <2>1, <2>2
       DEF ReceiveQuote, PricesHeld, PricesAgree, WasQuoted, Late
  <2> QED BY <1>3, <2>3, <2>4, <2>5 DEF ReceiveQuote
<1>5. CASE state["client"] \notin {"Open", "Countered"}
  <2>1. state'["client"] = state["client"] /\ UNCHANGED quoted
    BY <1>1, <1>3, <1>5, OnQuote, TypesHold DEF ReceiveQuote
  <2>2. CommerceTypeOK'
    BY <1>3, <2>1 DEF ReceiveQuote, CommerceTypeOK
  <2>3. NobodyIsAhead' /\ ClientNeverWorks' /\ MessagesEarned' /\ PricesHeld' /\ PricesAgree'
    BY <1>3, <2>1
       DEF ReceiveQuote, NobodyIsAhead, ClientNeverWorks, MessagesEarned, Earned,
           PricesHeld, PricesAgree, WasQuoted
  <2> QED BY <1>3, <2>2, <2>3 DEF ReceiveQuote
<1> QED BY <1>4, <1>5

\* The client accepts the last quote it heard.
LEMMA SendAcceptKeepsInv ==
  ASSUME CommerceInv, SendAccept PROVE CommerceInv'
<1> USE DEF CommerceInv
<1>1. state["client"] = "Quoted" /\ quoted["client"] \in Amounts /\ WasQuoted(quoted["client"])
  BY OnAccept, TypesHold, CommerceAssumption DEF SendAccept, Send, PricesHeld
<1>2. "accept-quote" \in Verbs /\ WarnsOf(guard["client"], "accept-quote") = {}
  BY DEF Verbs, WarnsOf
<1>3. /\ state' \in [Roles -> States] /\ guard' \in [Roles -> States]
      /\ warned' \in [Roles -> SUBSET Warnings]
      /\ state'["client"] = Applied(state["client"], "accept-quote")
      /\ state'["worker"] = state["worker"]
      /\ CopiesInStep' /\ NoFalseAlarm'
  BY <1>2, TypesHold, ObserveEffect DEF SendAccept, Send
<1>4. state'["client"] = "Accepted"
  BY <1>1, <1>3, OnAccept, TypesHold
<1>5. /\ agreed' \in [Roles -> Amounts \union {NoAmount}]
      /\ agreed'["client"] = quoted["client"] /\ agreed'["worker"] = agreed["worker"]
  BY <1>1, TypesHold DEF SendAccept
<1>6. CommerceTypeOK'
  <2>1. sent' \in SUBSET Messages
    BY TypesHold DEF SendAccept, Send, Messages, Verbs
  <2> QED BY <1>3, <1>5, <2>1 DEF SendAccept, Send, CommerceTypeOK
<1>7. NobodyIsAhead' /\ ClientNeverWorks'
  BY <1>1, <1>3, <1>4 DEF NobodyIsAhead, ClientNeverWorks
<1>8. MessagesEarned'
  BY <1>1, <1>3, <1>4, <1>5 DEF SendAccept, Send, MessagesEarned, Earned, Late
<1>9. PricesHeld' /\ PricesAgree'
  BY <1>1, <1>3, <1>4, <1>5
     DEF SendAccept, Send, PricesHeld, PricesAgree, NobodyIsAhead, WasQuoted,
         Billed, Late
<1> QED BY <1>3, <1>6, <1>7, <1>8, <1>9 DEF SendAccept, Send

(* An invoice that arrives was sent, so the worker was hired at the price  *)
(* it carries; verified says that the client holds the same.               *)
LEMMA ReceiveInvoiceKeepsInv ==
  ASSUME CommerceInv, NEW m \in sent, ReceiveInvoice(m) PROVE CommerceInv'
<1> USE DEF CommerceInv
<1>1. /\ m.verb = "invoice" /\ m.amount = agreed["worker"] /\ m.amount \in Amounts
      /\ state["worker"] \in Billed /\ state["client"] \in Late
      /\ agreed["client"] \in Amounts
  BY DEF ReceiveInvoice, MessagesEarned, Earned, NobodyIsAhead, PricesHeld,
         Billed, Hired, Late
<1>2. guard["client"] \in Late
  BY <1>1, TypesHold DEF CopiesInStep, Late
<1>3. "invoice" \in Verbs /\ WarnsOf(guard["client"], "invoice") = {}
  BY <1>2 DEF Verbs, WarnsOf, Late
<1>4. /\ state' \in [Roles -> States] /\ guard' \in [Roles -> States]
      /\ warned' \in [Roles -> SUBSET Warnings]
      /\ state'["client"] = Applied(state["client"], "invoice")
      /\ state'["worker"] = state["worker"]
      /\ CopiesInStep' /\ NoFalseAlarm'
  BY <1>1, <1>3, TypesHold, ObserveEffect DEF ReceiveInvoice
<1>5. state'["client"] = IF state["client"] = "Accepted" THEN "Invoiced" ELSE state["client"]
  BY <1>1, <1>4, OnInvoice, TypesHold DEF Late
<1>6. verified' \in BOOLEAN /\ (verified' => agreed["worker"] = agreed["client"])
  BY <1>1, CommerceAssumption DEF ReceiveInvoice, AmountOK
<1>7. CommerceTypeOK'
  BY <1>4, <1>6 DEF ReceiveInvoice, CommerceTypeOK
<1>8. NobodyIsAhead' /\ ClientNeverWorks'
  BY <1>1, <1>4, <1>5 DEF NobodyIsAhead, ClientNeverWorks, Billed, Late
<1>9. MessagesEarned'
  BY <1>1, <1>4, <1>5 DEF ReceiveInvoice, MessagesEarned, Earned, Late
<1>10. PricesHeld' /\ PricesAgree'
  BY <1>1, <1>4, <1>5, <1>6
     DEF ReceiveInvoice, PricesHeld, PricesAgree, WasQuoted, Late
<1> QED BY <1>4, <1>7, <1>8, <1>9, <1>10 DEF ReceiveInvoice

\* The client pays what it verified.
LEMMA SendPaidKeepsInv ==
  ASSUME CommerceInv, SendPaid PROVE CommerceInv'
<1> USE DEF CommerceInv
<1>1. /\ state["client"] = "Invoiced" /\ state["worker"] \in Billed
      /\ agreed["worker"] = agreed["client"]
  BY OnPaid, TypesHold DEF SendPaid, PricesAgree
<1>2. "paid" \in Verbs /\ WarnsOf(guard["client"], "paid") = {}
  <2>1. guard["client"] = "Invoiced"
    BY <1>1, TypesHold DEF CopiesInStep
  <2> QED BY <2>1 DEF Verbs, WarnsOf
<1>3. /\ state' \in [Roles -> States] /\ guard' \in [Roles -> States]
      /\ warned' \in [Roles -> SUBSET Warnings]
      /\ state'["client"] = Applied(state["client"], "paid")
      /\ state'["worker"] = state["worker"]
      /\ CopiesInStep' /\ NoFalseAlarm'
  BY <1>2, TypesHold, ObserveEffect DEF SendPaid
<1>4. state'["client"] = "Paid"
  BY <1>1, <1>3, OnPaid, TypesHold
<1>5. CommerceTypeOK'
  <2>1. sent' \in SUBSET Messages
    BY TypesHold DEF SendPaid, Messages, Verbs
  <2> QED BY <1>3, <2>1 DEF SendPaid, CommerceTypeOK
<1>6. NobodyIsAhead' /\ ClientNeverWorks'
  BY <1>1, <1>3, <1>4 DEF NobodyIsAhead, ClientNeverWorks, Billed
<1>7. MessagesEarned'
  BY <1>1, <1>3, <1>4 DEF SendPaid, MessagesEarned, Earned, Late
<1>8. PricesHeld' /\ PricesAgree'
  BY <1>1, <1>3, <1>4 DEF SendPaid, PricesHeld, PricesAgree, WasQuoted, Late
<1> QED BY <1>3, <1>5, <1>6, <1>7, <1>8 DEF SendPaid

-----------------------------------------------------------------------------
\* Every step of the two sides and the network keeps the invariant.
LEMMA CommerceInvStep == CommerceInv /\ [Next]_vars => CommerceInv'
<1> SUFFICES ASSUME CommerceInv, [Next]_vars PROVE CommerceInv'
  OBVIOUS
<1>1. CASE WorkerStep
  BY <1>1, SendQuoteKeepsInv, AcceptCounterKeepsInv, WorkKeepsInv, SendInvoiceKeepsInv,
     ReceiveAcceptKeepsInv, ReceiveZapKeepsInv DEF WorkerStep
<1>2. CASE ClientStep
  BY <1>2, SendAcceptKeepsInv, SendPaidKeepsInv, ReceiveQuoteKeepsInv,
     ReceiveInvoiceKeepsInv DEF ClientStep
<1>3. CASE EitherStep
  BY <1>3, SendCounterKeepsInv, SendRejectKeepsInv, ReceiveMoveKeepsInv DEF EitherStep
<1>4. CASE UNCHANGED vars
  BY <1>4
     DEF vars, CommerceInv, CommerceTypeOK, CopiesInStep, NoFalseAlarm, NobodyIsAhead,
         ClientNeverWorks, MessagesEarned, Earned, PricesHeld, WasQuoted, PricesAgree
<1> QED BY <1>1, <1>2, <1>3, <1>4 DEF Next

\* The invariant of the negotiation.
LEMMA CommerceInvariant == Spec => []CommerceInv
  BY CommerceInvInit, CommerceInvStep, PTL DEF Spec

(* Type correctness of the negotiation.                                    *)
THEOREM CommerceTypeCorrect == Spec => []CommerceTypeOK
<1>1. CommerceInv => CommerceTypeOK BY DEF CommerceInv
<1> QED BY <1>1, CommerceInvariant, PTL

(* The PaymentOrderingGuard never drifts from the NegotiationState.        *)
THEOREM CommerceCopies == Spec => []CopiesInStep
<1>1. CommerceInv => CopiesInStep BY DEF CommerceInv
<1> QED BY <1>1, CommerceInvariant, PTL

(* The guard never warns about a peer that behaves.                        *)
THEOREM CommerceNoFalseAlarm == Spec => []NoFalseAlarm
<1>1. CommerceInv => NoFalseAlarm BY DEF CommerceInv
<1> QED BY <1>1, CommerceInvariant, PTL

(* No side is past a point that its peer decides and has not reached.      *)
THEOREM CommerceNobodyAhead == Spec => []NobodyIsAhead
<1>1. CommerceInv => NobodyIsAhead BY DEF CommerceInv
<1> QED BY <1>1, CommerceInvariant, PTL

(* What is paid is the price both sides agreed to and the worker quoted.   *)
THEOREM CommercePaymentMatches == Spec => []PaymentMatches
<1>1. CommerceInv => PaymentMatches
  <2> SUFFICES ASSUME CommerceInv PROVE PaymentMatches
    OBVIOUS
  <2>1. ASSUME NEW m \in sent, m.verb \in {"paid", "zap"}
        PROVE  /\ m.amount = agreed["worker"] /\ m.amount = agreed["client"]
               /\ WasQuoted(m.amount)
    <3>1. m.amount = agreed["client"] /\ state["client"] = "Paid"
      BY <2>1 DEF CommerceInv, MessagesEarned, Earned
    <3>2. agreed["client"] \in Amounts
      BY <3>1 DEF CommerceInv, PricesHeld, Late
    <3> QED BY <3>1, <3>2, CommerceAssumption DEF CommerceInv, PricesAgree, PricesHeld
  <2> QED BY <2>1 DEF CommerceInv, PaymentMatches, WasQuoted
<1> QED BY <1>1, CommerceInvariant, PTL

=============================================================================
