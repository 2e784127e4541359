------------------------------- MODULE Agent -------------------------------
(***************************************************************************)
(* One agent that uses the parts of the library together: it sends under   *)
(* the rate limiter, and every event that a relay delivers to it goes      *)
(* through the filter and the inbox to its threads and its directory, or   *)
(* to its dialects, its receipts or its sealed messages.                   *)
(*                                                                         *)
(* The network is the set of the events published: relays deliver them in  *)
(* any order, repeat them, or never deliver them.  The library leaves the  *)
(* order of the calls to the application, so each is a step of its own;    *)
(* an application uses some parts only.                                    *)
(***************************************************************************)
EXTENDS GiftWrap, SpamFilter, Threads, Exchange

CONSTANTS
  Me,            \* the agent's key
  Ephemeral,     \* the key of its gift wraps
  Worlds,        \* the situations it starts in: what is published, the parts
                 \* it uses, and the settings of its filter
  Outgoing,      \* what it may send: a builder and what it is given
  Verbs,         \* the performatives of its replies
  Thresholds,    \* what it may ask of a publisher
  BatchBound,    \* bound: events in one batch
  QueueBound,    \* bound: messages accepted and not yet handled
  SendBound,     \* bound: events it sends
  RumorLens,     \* the sizes of the rumors it wraps
  SealOverhead   \* bytes of a sealed event beside its content

ASSUME AgentAssumption ==
  /\ {Me, Ephemeral} \subseteq Keys
  /\ BatchBound \in Nat /\ QueueBound \in Nat /\ SendBound \in Nat
  /\ None \notin Keys
  /\ RumorLens \subseteq Nat /\ SealOverhead \in 0..512
  /\ Thresholds \subseteq [min_completed_payments : Nat, min_completion_rate_pct : Nat,
                           min_total_paid_msats : Nat, max_inactivity_secs : Nat]

Parts == {"threads", "directory", "dialects", "zaps", "gifts", "limiter", "filter", "send"}

\* Tags are a list of lists, and the threads they name are those of the model.
IsList(s) == Len(s) \in Nat /\ s = [i \in 1..Len(s) |-> s[i]]
NamesThreads(tags) ==
  /\ IsList(tags)
  /\ \A i \in DOMAIN tags :
       /\ IsList(tags[i])
       /\ Tag_parse(tags[i]).variant = "Thread" => Tag_parse(tags[i]).args[1] \in ThreadIds

\* An event as it is parsed: its author is a key and its time a number, and
\* the tags of a request that it describes are a list, as its own are.
Parsed(e) ==
  /\ e.pubkey \in Keys /\ e.created_at \in Nat /\ NamesThreads(e.tags)
  /\ zap_receipt(e).ok => IsList(zap_receipt(e).val.zap_request.tags)

\* What its author signed, and a gift that this agent can open.
Genuine(e) == e.sig = <<e.pubkey, compute_event_id(e)>>
ForMe(e) ==
  e.kind = KIND_GIFT_WRAP /\ e.content.form = "nip44" /\ e.content.key = {Me, e.pubkey}

\* Where an agent starts, with the u64 settings of its filter.  A signature is
\* made by the holder of its key, and so is a ciphertext: what bears one was
\* authored, the inside of a gift included.
ASSUME WorldAssumption ==
  \A w \in Worlds :
    /\ w.uses \subseteq Parts /\ w.pow \in Nat /\ w.zap \in Nat
    /\ \A e \in w.authored \union w.damaged :
         /\ Parsed(e)
         /\ Genuine(e) => e \in w.authored
         /\ ForMe(e) =>
              \E a \in w.authored :
                a.kind = e.kind /\ a.pubkey = e.pubkey /\ a.content = e.content
         /\ ForMe(e) /\ e.content.text.content.form = "nip44" =>
              LET rumor == e.content.text.content.text
              IN  Genuine(rumor) => rumor \in w.authored

\* What a builder makes of its arguments.
Built(api, w) ==
  CASE api = "message"  -> build(w)
    [] api = "commerce" -> build_commerce(w)
    [] api = "hello"    -> build_hello(w.agent_type, w.capabilities)
    [] api = "bye"      -> build_bye
    [] api = "task"     -> Ok(build_task(w.description, w.policy, w.amount))
    [] api = "withdraw" -> Ok(build_withdraw(w.task))
    [] api = "claim"    -> build_claim(w.to, w.task)
    [] api = "assign"   -> build_assign(w.to, w.task)
    [] api = "dialect"  -> Ok(from_dialect(w))
    [] api = "profile"  -> Ok(build_profile(w))
    [] api = "zap"      -> zap_request(w)

\* The agent calls these builders, about threads of the model.
Builders == {"message", "commerce", "hello", "bye", "task", "withdraw", "claim", "assign",
             "dialect", "profile", "zap"}

\* The types of their arguments: each has its fields, and a list where the code
\* takes one; an amount is a u64, or negative when it is not set.
Typed(api, w) ==
  CASE api \in {"message", "commerce"} ->
         /\ w = [performative |-> w.performative, recipient |-> w.recipient, body |-> w.body,
                 thread |-> w.thread, dialect |-> w.dialect, extra_tags |-> w.extra_tags]
         /\ IsList(w.extra_tags)
    [] api = "hello" -> IsList(w.capabilities)
    [] api = "dialect" ->
         w = [name |-> w.name, author |-> w.author, performatives |-> w.performatives,
              resources |-> w.resources, signature |-> w.signature]
    [] api = "profile" ->
         /\ w = [name |-> w.name, about |-> w.about, picture |-> w.picture, extra |-> w.extra]
         /\ IsList(w.extra)
    [] api = "zap" ->
         /\ w.amount_msats \in Int /\ w.amount_msats <= MaxU64
         /\ IsList(w.relays)
    [] OTHER -> TRUE

ASSUME OutgoingAssumption ==
  \A o \in Outgoing :
    /\ o.api \in Builders /\ Typed(o.api, o.what)
    /\ Built(o.api, o.what).ok => NamesThreads(Built(o.api, o.what).val.tags)

VARIABLES
  authored,    \* the events as their authors made them
  net,         \* the events published, some damaged
  uses,        \* the parts the application uses
  queue,       \* messages accepted and not yet handled, oldest first
  unwrapped,   \* history: what came out of gift wraps
  sent         \* history: what was sent, from what, by which builder

ownVars == <<authored, net, uses, queue, unwrapped, sent>>
vars == <<ownVars, threadVars, discoveryVars, dialectVars, reputationVars, spamVars>>

Init ==
  /\ ThreadInit /\ DiscoveryInit /\ DialectInit /\ ReputationInit
  /\ LimiterInit /\ FilterInit
  /\ \E w \in Worlds :
       /\ authored = w.authored /\ net = w.authored \union w.damaged
       /\ uses = w.uses
       /\ required_pow_bits = w.pow /\ threshold = w.zap
  /\ queue = <<>> /\ unwrapped = {} /\ sent = {}

Uses(part) == part \in uses

-----------------------------------------------------------------------------
(* Receiving.                                                              *)

Rumors == {u.rumor : u \in unwrapped}

Batches == UNION {[1..n -> net \union Rumors] : n \in 1..BatchBound}

\* A batch drained from the relay pool passes the filter and the inbox.
Drain(batch) ==
  LET admitted == Filtered(batch, LAMBDA e : Uses("filter") => check_inbound(e).ok)
      result == process_batch(admitted, InstalledNames)
  IN  /\ Len(queue) + Len(result.ok) <= QueueBound
      /\ queue' = queue \o result.ok
      /\ UNCHANGED <<authored, net, uses, unwrapped, sent>>
      /\ UNCHANGED <<threadVars, discoveryVars, dialectVars, reputationVars, spamVars>>

\* The application takes the next message: its thread, and the directory if
\* it is a greeting.
Handle ==
  /\ queue # <<>>
  /\ queue' = Tail(queue)
  /\ IF Uses("threads") THEN record_inbound(Head(queue)) ELSE UNCHANGED threadVars
  /\ IF Uses("directory") THEN process_event(Head(queue)) ELSE UNCHANGED discoveryVars
  /\ UNCHANGED <<authored, net, uses, unwrapped, sent>>
  /\ UNCHANGED <<dialectVars, reputationVars, spamVars>>

\* The directory also takes events straight from a subscription.
Announce(event) ==
  /\ Uses("directory")
  /\ process_event(event)
  /\ UNCHANGED <<ownVars, threadVars, dialectVars, reputationVars, spamVars>>

ReceiveDialect(event) ==
  /\ Uses("dialects")
  /\ install_dialect_event(event) \/ install_dialect_event_verified(event)
  /\ UNCHANGED <<ownVars, threadVars, discoveryVars, reputationVars, spamVars>>

\* A receipt counts for the subject's reputation, and its payer at the gate.
ReceiveReceipt(event, dialects) ==
  LET receipt == zap_receipt(event)
  IN  /\ Uses("zaps")
      /\ add_zap_receipt_with_dialects(event, dialects)
      /\ IF receipt.ok
         THEN record_zap(receipt.val.zap_request.pubkey, receipt.val.amount_msats)
         ELSE UNCHANGED filterVars
      /\ UNCHANGED <<ownVars, threadVars, discoveryVars, dialectVars, limiterVars>>

Unwrap(event) ==
  LET opened == unwrap_gift(event, Me)
  IN  /\ Uses("gifts")
      /\ unwrapped' = IF opened.ok THEN unwrapped \union {opened.val} ELSE unwrapped
      /\ UNCHANGED <<authored, net, uses, queue, sent>>
      /\ UNCHANGED <<threadVars, discoveryVars, dialectVars, reputationVars, spamVars>>

-----------------------------------------------------------------------------
(* Sending.                                                                *)

Publish(api, what, event) ==
  /\ Cardinality(sent) < SendBound
  /\ authored' = authored \union {event}
  /\ net' = net \union {event}
  /\ sent' = sent \union {[api |-> api, what |-> what, event |-> event]}
  /\ UNCHANGED <<uses, queue, unwrapped>>

Signed(event) == sign_event(event, Me, now).val

SendBuilt(api, what) ==
  LET built == Built(api, what)
  IN  /\ Uses("send")
      /\ built.ok
      /\ Publish(api, what, Signed(built.val))
      /\ UNCHANGED <<threadVars, discoveryVars, dialectVars, reputationVars, spamVars>>

\* A message for peers that ask for work: its author and its time are set
\* before it is mined, since signing sets them to the same values again.
SendMined(m) ==
  LET built == build(m)
  IN  /\ Uses("send") /\ required_pow_bits > 0
      /\ built.ok
      /\ \E mined \in mine_pow([built.val EXCEPT !.pubkey = Me, !.created_at = now],
                                required_pow_bits) :
           Publish("mined", m, Signed(mined))
      /\ UNCHANGED <<threadVars, discoveryVars, dialectVars, reputationVars, spamVars>>

\* A reply on a thread to one of its participants, which is recorded there
\* as it is sent.
Reply(t, verb, to) ==
  LET m == [continue_thread(t, verb) EXCEPT !.recipient = to]
      built == build(m)
  IN  /\ Uses("threads")
      /\ t \in Tracked
      /\ Occurs(to, threads[t].participants)
      /\ built.ok
      /\ Publish("message", m, Signed(built.val))
      /\ record_event(t, Signed(built.val))
      /\ UNCHANGED <<discoveryVars, dialectVars, reputationVars, spamVars>>

\* gift_wrap panics when a layer cannot be padded: nothing is sent then.
SendGift(m, to, len, time) ==
  LET built == build([m EXCEPT !.recipient = to])
      gift == gift_wrap(built.val, Me, to, now, Ephemeral, time)
  IN  /\ Uses("gifts")
      /\ Wrappable(len, SealOverhead)
      /\ built.ok /\ gift.ok
      /\ Publish("gift", [to |-> to, len |-> len], gift.val)
      /\ UNCHANGED <<threadVars, discoveryVars, dialectVars, reputationVars, spamVars>>

-----------------------------------------------------------------------------
(* The calls of the application that no event causes.                      *)

ThreadCalls ==
  /\ Uses("threads")
  /\ \E t \in ThreadIds : ThreadCall(t, Me)
  /\ UNCHANGED <<ownVars, discoveryVars, dialectVars, reputationVars, spamVars>>

DirectoryCalls ==
  /\ Uses("directory")
  /\ \E key \in Keys : DiscoveryCall(key)
  /\ UNCHANGED <<ownVars, threadVars, dialectVars, reputationVars, spamVars>>

FilterCalls ==
  /\ Uses("filter")
  /\ \E key \in Keys : FilterCall(key)
  /\ UNCHANGED <<ownVars, threadVars, discoveryVars, dialectVars, reputationVars, limiterVars>>

Assignments ==
  /\ Uses("zaps")
  /\ \E count \in 1..AssignedBound : record_assignments(count)
  /\ UNCHANGED <<ownVars, threadVars, discoveryVars, dialectVars, spamVars>>

LimiterCalls ==
  /\ Uses("limiter")
  /\ LimiterStep
  /\ UNCHANGED <<ownVars, threadVars, discoveryVars, dialectVars, reputationVars, filterVars>>

Receive ==
  \/ \E batch \in Batches : Drain(batch)
  \/ Handle
  \/ \E event \in net :
       \/ Announce(event)
       \/ ReceiveDialect(event)
       \/ \E dialects \in {<<>>, <<"commerce">>} : ReceiveReceipt(event, dialects)
       \/ Unwrap(event)

Messages == {o.what : o \in {p \in Outgoing : p.api = "message"}}

Send ==
  \/ \E o \in Outgoing : SendBuilt(o.api, o.what)
  \/ \E m \in Messages : SendMined(m)
  \/ \E t \in ThreadIds, verb \in Verbs, to \in Keys : Reply(t, verb, to)
  \/ \E m \in Messages, to \in Keys, len \in RumorLens, time \in TimesAround(now, 1) :
       SendGift(m, to, len, time)

Call == ThreadCalls \/ DirectoryCalls \/ FilterCalls \/ Assignments \/ LimiterCalls

Next == Receive \/ Send \/ Call

Spec == Init /\ [][Next]_vars

-----------------------------------------------------------------------------
(* Types.                                                                  *)

AgentTypeOK ==
  /\ uses \subseteq Parts
  /\ authored \subseteq net
  /\ Len(queue) <= QueueBound
  /\ DOMAIN threads \subseteq ThreadIds /\ DOMAIN agents \subseteq Keys
  /\ \A t \in Tracked : threads[t].state \in ThreadState
  /\ Dated
  /\ Len(installs) = Len(registry)
  /\ allowed \subseteq Keys /\ ledger \in [Keys -> 0..MaxLedger]
  /\ DOMAIN buckets \subseteq Relays
  /\ \A r \in DOMAIN buckets :
       buckets[r].tokens \in 0..(buckets[r].capacity * Unit)
  /\ now \in 0..TimeBound /\ panicked \in BOOLEAN
  /\ assigned_count \in 0..AssignedBound

-----------------------------------------------------------------------------
(* What arrives.                                                           *)

\* Whatever arrives, in whatever batches: a message is accepted only as its
\* author made it (never damaged, never the inside of a gift wrap), and every
\* dialect it names stays known for as long as it waits to be handled; what
\* is unwrapped was sealed for this agent by the sender it is given with,
\* whatever author the rumor itself names.
ReceivedIsAuthored ==
  /\ \A i \in DOMAIN queue :
       queue[i] \in authored /\ check_dialect(queue[i], InstalledNames)
  /\ \A u \in unwrapped :
       \E e \in authored :
         LET seal == e.content.text
         IN  /\ Gives(unwrap_gift(e, Me), u)
             /\ seal.sig = <<u.sender_pubkey, compute_event_id(seal)>>

\* A payment never costs anybody: whom the zap gate lets pass, it lets pass
\* until a record is cleared, also beyond what the ledger can hold; and a
\* receipt takes the trust of no publisher, for any thresholds, unless it is
\* the first with a date (it may be stale, where none was not) or the earnings are
\* beyond what a u64 can hold.
Earned(ids) == MapThenSumSet(Amount, ids)

PaymentsNeverHurt ==
  [][/\ \A key \in Keys :
          zap_check(key) => zap_check(key)' \/ clear(key) \/ clear_all
     /\ (summarize.last_activity > 0 /\ assigned_count' = assigned_count
           /\ Earned(DOMAIN receipts)' <= MaxU64) =>
          \A required \in Thresholds :
            verify_publisher(summarize, required, now)'
              \subseteq verify_publisher(summarize, required, now)
    ]_<<filterVars, reputationVars>>

-----------------------------------------------------------------------------
(* What is sent.                                                           *)

\* A published event comes out of a subscription as it went in.
Reaches(filters, e) ==
  Gives(Received(filters, e), [is |-> "EVENT", sub |-> "sub", event |-> e])

Carries(e) == {e.tags[i][2] : i \in Tagged(e, "Dialect")}

\* A peer with the dialects that the message names accepts it exactly when its
\* text reads with the performative that was written, and otherwise refuses
\* its content; it comes through the inbox of everyone it is for, and the
\* discovery filter.
MessageArrives(e) ==
  /\ LET outcome == process(e, Carries(e))
     IN  /\ outcome.ok <=> HeadKept(e.content)
         /\ ~outcome.ok => outcome.val \in {"Parse", "NoHeadSymbol", "Mismatch"}
  /\ Finds(discovery_filter, e)
  /\ \A i \in Tagged(e, "PubKey") :
       LET inbox == open_inbox(e.tags[i][2]) IN inbox.ok => Reaches(inbox.val, e)

\* Work is kept by signing, unless the miner escapes the content otherwise.
WorkIsKept(e) ==
  MessageArrives(e) /\ (~Escapes(e.content) => verify_pow(e, required_pow_bits).ok)

\* A greeting is accepted, and taken by every directory, with what it announced.
GreetingArrives(api, w, e) ==
  /\ MessageArrives(e) /\ process(e, Carries(e)).ok /\ Gives(DiscoveryOutcome(e), api)
  /\ api = "hello" =>
       /\ AgentEntry(e).agent_type = w.agent_type
       /\ AgentEntry(e).capabilities = w.capabilities

\* A commerce message reaches its recipient's subscription, and what reads
\* back can be taken out of its envelope, but the inbox refuses it: the tag
\* says tell and the content lang.
CommerceArrives(w, e) ==
  LET read == decode(e.content)
      outcome == process(e, Carries(e))
  IN  /\ Reaches(open_inbox(w.recipient).val, e)
      /\ ReadsBack(e.content) =>
           unwrap_commerce(read.val) = {encode(w.performative, w.body)}
      /\ HeadKept(e.content) => outcome = Err("Mismatch")
      /\ ~read.ok => outcome = Err("Parse")

\* A task and its withdrawal arrive as messages do, but no subscription of a
\* manager finds them: the bounty board asks for a hashtag they do not have.
TaskArrives(e) ==
  /\ MessageArrives(e)
  /\ \A key \in Keys : ~Reaches(AllSubscriptions(key, Keys), e)

\* A dialect is found by all that look for it.  One that reads back is
\* installed exactly when it satisfies R1 to R3; if it is signed, the verified
\* path refuses it, since its serialisation garbles the signature.  One that
\* does not parse is installed by neither path.
DialectArrives(d, e) ==
  /\ \A filter \in {dialect_filter, dialect_filter_by_name(d.name),
                     dialect_filter_by_author(e.pubkey)} : Finds(filter, e)
  /\ Reaches(open_dialect_listener.val, e) /\ Reaches(open_dialect_registry(Keys).val, e)
  /\ ReadsBack(e.content) =>
       /\ InstallOutcome(e).ok <=> InstallCheck(d)
       /\ VerifiedOutcome(e).ok <=> InstallCheck(d) /\ d.signature = Unsigned_
       /\ InstallCheck(d) => InstallOutcome(e).val.performatives = d.performatives
  /\ ~decode(e.content).ok => ~InstallOutcome(e).ok /\ ~VerifiedOutcome(e).ok

\* A profile comes back as it was, unless another field has the name of one
\* of the three.
ProfileArrives(p, e) ==
  /\ Reaches(open_agent_discovery({}).val, e)
  /\ Reaches(open_agent_discovery({e.pubkey}).val, e)
  /\ Gives(parse_profile_event(e), p)
       <=> \A i \in DOMAIN p.extra : ~IsField(p.extra[i][1])

\* The receipt (external) that a wallet makes of a request is found by the
\* one it pays, and read as paying that amount.
ReceiptOf(request) ==
  Unsigned(KIND_ZAP_RECEIPT,
           << <<"p", FindTag(request, "PubKey")>>, <<"description", request>> >>,
           [form |-> "blank"])

ZapArrives(z, e) ==
  LET receipt == ReceiptOf(e)
      read == zap_receipt(receipt)
  IN  /\ Finds(zap_receipt_filter(z.recipient), receipt)
      /\ Finds(zap_receipt_filter_since(z.recipient, receipt.created_at), receipt)
      /\ read.ok
      /\ read.val.amount_msats = z.amount_msats /\ read.val.recipient = z.recipient

\* A rumor of up to 32768 bytes, and no longer one, is wrapped: it opens for
\* its recipient under the name of its sender, and for nobody else.
LongestRumor == 32768

GiftArrives(w, e) ==
  /\ \A len \in RumorLens : Wrappable(len, SealOverhead) <=> len \in 1..LongestRumor
  /\ \A key \in Keys :
       LET opened == unwrap_gift(e, key)
       IN  IF key = w.to
           THEN opened.ok /\ opened.val.sender_pubkey = Me
           ELSE ~opened.ok

\* An event that was sent: each of the definitions above says it of one kind.
Acceptable(s) ==
  CASE s.api \in {"message", "claim", "assign"} -> MessageArrives(s.event)
    [] s.api = "mined"                 -> WorkIsKept(s.event)
    [] s.api \in {"hello", "bye"}      -> GreetingArrives(s.api, s.what, s.event)
    [] s.api = "commerce"              -> CommerceArrives(s.what, s.event)
    [] s.api \in {"task", "withdraw"}  -> TaskArrives(s.event)
    [] s.api = "dialect"               -> DialectArrives(s.what, s.event)
    [] s.api = "profile"               -> ProfileArrives(s.what, s.event)
    [] s.api = "zap"                   -> ZapArrives(s.what, s.event)
    [] s.api = "gift"                  -> GiftArrives(s.what, s.event)

\* What the library builds for an agent, the library finds at its peers, and
\* accepts as far as its text reads back: nothing else that it builds makes a
\* peer refuse it.
SentIsAcceptable == \A s \in sent : Acceptable(s)

=============================================================================
