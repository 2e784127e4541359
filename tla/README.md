# cbcl-nostr: a TLA+ model of the agent library

`cbcl-nostr` is a Rust library with which software agents talk over Nostr
relays: a pool of WebSocket connections, an open market for tasks, price
negotiation and payment by Lightning zaps, subscriptions, discovery and spam
protection. This directory holds TLA+ modules that model its stateful parts,
TLC configurations that check them on small instances, and proofs for every
instance. All source paths below are relative to `src/crates/cbcl-nostr/src/`.

Contents: [the system](#the-system) · [modules](#modules) ·
[runs](#runs-and-bounds) · [fairness](#fairness) · [proofs](#proofs) ·
[findings](#findings) · [other disagreements](#other-disagreements) ·
[what is not covered](#what-is-not-covered) · [plan](#plan)

## The system

| component | state it keeps | operations | talks to |
|---|---|---|---|
| relay task (`relay_pool/relay.rs`) | connection status, failure counter, outgoing queue (256), one-slot shutdown channel | connect, back off, reconnect, send, forward, shut down | a relay over a socket; the pool through channels |
| relay pool (`relay_pool/mod.rs`) | map URL to handle behind an async mutex; the receiver of the shared incoming channel | add, remove, publish, subscribe, unsubscribe, events, shutdown | the tasks, through their handles |
| subscription manager (`subscription_manager.rs`) | kind to subscription, id to kind, Syncing/Live | five opens, close, close_all, mark_live | the caller, who sends REQ/CLOSE through the pool and feeds it EOSE |
| task market (`open_task_market.rs`) | a registry of tasks: state, claims, assignee | process_event for task, claim, assign, withdraw; builders | other agents, through signed events |
| commerce (`commerce_dialect.rs`) | the state of one negotiation | apply, begin_work, complete_work; the dialect, its envelope, the message builder | the other party |
| payment safety (`payment_safety.rs`) | a second copy of that state; the agreed amount | check_transition, check_zap_receipt, validate_amount_tags, verify_publisher | the state machine it reuses; a reputation summary |
| zaps (`zap_integration.rs`) | none | request, parse a receipt, reconcile | a Lightning wallet (outside) |
| threads (`conversation_threads.rs`) | state, chain, participants and last activity of each thread | open, record_inbound, record_event, set_state, close, remove, continue | the inbox, the builder |
| discovery (`agent_discovery.rs`, `agent_profile.rs`) | last hello of each agent | hello, bye, process_event, evict_stale, remove; profiles | other agents |
| inbox (`inbox_handler.rs`) | dialect registry | process, process_batch | codecs, signatures, dialects, threads |
| spam protection (`spam_prevention.rs`) | token buckets, allowlist, zap ledger | check_and_consume, time_until_ready, policies; check_inbound, mine_pow; allow, record_zap, clear | the pool (outgoing), the inbox (incoming) |
| dialects (`dialect_negotiation.rs`, `dialect_safety.rs`) | installed dialects | build, parse, verify R1 to R4, install | the external `cbcl` crates |
| reputation (`reputation_query.rs`) | receipts and their dialects, assignments of one agent | add_zap_receipt, record_assignments, summarize, reset | zaps, payment safety |
| events (`event_types.rs`, `event_signing.rs`, `sexpr_codec.rs`, `performatives.rs`, `message_builder.rs`, `relay_pool/message.rs`) | none | tags, codec, build, sign, verify, the messages of NIP-01 | all of the above |
| gift wrap (`gift_wrap.rs`) | none | encrypt, pad, wrap, unwrap | signing, the inbox |

**Hard behaviours.** The pool is the only concurrent part, and its difficulty
is in what waits for what: a broadcast waits for room in one relay's queue
while it holds the mutex; a task waits for room in the incoming channel and
hears nothing meanwhile; a connection attempt, a write to the socket, the answer
to a ping and the close of a socket are awaited outside the `select!` and have no
timeout, so a relay that stops reading holds its task. Callers
may drop a future at any await. Messages in a queue live through any number of
reconnections. A relay removed and added again has two tasks for a while.
Everything above the pool is sequential code fed by a network that loses,
repeats and reorders events, and by other agents who send what they like:
there the question is always what a registry or a state machine still
guarantees when legal events arrive in a strange order. Subscriptions join
the two: the manager's view, the messages still queued and the memory of each
relay drift apart and must meet again. Nothing is persisted, so there is no
crash recovery beyond reconnection.

**What makes each part correct.**

- relay task: an at-most-once FIFO link per task; nothing is reordered,
  repeated or skipped; inbound texts are conserved; it is given up only for a
  visible reason; it ends when asked and then is silent.
- pool: handles never leak; results are exact; broadcasts of two callers reach
  all relays in one order; nothing but a relay that never answers keeps a call
  from returning.
- task market: every entry is justified by events of the right authors;
  observers agree; a closed task stays closed.
- commerce and payment: the copies of the state agree; the warnings are not
  false; no side runs ahead of what the other has decided; what is paid is
  what both had agreed.
- subscriptions: the maps are inverse; Live means that the EOSE of this very
  subscription came; no relay is left streaming for a forgotten one.
- threads: a thread is what was recorded on it, each message once, whatever the
  order of arrivals, replies and state changes.
- discovery: an entry is the last announcement processed, never a mixture.
- inbox and gift wrap: nothing is accepted that its author did not make.
- dialects: nothing unsafe, unsigned or redefining is installed by the paths
  that promise so.
- spam protection: the limiter keeps its rate over every span of time, and a
  wait that it tells is right to the precision it is told with; a payment opens the gate
  and none closes it.
- reputation: each receipt counts once; no payment takes trust away.
- all that is built: the event that one part of the library builds is found and
  accepted by the part of another agent that it is meant for.

## Modules

| module | models | abstracts |
|---|---|---|
| `LossyFifo` | the promise of a relay handle: an at-most-once FIFO link | connections, retries, channels |
| `RelayTask` | `relay_task`, `RelayHandle`, the channels | text, durations, ignored frames |
| `RelayPool` (EXTENDS `RelayTask`) | `RelayPool` with its mutex, callers, dropped futures, drop of the pool | URL parsing, read-only calls |
| `TaskMarket` | `TaskState`, `TaskRegistry`, the builders, observers and a network | description, amount, timestamps |
| `Commerce` | `NegotiationState`, `PaymentOrderingGuard`, `AmountTracker`, `reconcile`, two parties and a network | terms, references, lnurl |
| `Subscriptions` | `SubscriptionManager`, its caller, the relays and connections below | filters, event contents |
| `Events` | tags, codec, message builder, signing and verification | text of JSON, what an S-expression reads as, cryptography |
| `Wire` (EXTENDS `Events`) | client and relay messages, filters, what a relay returns for one | JSON text |
| `GiftWrap` (EXTENDS `Events`) | NIP-44 and NIP-59 in the order of their checks; padded lengths | cryptography |
| `Threads` (EXTENDS `Events`) | `ThreadManager`, `continue_thread` | randomness of ids |
| `Discovery` (EXTENDS `Wire`) | `AgentDiscovery`, profiles | JSON of a profile |
| `Dialects` (EXTENDS `Wire`) | dialect events, R1 to R4, both install paths, `InboxHandler` | the parser and registry of `cbcl` |
| `Reputation` (EXTENDS `Wire`) | zap requests and receipts, `ReputationAggregator`, `verify_publisher` | invoices |
| `SpamFilter` (EXTENDS `Events`) | `RateLimiter`, proof of work and its miner, allowlist, zap gate, `SpamFilter` | real time, SHA-256 |
| `Exchange` | the builders of commerce and task messages, the filters of the managed subscriptions | text of filters |
| `Agent` (EXTENDS all of these) | one agent: what it receives passes through the parts, what it builds is published | |
| `*_proofs` | theorems and proofs about the module of that name; `Agent_proofs` begins with facts about sums and filtered sequences | |
| `AgentNetwork_proofs` (EXTENDS `Agent_proofs`) | what the agent's parts owe to what is on the network | |
| `AgentSent_proofs` (EXTENDS `AgentNetwork_proofs`) | what the agent builds, up to its peers' reading of it | |
| `MC*` | instances for TLC | |

**RelayTask.** `pc[t]` names the await point at which a task rests; a step is
the code from one to the next. `outq` and `incoming` are the mpsc channels,
`handle` says whether the `RelayHandle` (and so the senders) exists,
`signalled` is the one-slot shutdown channel, `pending` the text that waits in
`incoming_tx.send`. `Fail` is `attempt += 1; continue 'outer` together with
the check of the retry limit at the top of the loop. Four places are waits for the
other end of the connection (`AwaitsPeer`): `connecting`, `sending` (from
`TakeOutgoing`, which moves the message from the channel to `writing`, to
`SendOk` or `SendErr`), `ponging` (`ReadPing` to `PongEnds`) and `closing` (from
the three `ws_sink.close()` to `Return`). In each the task hears nothing, not even
a shutdown, and none need ever end. `leaving` is the end of a task without a socket.
Backoff sleeps may end at any moment. `accepted`, `settled`,
`texts` and `consumed` are histories that no action reads, except that
`Enqueue` gives a task each message once and `ReadText` stops at `TextBound`.

**RelayPool.** tokio's mutex is a FIFO queue of waiters: `lockq`, whose head
holds it. A call is `Call` (join the queue), its steps while it is the head,
and `Release`. A broadcast holds the handle of one relay at a time (`at`) and
the URLs still to visit (`todo`), in any order, because the map's iteration
order is arbitrary. `Abandon` is a future dropped while it waits. `remove_relay`
and `shutdown` are two steps: the entry leaves the map and is signalled
(`Evict`), then its handle is dropped. Dropping the pool drops the map, one
handle at a time, and last the receiver if nobody took it.

**TaskMarket.** The network is the set of published events: one published
event can be received again for ever, in any order, or never. A registry entry
refers to no other, so one task is modelled, and its id (the hash of its event)
makes its task event unique and first.

**Commerce.** Worker and client each keep a `NegotiationState`, a guard and a
tracker, used as `tests/e2e_scenario.rs` uses them. Each applies to its copies
every message that it sends or receives; a message the state machine refuses
changes nothing there and is ignored by the guard. A side sends only what its
own state allows. Which amount a caller passes to `set_agreed_amount` is open
in the code: the worker takes the acceptance's amount tag or the last quote it
sent.

**Subscriptions.** The caller sends a REQ or CLOSE to every relay as it opens or
closes a kind. Between the manager and a relay lies the FIFO link that
`RelayTask` is proved to implement. A relay serves the REQs it has heard on the
present connection only. EOSEs wait in the pool's incoming channel.

**Events to Exchange.** These modules hold the parts that one agent uses in
sequential code. A call that returns a `Result` and changes nothing is an
operator (`process`, `unwrap_gift`, `zap_receipt`, `verify_publisher`), with the
checks in the order of the code, so that which error comes first is what the
code says. A call that changes state is an action of its own, of the whole call.
An event is a record; its id is the tuple of the fields that are hashed and a
signature is the pair of a key and an id, so that a hash or a signature is equal
exactly when what it covers is. Where a conversion matters it is modelled by
what it does: the miner serialises with escapes of its own
(`compute_event_id_raw`), the serialisation of a dialect garbles its signature,
a missing tag value is the empty string, zero bits are counted in a u8.
A wait of the limiter is rounded as the code does it: `time_until_available` to
the nearest tick (the nanosecond of `Duration::from_secs_f64`), the error of
`check` further to the nearest tenth of a second (`Tenth` ticks); ties may go
either way. Tokens are exact in the model and a float in the code.
The parser is external, and what a text reads as is a parameter: `Parses` says
which texts parse within the fuel of `decode`, `Reads` what as. A body may be too
long, a performative with a space in it is two atoms, one of digits is a number.

**Agent.** The network is the set of the events published, with damaged copies
among them: relays deliver in any order, repeat, or never deliver. `Drain` is
one batch through filter and inbox; an accepted message waits in `queue` until
the application handles it (`Handle`: thread and directory), and meanwhile
dialects are installed, threads closed and time passes. The library leaves the
order of its calls to the application, so each call is a step. What is sent is
built from `Outgoing`, signed, published, and can come back. A *world* is the
situation in which an agent starts: what is published, which parts it uses, how
its filter is set. The parts share no variables except through `Agent`'s steps, and
`StepOfParts` in `Agent_proofs` proves that each step is, for each part, one of its own
steps or none.

Some definitions are followed by operators marked `Mutant`: they change a
definition the way a plausible bug would, and no specification uses them. Each
property is known to fail under one of them, so none holds vacuously.

## Runs and bounds

Passing runs (states are distinct states):

| run | instance | states | checks |
|---|---|---|---|
| `task` | 1 task, 3 messages, outgoing channel of 2, incoming of 1, 1 retry, 2 texts | 68 k | `TaskTypeOK`, `OutboundConserved`, `NeverAbandoned`, `TerminatedIsFinal`, `ImplementsFifo` |
| `pool_order` | 2 relays, 2 callers, 2 events, channels of 1, no retries | 360 k | `PoolTypeOK`, `MutexOK`, `NoStaleTarget`, `SameOrderEverywhere`, `ResultsExact` |
| `pool_readd` | 1 relay added twice, 2 callers, 1 subscription, 2 texts per task, unlimited retries | 4.1 M | `InboundConserved`, `MapOwnsHandles`, `ListedKeepsTrying` |
| `pool_live` | 1 relay, 2 callers, 2 events, 1 retry, fairness | 70 k | `CallsReturn`, `RemovedStops`, `StopsWhenAsked`, `QueueMoves` |
| `market` | 3 agents, 2 observers, 5 events | 140 k | `MarketTypeOK`, `OutcomeJustified`, `ObserversAgree`, `ClosedUntilReset` |
| `commerce` | 2 prices, 5 quotes and counters | 7 k | `CommerceTypeOK`, `CopiesInStep`, `NoFalseAlarm`, `NobodyIsAhead`, `PaymentMatches` |
| `subs` | 2 kinds, 2 relays, 3 ids, 1 lost connection | 163 k (with symmetry) | `SubscriptionTypeOK`, `MapsInverse`, `LiveIsEarned`, `NoOrphan` |
| `agent` | 8 worlds, batches of 2, queue of 2, 5 ticks of the clock, sums up to 7 | 40 k | `AgentTypeOK`, `ThreadHistory`, `DirectoryIsLatest`, `LimiterKeepsRate`, `InstalledIsSafe`, `ReceivedIsAuthored`, `ReputationIsFair`, `SentIsAcceptable`, `PaymentsNeverHurt` |

Runs that expect a violation, one per [finding](#findings): `task_drop`,
`market_terminal`, `commerce_nip`, `subs_stream`.

Why the bounds are enough for the interesting cases:

- channels of one or two slots fill with two or three messages, so senders
  wait, and a task is caught with a full queue in every place it can be;
- two callers and two relays are what a race for the mutex, a half-done
  broadcast and two delivery orders need; a single relay with two generations
  is what remove-and-add needs;
- a retry limit of 1 is reached, and not reached, after a connection and without
  one, which is what tells `>` from `>=` in its check (`NeverAbandoned`);
- `MaxRetries` of 0 and 1 reach the limit both with and without a backoff;
  `NoLimit` is the code's default. `AttemptBound` merges the values of the
  counter above the limit, which nothing tells apart;
- one retry and two texts let a task reconnect in the middle of forwarding;
- three agents are a publisher, a claimant and a third party; two observers can
  differ; five events hold a task, two claims, and two decisions;
- five bids hold quote, counter, quote, counter, quote, so that a counter can be
  received again after the quote that answered it;
- three ids for two kinds let a kind be opened again while an EOSE for the old
  id is on its way; one lost connection can carry a lost message with it.

The eight worlds of `agent` are separate because their parts are: a product of
all would multiply states and show no more. Each has the events that disagree:

- `Talk`: a question, a cancellation that is older but may arrive later, a
  message on no thread, damaged copies of two; three messages on a thread let a
  reply fall between two arrivals and each arrival come again;
- `Gossip`: two greetings and a farewell of one agent whose order of arrival
  differs from their dates, a second agent, evictions at a cutoff between them;
- `Crowd`: a message with work and one without, a payment that passes the gate,
  an allowlist that is filled and emptied;
- `Dialects_`: a good dialect, the same signed, one for each of the rules R1 to
  R3 that it breaks, a wrong name, both heads, messages that need a dialect;
- `Wallet`: payments whose sum goes beyond `MaxU64` = 7, a receipt for somebody
  else, one that does not parse, a dialect tag that occurs twice;
- `Parcels`: wraps for this agent and another, a seal signed by somebody else, a
  rumor that names another author, a damaged ciphertext;
- a limiter with nothing else: policies with rate 0 and capacity 0 beside an
  ordinary one, half tokens (`Unit` = 2), three ticks to the last digit of a text and
  five ticks
  in all, so that a bucket fills, empties and is replaced, and a wait of one tick
  is told as none;
- a sender: one of each builder, with and without optional parts, with texts that
  read back and such that do not (too long, a performative of two words, one of digits;
  a dialect that does not end), with each outcome of mining (an id of four is all zeros)
  and with a line break that the miner escapes otherwise.

Symmetry is used where the constants are interchangeable and the properties are
invariants or step properties; `pool_live`, the run with liveness, uses none.
`CHECK_DEADLOCK FALSE` everywhere: all systems may stop (the bounds are used up,
the pool is dropped, the negotiation is over).

## Fairness

Only `pool_live` needs it (`Fairness` of `RelayPool`):

- *weak* fairness for what a running task does next by itself (start, end of the
  backoff, forwarding, returning), for callers that are polled, and for dropping the
  fields of a dropped pool: tokio schedules every task that is ready;
- *strong* fairness for taking a message and for the shutdown branches:
  `tokio::select!` polls its branches from a random position, so a branch that
  is ready again and again is taken;
- *no* fairness for what the other end of a connection decides: the ends of
  `connect_async` (`relay.rs:208`), `ws_sink.send` (231), the pong (270) and
  `ws_sink.close` (240, 255, 286). The code gives none of them a timeout. No
  fairness is assumed of what relays send or of connections succeeding either;
- the application takes the receiver and drains it independently of its calls.
  Without that assumption calls may hang, and an application that publishes from
  the loop that reads its events can wait for itself: the loop waits for room in
  a queue, its task waits for room in the incoming channel, and that waits for
  the loop.

So the liveness properties say what the code guarantees and name the case in which it
does not: a removed or dropped task ends, a queued message is settled, and a call
returns, *or* a task stays in one wait for its relay for ever (`[]AwaitsPeer`,
and `StuckAtRelay` for the calls). The second case is real. A relay that keeps the
TCP connection open and stops reading blocks the task in `ws_sink.send` once the
socket buffers are full: it hears neither `shutdown` nor the drop of its handle, its
queue of 256 fills, and the broadcast that waits for room holds the mutex, so
`publish`, `add_relay` and `remove_relay` of every other caller wait as well. What
the properties exclude is every other reason to hang: a full incoming channel, the
order of the branches, another caller, a backoff, a lost connection.

`CallsReturn` and `QueueMoves` also need a retry limit. With the default (`None`) and
a relay that never accepts a connection, a full queue is never emptied and
the call that waits for it never returns.

## Proofs

Each proof is for every value of the constants that the named assumption of the
module allows.

**`RelayTask_proofs`** (from `TaskAssumption`: capacities of at least one, and a
bound on the attempts above the retry limit).

- The inductive invariant is `TaskInv`, that is `TaskTypeOK` and `TaskShape`. The
  types alone are not inductive: that the inbound channel stays within its
  capacity and a terminated task stays where it is both rest on which program
  points go with a held text and with the status `Terminated`, and `TaskShape`
  says so. `TaskInvInit` and `TaskInvStep` (one step per action) establish it;
  `TaskTypeCorrect` is its first conjunct.
- `TaskConserves` (`OutboundConserved`: what was accepted is what was settled
  followed by what is being written and what is queued). `MessageStep` sorts every
  step of the task into five: a message is accepted, one is taken off the channel, a
  write ends, the task returns, or nothing happens to the messages;
  `AppendConserves`, `TakeConserves` and `SettleConserves` are facts about sequences
  for these.
- `TaskInboundConserved` (`InboundConserved`: what reached the application, what is
  in the channel and what a task holds are together the texts its relay sent, in order).
  The channel is shared, so the formula is about the texts of one task among those of
  all: `HasFirst` says that a sequence contains a task's texts, the first ones, in
  order and once each. Inductive with `HoldsLast`: a text that is held is the last
  one read. `TextStep` sorts the steps into reading, forwarding, giving up, consuming and
  silence; `AppendHasFirst`, `OtherHasFirst` and `ConsumeKeepsAll` are what these do.
- `TaskNeverAbandoned` and `TaskTerminatedIsFinal` go over the same actions: the
  places where the loop ends are the owner's stop, the lost receiver and the
  exhausted retries (`FailReason`), and no action is enabled after the end that
  moves a message.
- `TaskImplementsFifo` refines `LossyFifo` with the accepted messages as given,
  the settled ones as outcome, and a task that has returned as a closed link. A
  step maps to an accept, a settlement, a close or a stutter; the order of the settlements
  comes from `OutboundConserved`.

**`RelayPool_proofs`** (from `PoolAssumption`: the tasks are the spawns of the
URLs, the messages are those the calls send, and callers are finitely many).

- The inductive invariant is `PoolInv`: `TaskInv`, `PoolTypeOK`, `MutexOK`,
  `NoStaleTarget`, `MapOwnsHandles` and three parts that these need. `CallOK` says
  what a call in progress holds (a relay being removed has been signalled; a
  shutdown is alone). `SpawnsOK` bounds the spawns together with the additions
  still waiting, and says that no relay in the map has been signalled.
  `DroppedIdle` says that nobody is in a call once the pool is dropped.
- `CallMutex` and `ReleaseMutex` are the facts about the queue: a caller joins at
  the end, and one leaves from any place. `OthersWait` is what holding it gives:
  nobody else is using a handle. `ReleaseKeepsInv` and `AdvanceKeepsInv` are the
  common tails of the calls; the actions reduce to them.
- `PoolTypeCorrect`, `PoolMutex`, `PoolNoStaleTarget` and `PoolOwnsHandles` are
  conjuncts of it.
- Each step of the pool is a step of its tasks or none (the lemma `PoolRunsTasks`; what
  needs the invariant is that the task a step names is one). It says nothing of the
  code by itself, but carries the theorems about tasks over: `PoolConserves`,
  `PoolInboundConserved` and `PoolListedKeepsTrying` then follow from it, the last
  because a handle in the map exists and is not signalled.
- `PoolSameOrder` and `PoolResultsExact` need what a broadcast under way means for the
  relays (`BroadcastInv`): its message is the newest wherever it has arrived, and is
  nowhere at the relays still to visit; a message not yet issued is nowhere, and no two
  calls carry the same one. The mutex gives the first: nobody else can send between.
  `AdvanceMoves` says how a broadcast goes on, `SendKeepsOrder` that appending a message
  that is newest everywhere keeps the order; `OthersAcceptNothing` disposes of every other
  step. The results also need that an event is no REQ or CLOSE (`PoolAssumption`).

**`TaskMarket_proofs`** (from `MarketAssumption`: no agent is the absent one, and
the bounds are natural numbers).

- The inductive invariant is `MarketInv`: `MarketTypeOK`, `Shape` (the
  placeholders of observers that do not know the task, and that finitely many
  events exist), `OneTask`, `EntryHasTask` and `OutcomeJustified`. Without the
  last two a step could justify an entry by an event that another task made.
  `JustifiedMonotone` covers the publishing steps: more events justify no less.
  `GoodEntryKeepsInv` reduces each of the four handlers to the entry it writes.
- `MarketTypeCorrect` and `MarketJustified` are conjuncts of it.
- `MarketAgreement` follows from `MarketInv` in a single state: both entries were
  made from the one task event, both are closed, and what justifies either is the
  one decision of the publisher; a finite set of cardinality one has one element.
- `MarketClosedUntilReset` goes over the handlers again: of a closed entry, only
  the task event's handler has no early return.

**`Commerce_proofs`** (from `CommerceAssumption`: prices are natural numbers, the
absent price is none of them).

- The inductive invariant is `CommerceInv`. `CopiesInStep`, `NoFalseAlarm` and
  `NobodyIsAhead` need each other and four parts more. `MessagesEarned` says what
  a message in the network proves about its author (an acceptance: the client has
  accepted, at the price it carries), so that no repetition or delay matters.
  `PricesHeld` and `PricesAgree` say which price each side holds and from where
  the two are equal, namely from the invoice that passed `validate_amount_tags`.
  `ClientNeverWorks` rules out two of the states.
- The lemmas `OnQuote`, `OnAccept`, `OnOther`, `OnInvoice` and `OnPaid` are the
  transition table of `apply` as facts; `ObserveEffect` is what a verb does to
  both copies of a side; then there is one lemma per handler.
- `CommercePaymentMatches` follows from the parts about messages and prices.

**`Subscriptions_proofs`** (from `SubscriptionAssumption`: kinds are no ids, the
bounds are natural numbers).

- The inductive invariant is `SubsInv`. `MapsInverse` needs `FreshIds` (an id that
  was not generated is in neither map). `NoOrphan` is not inductive: a REQ still
  queued makes an orphan when it is sent, so `Accounted` also asks that every
  queued REQ is of an open subscription or has its CLOSE behind it in the queue.
- `AppendKeeps` and `TailKeeps` are the facts about queues that this rests on;
  `QueuedAccounts` reduces the three calls of the manager to what they append.

**`Agent_proofs`** (from the named assumptions of the parts, `ThreadAssumption`,
`DialectAssumption`, `ReputationAssumption`, `SpamAssumption` and `AgentAssumption`:
bounds are natural numbers, a token has at least one unit, and policies and
thresholds have natural numbers).

- The module begins with lemmas about sums over finite sets and filtered sequences,
  which need no assumptions. What a recursive function computes for every input
  cannot be proved by the library's induction theorems here, since they take a predicate
  as a parameter. These lemmas go by a smallest counterexample: among the
  subsets of a finite set, or the numbers, for which the statement fails there would be
  a least one (`WFMin`), and its predecessor contradicts it (`LeastNumber`,
  `SmallestSubset`).
- `TotalOneLess`: any element can be taken out of a sum, not only the one the fold
  takes first. `SumsExist` and `SumsAgree` come before: the recursion has a
  solution and only one.
- `PickedLists`, `PickedFrom` and `PickedIs`: what a loop that filters a
  sequence returns. The models use `Picked` and `Filtered` of `Events` for such
  loops because the prover knows nothing of the library's `SelectSeq`.
- `StepOfParts` decomposes a step: each part has variables of its own, and a
  step of the agent is for each of them a step of the part or a stutter. The
  invariants of the parts are then proved over the parts' own steps.
- `DirectoryCorrect` (`DirectoryIsLatest`): the registry is a function of the
  history of announcements; each of the calls is shown to move both alike.
- `DialectsCorrect` (`InstalledIsSafe`): `DialectInv` adds that every install in
  the history carries the checks of its path, which later installs do not undo.
- `LimiterCorrect` (`LimiterKeepsRate`): `LimiterInv` is types, `Paced` (what a
  bucket has let pass since any tick, together with what it still holds, is at
  most the capacity and the refill since) and `Kept` (after a wait that was told and
  its precision there is a token). `RoundedIsEnough` and `ToldIsEnough` bound what
  rounding to the nearest tick, and then to the nearest tenth, may take from a wait. The
  rate over a span follows from `Paced`; it is not inductive without the tokens still
  held.
- `ChainCorrect`: `ThreadInv` says of each thread that its chain, its participants
  and its last activity are those of what was recorded (`Chained`, `Met`,
  `Latest`); the lemmas about sequences without repetition carry it over an append.
- `SatsRoundTrip`: the conversion of satoshis is exact precisely for the amounts
  whose millisatoshis fit the width. `StricterTrustsLess`: a publisher who
  passes thresholds passes all that ask for less.

**`AgentNetwork_proofs`** (from the same assumptions, `WorldAssumption` and
`OutgoingAssumption`). What the agent can rely on depends on what is on the network, so these
theorems are about the whole of `Agent`.

- `WorldAssumption` says what any network this agent meets is like: events
  are parsed (their authors are keys, their dates numbers, their tags lists), and what
  bears a signature of a key, or is encrypted for this agent, was made by
  the holder of that key. The second half is what the symbolic cryptography means;
  a copy damaged on the way or an event made up by somebody else keeps to it. The
  threads that tags name are in `ThreadIds`, which bounds the model, not the code.
  `OutgoingAssumption` says the same of the threads named by what the application sends.
  TLC evaluates both on the worlds of the run.
- `NetInv` is the first half of the induction: the assumption on the network stays
  true of what is published. For each way to send (signed, mined, a reply on a
  thread, a gift) a lemma says that the event is `Proper`: its tags name threads
  of the model, and a gift has an inside without a signature, so that nothing new is
  authored by anybody else.
- `ReceivedCorrect` (`ReceivedIsAuthored`): `ArrivalInv` says of the queue that each message
  in it was authored as it is and has dialects that are known, and of the unwrapped
  messages that the seal was signed by their sender, and that a rumor which bears a
  genuine signature was authored. Without the last part a rumor fed back into
  the inbox would not be known to be authored. Known dialects stay known because the
  registry only grows (`NamesGrow`).
- `TypesCorrect` (`AgentTypeOK`): `TypeInv` has one conjunct per part. The dates of
  what is recorded are numbers because those of the network are, and so are those of
  the queue. `ThreadHistoryCorrect` (`ThreadHistory`) joins `ThreadInv` with that: the last
  activity is the largest date only where dates are numbers.
- `ReputationCorrect` (`ReputationIsFair`): `CountInv` says that a receipt
  counted was fed under its id with a u64 as its amount, that all that count and were fed have
  one, and that they are finitely many. The rest is about one state: the rate is a
  percentage (`ShareFits`), and a dialect has no more receipts than there are
  (`MentionsFit`, by an injection from mentions to receipts).
- `PaymentsCorrect` (`PaymentsNeverHurt`): the summary of the next state against that
  of this one. `SummaryFacts` holds of both; `ReceiptHelps` shows that count, total, rate
  and last activity only rise, so that no threshold blames the publisher for more; the two
  exceptions of the property are where this fails.

**`AgentSent_proofs`** (from the assumptions of `AgentNetwork_proofs`, of which it uses
`Typed`, that no key is `None`, and that the JSON of a seal beside its content takes
at most 512 bytes: its three hex fields take 256, and its names and numbers
under 100).

- `SentCorrect` (`SentIsAcceptable`): a step sends one event that is `Acceptable`, or
  nothing (`SentStep`), and no step changes what makes an event acceptable, of which
  only the bits of work are state (`AcceptableStays`). The invariant is inductive as
  it is; the work is in `BuiltIsAcceptable`, one lemma per builder, and in the same
  for mined events, replies and gifts.
- Whether a peer accepts a message depends on how its text reads, and nothing is assumed
  of the parser but `ReadingAssumption`: (hello) and (bye) are read with their head, on
  which greetings rest. A message is accepted exactly when `HeadKept`; `UnreadIsRefused`
  gives the errors of the others (`Parse`, `NoHeadSymbol`, `Mismatch`). Commerce messages,
  tasks and dialects arrive as they were written when their text `ReadsBack`.
- `OutgoingAssumption` asks no more of the arguments than their Rust types do:
  a builder may get any recipient, body, extra tags, capabilities, profile fields or
  amount. What a builder refuses is not sent.
- The filters: a relay returns an event for a request exactly when one of
  its filters matches (`MatchReaches`, `OthersMissIt`), and the five managed
  subscriptions ask by kind, author and tag. `NobodyAsks` is the case of the
  tasks, which none of the five matches.
- The tags: a builder joins several lists, some of which are empty or contain tags
  of the application's, and its reader takes the first or only tag with a key. `Joined`,
  `RunIsPicked`, `OneIsPicked` and `OnlyKept` follow the
  place of a tag through the joins, and `PickedIs` says what the reader's loop
  then returns.
- Mining: `NonceKeepsOpening` shows that the nonce tag leaves recipient and
  performative first of their kind, so that `MinedArrives` holds for any number
  of bits and for any escapes of the two serialisers.
- Profiles: `ProfileMembers` and `MemberPlaces` say where each
  member of the JSON object is, `FieldIsRead` and `OthersAreRead` that
  parsing returns it. The profile comes back exactly when no field of the application
  has a standard name: such a field is the one that is read.
- Gifts: `PaddedIsLeast` says that a plaintext is padded to the least power that
  holds it; from it `WrappableLens` derives that exactly the rumors of 1 to 32768
  bytes can be wrapped, and `SentGiftOpens` opens the result with the
  recipient's key.

Model-checked only: all liveness, since fairness and ENABLED are out of the prover's
reach. Every safety property of the passing runs is proved.

## Findings

1. **Dropping a handle stops its task** (`task_drop`). The comment at
   `relay_pool/relay.rs:87` says it does not. The handle owns the only senders,
   so both `recv()` return `None` and the task terminates. `RelayPool` relies on
   this when it is dropped without `shutdown`.
2. **Terminal task states are not terminal** (`market_terminal`). `process_task`
   (`open_task_market.rs:411`) inserts without looking: the task event delivered
   again reopens an assigned or withdrawn task and forgets its claims.
   `ClosedUntilReset` shows that nothing else can.
3. **A counter cannot be accepted** (`commerce_nip`). The NIP's negotiation flow
   ends quote, counter, accept-quote; the transition table
   (`commerce_dialect.rs:121`) has no such arm.
4. **Live is not streaming** (`subs_stream`). Nobody sends the REQ again after a
   reconnection, and the subscription still says `Live`.

## Other disagreements

Places where a comment, a doc or a neighbouring part says something else than
the code does, met while modelling. The models have what the code does; those
that a property of a passing run states are marked with its name.

- `sexpr_codec.rs:79-80` says that `decode(encode(x)) == Ok(x)` for all valid `SExpr`.
  `decode` has fuel for about 8 KiB (`:25`), so what is longer is refused, and
  `MessageBuilder::new` takes any string for the head symbol: `"go on"` is read as two atoms
  and `"42"` as a number. Such a message is built, signed and sent, and every peer
  refuses it (`SentIsAcceptable` says with which error).
- The NIP's events have other tags than the code's. A dialect is labelled `cbcl` and
  `cbcl:dialect` there (`specs/nip-xx-agent-communication.md:137-138`, queried so in
  271-273), and `cbcl.dialect` and its own name here (`dialect_negotiation.rs:26`, 113-117). An
  agent message is tagged `L` = cbcl, required (56), which `MessageBuilder` does not
  add, and the NIP finds greetings by `#performative` and `#L` (262-264). In the code
  `open_agent_discovery` (`subscription_manager.rs:206`) asks for profiles, and the
  greetings are found by `discovery_filter`, whose doc speaks of a `t` tag hello or bye
  (`agent_discovery.rs:90-92`) that no builder adds. `SentIsAcceptable` is about the
  library's own filters: a peer that asks as the NIP does finds none of these events.
- The doc of `NegotiationState::apply` (`commerce_dialect.rs:107`) lists `Accepted` +
  `quote` → `Working` ("work begins implicitly"). The table (121-145) has no such arm and
  refuses the quote; only `begin_work` leads to `Working`. It also has `Accepted` + `invoice`
  (132), which the doc lacks. The model has the table: in `CopiesInStep` a quote that
  arrives in `Accepted` changes neither copy, and in `NobodyIsAhead` it leads nobody ahead;
  with the documented arm a delayed quote would set one side working.
- `check` is documented to return the wait (`spam_prevention.rs:147-148`); it returns a
  text with one decimal (160), so that 0.44 s is told as 0.4s and 0.04 s as 0.0s, and a
  retry at that time is refused again. `time_until_ready` returns a `Duration` rounded to the
  nearest nanosecond (127), which may be one too short. `LimiterKeepsRate` gives each
  wait that precision, and shows that no more is ever missing.
- A commerce message is tagged `tell` and its content's head is `lang`
  (`commerce_dialect.rs:380`), so `InboxHandler` refuses it as a mismatch even with
  the dialect installed, although `inbox_handler.rs:8-10` asks for no more than that
  (`SentIsAcceptable`).
- Tasks and withdrawals carry no `t` tag, while the bounty board subscribes to
  `t` = bounty: no managed subscription finds them, although
  `open_task_market.rs:3-4` says that any agent can (`SentIsAcceptable`).
- `serialize_dialect` writes a signature as lossy UTF-8 (`dialect_negotiation.rs:317`):
  a dialect that its author signed never passes the verified path, although
  `dialect_safety.rs:166-169` says that a signature, if present, is verified against the
  author's key (`SentIsAcceptable`: it is refused, and only the unsigned one passes).
- `compute_event_id_raw` escapes only some control characters
  (`spam_prevention.rs:280`): work mined for other content is lost by signing
  (`SentIsAcceptable`). `verify_pow` does not look at the nonce tag that its doc
  (203) mentions, and counts 256 zero bits in a u8.
- `gift_wrap.rs:14-16` passes the rumor on to the inbox, which refuses what has no
  signature. `unwrap_gift` does not compare the rumor's author with the seal's
  signer: the sender is `sender_pubkey`, and nothing else (`ReceivedIsAuthored`).
  A rumor of more than 32768 bytes makes `gift_wrap` panic when its seal is padded
  (`SentIsAcceptable`).
- `event_chain` is "oldest first" (`conversation_threads.rs:101`) in the order of
  arrival, not of dates; a cancel or a bye changes a final state (`:285`).
- The zap gate's doc speaks of broadcast messages (`spam_prevention.rs:12`, `:380`); it
  gates all. A bucket with rate 0 panics when asked for its wait, and one of
  capacity 0 tells a wait after which there is no token (`LimiterKeepsRate` allows
  both and no more). `RateLimiter::reset`, meant for after a reconnection (`:177`),
  also forgets the relay's custom policy.
- A dialect tag that occurs twice counts twice (`reputation_query.rs:249`); sums of a
  u64 wrap in a release
  build and panic in a debug build; the first receipt with an old date makes a
  publisher stale who had no date before (`PaymentsNeverHurt` excludes both by name).
- A profile field with the name of a standard one overrides it
  (`SentIsAcceptable`).
- `conversation_key` panics for a key that is hex but not 32 bytes long
  (`event_signing.rs:181`).

## What is not covered

- Real time: backoff lengths and jitter; the limiter's clock has ticks.
- Text: URL parsing, the JSON of events and filters, the grammar of S-expressions (which
  texts parse, and as what, is a parameter), the JSON codec of atoms, invoices. Malformed
  input is a form that does not parse.
- Floating point: the tokens of a bucket are exact numbers in the model; the f64 of the
  code can be off by its last bits, which may cost a caller one more nanosecond.
- Cryptography: hashes, signatures and ciphertexts are symbolic, and so equal
  only when what they cover is; NIP-44 message keys and nonces are left out. A new
  thread id is fresh instead of random.
- `events()` panics when it is called in an asynchronous context
  (`relay_pool/mod.rs:253`, `blocking_lock`): not a state of the protocol. The
  model is of `events_async`.
- In `Commerce` both sides send only what their own state allows. A partner that
  invoices a rejected negotiation is not modelled; the guard is silent about it
  (`payment_safety.rs:402`) although the warnings' documentation mentions it.
- An agent has one aggregator and one manager of each kind; several agents
  interact in `TaskMarket`, `Commerce` and `Subscriptions`, not in `Agent`, whose
  peers are the definitions of `SentIsAcceptable`.
- `cbcl-core`, `cbcl-parser` and the relays are outside the repository and are
  modelled from their use.

## Plan

Done, in the order of importance:

1. `RelayTask` with `LossyFifo`, its refinement and its proofs.
2. `RelayPool`, composed with the tasks, whose theorems carry over to it.
3. `TaskMarket`: registries fed by an unreliable network, with proofs.
4. `Commerce`: two parties, their guards and the payment, with proofs.
5. `Subscriptions`: the manager, the link below it and the relays, with proofs.
6. `Threads`, `Discovery`, `Dialects`, `Reputation`, `SpamFilter`, `GiftWrap` over
   `Events` and `Wire`, composed by `Agent`, with proofs about all of them.
7. `ReceivedIsAuthored`, `ReputationIsFair`, `PaymentsNeverHurt` and `SentIsAcceptable`
   proved for any network that keeps to `WorldAssumption`.

Left: a misbehaving partner in `Commerce`.
