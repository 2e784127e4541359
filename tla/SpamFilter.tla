----------------------------- MODULE SpamFilter -----------------------------
(***************************************************************************)
(* The defences of spam_prevention.rs: the token buckets that limit what   *)
(* is sent to each relay, and the filter (allowlist, proof of work, zap    *)
(* gate) that an incoming event passes before the inbox.                   *)
(*                                                                         *)
(* Tokens are counted in units, Unit to a token; a policy refills rate     *)
(* units per tick of the clock, the nanosecond of a Duration, and Tenth    *)
(* ticks make the last digit of a wait that is told as text.  The hash of  *)
(* NIP-13 is Bits, any function from ids to numbers of leading zero bits;  *)
(* the miner has a serialisation of its own, which Escapes tells apart     *)
(* from the signer's.                                                      *)
(***************************************************************************)
EXTENDS Events, FiniteSets

CONSTANTS
  Relays,          \* relay URLs
  Unit,            \* units in one token
  Tenth,           \* ticks in a tenth of a second
  DefaultPolicy,   \* the policy of a relay without one of its own
  Policies,        \* the policies the application sets
  TimeBound,       \* bound: ticks of the clock
  Bits(_),         \* leading zero bits of an id
  Escapes(_),      \* contents with a control character
  NonceBound,      \* bound: attempts of the miner
  MaxLedger        \* the largest u64: the ledger saturates there

ASSUME SpamAssumption ==
  /\ Unit \in Nat \ {0} /\ Tenth \in Nat \ {0}
  /\ DefaultPolicy \in [capacity : Nat, rate : Nat]
  /\ Policies \subseteq [capacity : Nat, rate : Nat]
  /\ TimeBound \in Nat /\ NonceBound \in Nat /\ MaxLedger \in Nat

VARIABLES
  now,       \* the clock
  buckets,   \* the token bucket of each relay that has one
  passes,    \* history: for each relay and tick, what its bucket let pass
             \* in that tick or later
  promised,  \* history: the tick at which the wait told for each relay ends,
             \* and the precision it was told with
  panicked,  \* a wait was computed that no Duration can hold
  required_pow_bits,   \* 0 when disabled
  threshold,           \* msats the zap gate asks for, 0 when there is none
  allowed,   \* the allowlist, open when empty
  ledger     \* msats recorded for each key

limiterVars == <<now, buckets, passes, promised, panicked>>
filterVars == <<required_pow_bits, threshold, allowed, ledger>>
spamVars == <<limiterVars, filterVars>>

Smaller(a, b) == IF a <= b THEN a ELSE b

-----------------------------------------------------------------------------
(* The rate limiter.                                                       *)

NewBucket(policy) ==
  [tokens |-> policy.capacity * Unit, capacity |-> policy.capacity,
   rate |-> policy.rate, last_refill |-> now]

BucketOf(relay) ==
  IF relay \in DOMAIN buckets THEN buckets[relay] ELSE NewBucket(DefaultPolicy)

\* Mutants: the bucket fills beyond its capacity; the time already counted is
\* counted again.
RefillUnlimited(bucket) ==
  [bucket EXCEPT !.tokens = @ + (now - bucket.last_refill) * bucket.rate,
                 !.last_refill = now]

RefillAgain(bucket) ==
  [bucket EXCEPT !.tokens = Smaller(@ + (now - bucket.last_refill) * bucket.rate,
                                    bucket.capacity * Unit)]

refill(bucket) ==
  [bucket EXCEPT !.tokens = Smaller(@ + (now - bucket.last_refill) * bucket.rate,
                                    bucket.capacity * Unit),
                 !.last_refill = now]

SetBucket(relay, bucket) ==
  buckets' = [r \in DOMAIN buckets \union {relay} |->
                IF r = relay THEN bucket ELSE buckets[r]]

NoPasses == [tick \in 0..TimeBound |-> 0]
NoPromise == TimeBound + 1

\* The history of a relay whose bucket is new.
Forget(relay) ==
  /\ passes' = [passes EXCEPT ![relay] = NoPasses]
  /\ promised' = [promised EXCEPT ![relay] = NoPromise]

LimiterInit ==
  /\ now = 0
  /\ buckets = [relay \in {} |-> NewBucket(DefaultPolicy)]
  /\ passes = [relay \in Relays |-> NoPasses]
  /\ promised = [relay \in Relays |-> NoPromise]
  /\ panicked = FALSE

Tick ==
  /\ now < TimeBound
  /\ now' = now + 1
  /\ UNCHANGED <<buckets, passes, promised, panicked>>

set_relay_policy(relay, policy) ==
  /\ SetBucket(relay, NewBucket(policy))
  /\ Forget(relay)
  /\ UNCHANGED <<now, panicked>>

CheckOk(relay) ==
  LET bucket == refill(BucketOf(relay))
  IN  /\ bucket.tokens >= Unit
      /\ SetBucket(relay, [bucket EXCEPT !.tokens = @ - Unit])
      /\ passes' = [passes EXCEPT ![relay] =
                      [tick \in 0..TimeBound |-> IF tick <= now THEN @[tick] + 1 ELSE @[tick]]]
      /\ promised' = [promised EXCEPT ![relay] = NoPromise]
      /\ UNCHANGED <<now, panicked>>

\* An amount in multiples of a size, rounded to the nearest; ties either way.
Rounds(amount, count, size) ==
  2 * count * size <= 2 * amount + size /\ 2 * amount <= 2 * count * size + size

\* The ticks until the bucket holds a token.  Duration::from_secs_f64 rounds
\* them to the nearest nanosecond; at rate 0 the seconds are infinitely many,
\* no Duration holds them, and the code panics.
WaitPanics(bucket) == bucket.tokens < Unit /\ bucket.rate = 0
time_until_available(bucket) ==
  IF bucket.tokens >= Unit THEN {0}
  ELSE {wait \in 0..Unit : Rounds(Unit - bucket.tokens, wait, bucket.rate)}

\* The bucket is refilled, and a wait is told that is precise to some ticks.
Until(tick) == Smaller(tick, NoPromise)
TellWait(relay, wait, precision) ==
  /\ SetBucket(relay, refill(BucketOf(relay)))
  /\ promised' = [promised EXCEPT ![relay] = Until(now + wait + precision)]
  /\ UNCHANGED <<now, passes, panicked>>

\* The wait is told as a Duration.
time_until_ready(relay) ==
  \E wait \in time_until_available(refill(BucketOf(relay))) : TellWait(relay, wait, 1)

\* The bucket is empty: the wait is told as text, with one decimal.
CheckLimited(relay) ==
  LET bucket == refill(BucketOf(relay))
  IN  /\ bucket.tokens < Unit
      /\ \E wait \in time_until_available(bucket), tenths \in 0..Unit :
           /\ Rounds(wait, tenths, Tenth)
           /\ TellWait(relay, tenths * Tenth, (Tenth + 2) \div 2)

\* Either call, when the wait is no Duration.
PanicWaiting(relay) ==
  LET bucket == refill(BucketOf(relay))
  IN  /\ WaitPanics(bucket)
      /\ SetBucket(relay, bucket)
      /\ panicked' = TRUE
      /\ UNCHANGED <<now, passes, promised>>

reset(relay) ==
  /\ buckets' = [r \in DOMAIN buckets \ {relay} |-> buckets[r]]
  /\ Forget(relay)
  /\ UNCHANGED <<now, panicked>>

\* A panic ends the program.
LimiterStep ==
  /\ ~panicked
  /\ \/ Tick
     \/ \E relay \in Relays :
          \/ CheckOk(relay)
          \/ CheckLimited(relay)
          \/ time_until_ready(relay)
          \/ PanicWaiting(relay)
          \/ reset(relay)
          \/ \E policy \in Policies : set_relay_policy(relay, policy)

-----------------------------------------------------------------------------
(* Proof of work.                                                          *)

\* The count is a u8.
count_leading_zero_bits(id) == Bits(id) % 256

verify_pow(event, required) ==
  IF count_leading_zero_bits(event.id) >= required THEN Ok(event) ELSE Err("InsufficientPow")

\* The miner escapes only quotes and backslashes in the content.
compute_event_id_raw(event) ==
  IF Escapes(event.content) THEN <<"raw">> \o compute_event_id(event)
  ELSE compute_event_id(event)

IsNonce(raw) == raw # <<>> /\ raw[1] = "nonce"

WithNonce(tags, nonce, target) ==
  LET places == {i \in DOMAIN tags : IsNonce(tags[i])}
      tag == <<"nonce", nonce, target>>
  IN  IF places = {} THEN Append(tags, tag)
      ELSE LET first == CHOOSE i \in places : \A j \in places : i <= j
           IN  [tags EXCEPT ![first] = tag \o SubSeq(@, 4, Len(@))]

Attempt(event, nonce, target) ==
  LET tried == [event EXCEPT !.tags = WithNonce(@, nonce, target)]
  IN  [tried EXCEPT !.id = compute_event_id_raw(tried)]

\* The events the miner can return: the one of the first nonce that does, if
\* there is one below the bound; else it has not returned yet.
mine_pow(event, target) ==
  LET hits == {n \in 0..NonceBound : Bits(Attempt(event, n, target).id) % 256 >= target}
  IN  {Attempt(event, n, target) : n \in {m \in hits : \A k \in hits : m <= k}}

-----------------------------------------------------------------------------
(* The allowlist, the zap gate, and the filter.                            *)

FilterInit ==
  /\ allowed = {}
  /\ ledger = [key \in Keys |-> 0]

settings == <<required_pow_bits, threshold>>   \* chosen when the filter is made

allow(key) == allowed' = allowed \union {key} /\ UNCHANGED <<ledger, settings>>
disallow(key) == allowed' = allowed \ {key} /\ UNCHANGED <<ledger, settings>>

allowlist_check(event) == allowed = {} \/ event.pubkey \in allowed

\* Mutant: the sum wraps.
RecordZapWraps(key, msats) ==
  /\ ledger' = [ledger EXCEPT ![key] = (@ + msats) % (MaxLedger + 1)]
  /\ UNCHANGED <<allowed, settings>>

record_zap(key, msats) ==
  /\ ledger' = [ledger EXCEPT ![key] = Smaller(@ + msats, MaxLedger)]
  /\ UNCHANGED <<allowed, settings>>

zap_check(key) == ledger[key] >= threshold

clear(key) == ledger' = [ledger EXCEPT ![key] = 0] /\ UNCHANGED <<allowed, settings>>
clear_all == ledger' = [key \in Keys |-> 0] /\ UNCHANGED <<allowed, settings>>

check_inbound(event) ==
  IF ~allowlist_check(event) THEN Err("PubkeyNotAllowed")
  ELSE IF required_pow_bits > 0 /\ ~verify_pow(event, required_pow_bits).ok
  THEN Err("InsufficientPow")
  ELSE IF ~zap_check(event.pubkey) THEN Err("ZapGateRejected")
  ELSE Ok(event)

FilterCall(key) == allow(key) \/ disallow(key) \/ clear(key) \/ clear_all

-----------------------------------------------------------------------------
\* Between any tick and now a bucket lets pass no more than its capacity and
\* what its rate refills in that time, however checks, waits and refills
\* interleave.  (A new policy and a reset start the count again.)
BurstBounded ==
  \A relay \in DOMAIN buckets : \A tick \in 0..now :
    passes[relay][tick] * Unit
      <= buckets[relay].capacity * Unit + buckets[relay].rate * (now - tick)

\* Whoever sends nothing else meanwhile finds a token when the wait that was
\* told is over, with the precision it was told with: a nanosecond for a
\* Duration, half the last digit for the text.  That holds across other
\* waits, unless the bucket has no capacity: its wait is told and ends, and
\* it stays empty.  No wait is told, but the code panics, only for an empty
\* bucket of rate 0.
WaitIsEnough ==
  /\ \A relay \in Relays :
       promised[relay] <= now =>
         (refill(BucketOf(relay)).tokens >= Unit <=> BucketOf(relay).capacity > 0)
  /\ panicked => \E relay \in DOMAIN buckets : WaitPanics(buckets[relay])

LimiterKeepsRate == BurstBounded /\ WaitIsEnough

=============================================================================
