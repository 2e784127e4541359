------------------------------ MODULE MCAgent ------------------------------
(***************************************************************************)
(* An instance of Agent: eight small worlds, each with the events that     *)
(* bring out one part of the library, and the parts that use them.         *)
(***************************************************************************)
EXTENDS Agent

MCKeys == {"me", "al", "bo", "eph"}
MCDefault == [capacity |-> 2, rate |-> 1]
MCPolicies == {[capacity |-> 1, rate |-> 0], [capacity |-> 2, rate |-> 3],
               [capacity |-> 0, rate |-> 1]}

\* A toy hash: the nonce, the time and the serialiser decide the zero bits;
\* one in four ids is all zeros.
NonceOf(tags) ==
  IF \E i \in DOMAIN tags : IsNonce(tags[i])
  THEN tags[CHOOSE i \in DOMAIN tags : IsNonce(tags[i])][2] ELSE 0
MCBits(id) ==
  LET raw == Len(id) = 6
      fields == IF raw THEN Tail(id) ELSE id
      n == (NonceOf(fields[4]) + fields[2] + (IF raw THEN 1 ELSE 0)) % 4
  IN  IF n = 2 THEN 256 ELSE n
\* The parser: three texts too long for its fuel, and two heads that read as
\* something else, also inside the envelope of the commerce dialect.
Endless(content) ==
  CASE content.head \in {"define", "meta"} -> content.body.name = "endless"
    [] content.head = "task" -> content.body[2] = "too long"
    [] content.head = "lang" -> content.body[2].body = <<"too long">>
    [] OTHER -> content.body = <<"too long">>
MCParses(content) == ~Endless(content)
ReadHead(content) ==
  CASE content.head = "go on" -> encode("go", <<"on">> \o content.body)
    [] content.head = "42"    -> encode(None, <<42>> \o content.body)
    [] OTHER                  -> content
MCReads(content) ==
  IF content.head = "lang" THEN [content EXCEPT !.body[2] = ReadHead(@)]
  ELSE ReadHead(content)
MCEscapes(content) == content.form = "list" /\ content.body = <<"a line break">>

-----------------------------------------------------------------------------
By(key, time, event) == sign_event(event, key, time).val
Said(key, time, m) == By(key, time, build(m).val)
To(key, verb) == [Message(verb) EXCEPT !.recipient = key]
On(m, thread) == [m EXCEPT !.thread = thread]

Garble(event) == [event EXCEPT !.content = encode("tell", <<"damaged">>)]
Redate(event) == [event EXCEPT !.created_at = @ + 1]

\* Threads: a question, an older cancellation, a message on no thread, and
\* damaged copies.
Question == Said("al", 2, On(To("me", "ask"), "t1"))
Cancellation == Said("bo", 1, On(To("me", "cancel"), "t1"))
Talk == [authored |-> {Question, Cancellation, Said("bo", 2, To("me", "tell"))},
         damaged |-> {Garble(Question), Redate(Cancellation)},
         uses |-> {"threads"}, pow |-> 0, zap |-> 0]

\* The directory: two greetings and a farewell of one agent.
Hello(key, time, cap) == By(key, time, build_hello("dev", cap).val)
Gossip == [authored |-> {Hello("al", 1, <<>>), Hello("al", 3, <<"rust", "tla">>),
                         By("al", 2, build_bye.val), Hello("bo", 2, <<"rust">>),
                         Said("bo", 2, To("me", "tell"))},
           damaged |-> {[Hello("bo", 2, <<"rust">>) EXCEPT !.kind = 1]},
           uses |-> {"directory"}, pow |-> 0, zap |-> 0]

\* A zap request, and the receipt a wallet makes of it.
Zap(recipient, msats, dialects) ==
  LET request == zap_request([recipient |-> recipient, event_id |-> None,
                              amount_msats |-> msats, relays |-> <<"r1">>, lnurl |-> None]).val
  IN  [request EXCEPT !.tags = @ \o [i \in DOMAIN dialects |-> <<"dialect", dialects[i]>>]]
Receipt(time, recipient, request) ==
  By("bo", time, Unsigned(KIND_ZAP_RECEIPT,
                          << <<"p", recipient>>, <<"description", request>> >>,
                          [form |-> "blank"]))

\* The filter: a message with work and one without, and a payment that opens
\* the gate to the one who paid.
Worked == By("al", 1, [build(To("me", "tell")).val EXCEPT
                         !.tags = Append(@, <<"nonce", 2, 2>>)])
Paid == Receipt(1, "me", By("al", 1, Zap("me", 3, <<>>)))
Crowd == [authored |-> {Worked, Said("al", 2, To("me", "tell")), Paid}, damaged |-> {},
          uses |-> {"filter", "zaps"}, pow |-> 2, zap |-> 3]

\* Dialects: one good, one that redefines a core performative, one whose
\* signature is garbled, and messages that use them.
Bounds == [max_depth |-> 8, max_expansion_size |-> 64, verification_time_ms |-> 10]
Dialect(name, verb, used) ==
  [name |-> name, author |-> "@al", performatives |-> {[name |-> verb, uses |-> {used}]},
   resources |-> Bounds, signature |-> Unsigned_]
Good == Dialect("devops", "deploy", "effect")
SignedOne == [Good EXCEPT !.signature = <<"al", "devops">>]
Unsafe == {Dialect("devops", "deploy", "deploy"), Dialect("devops", "tell", "effect"),
           [Good EXCEPT !.resources.max_depth = 65]}
Published(d) == By("al", 1, from_dialect(d))
Dialects_ ==
  [authored |->
     {Published(Good), Published(SignedOne)} \union {Published(d) : d \in Unsafe}
       \union {By("al", 1, build_dialect("devops", encode("meta", Good))),
               By("al", 1, build_dialect("other", encode("define", Good))),
               Said("bo", 2, [To("me", "tell") EXCEPT !.dialect = "devops"]),
               Said("bo", 2, [To("me", "tell") EXCEPT !.dialect = "other"])},
   damaged |-> {[Published(Good) EXCEPT !.content = encode("define", Dialect("devops", "x", "y"))]},
   uses |-> {"dialects"}, pow |-> 0, zap |-> 0]

\* Receipts: two payments to the agent, one to another, and two that do not
\* parse.
Wallet ==
  [authored |->
     {Receipt(1, "me", By("al", 1, Zap("me", 2, <<"devops", "devops">>))),
      Receipt(3, "me", By("bo", 1, Zap("me", 6, <<>>))),
      Receipt(1, "al", By("bo", 1, Zap("al", 1, <<>>))),
      Receipt(1, "me", [By("al", 1, Zap("me", 1, <<>>)) EXCEPT !.kind = 1])},
   damaged |-> {}, uses |-> {"zaps"}, pow |-> 0, zap |-> 3]

\* Gift wraps: to the agent, to another, a seal that its sender did not sign,
\* and one around a rumor that names another author.
Rumor == build(To("me", "tell")).val
Gift(to) == gift_wrap(Rumor, "al", to, 1, "eph", 2).val
BadSeal == [By("al", 1, Unsigned(KIND_SEAL, <<>>, nip44_encrypt({"al", "me"}, Rumor)))
              EXCEPT !.sig = <<"bo", @[2]>>]
OtherAuthor == By("al", 1, Unsigned(KIND_SEAL, <<>>,
                 nip44_encrypt({"al", "me"}, [Rumor EXCEPT !.pubkey = "bo"])))
Wrapping(seal) == By("eph", 2, Unsigned(KIND_GIFT_WRAP, << <<"p", "me">> >>,
                                        nip44_encrypt({"eph", "me"}, seal)))
Parcels ==
  [authored |-> {Gift("me"), Gift("bo"), Wrapping(BadSeal), Wrapping(OtherAuthor)},
   damaged |-> {[Gift("me") EXCEPT !.content.key = {}]},
   uses |-> {"gifts"}, pow |-> 0, zap |-> 0]

Quiet(part, pow) ==
  [authored |-> {}, damaged |-> {}, uses |-> {part}, pow |-> pow, zap |-> 0]

MCWorlds == {Talk, Gossip, Crowd, Dialects_, Wallet, Parcels,
             Quiet("limiter", 0), Quiet("send", 2)}

-----------------------------------------------------------------------------
Asked(api, what) == [api |-> api, what |-> what]
MCOutgoing ==
  {Asked("message", m) : m \in {To("al", "tell"), To(None, "tell"), Message("hello"),
                                [To("al", "tell") EXCEPT !.body = <<"a line break">>],
                                [To("al", "tell") EXCEPT !.body = <<"too long">>],
                                To("al", "go on"), To("al", "42"),
                                [On(To("al", "ask"), "t1") EXCEPT !.dialect = "devops"]}}
  \union {Asked("commerce", To("bo", "quote")), Asked("commerce", To("bo", "go on")),
          Asked("commerce", [To("bo", "paid") EXCEPT !.body = <<"too long">>]),
          Asked("hello", [agent_type |-> "dev", capabilities |-> <<"rust", "tla">>]),
          Asked("bye", [agent_type |-> "dev"]),
          Asked("task", [description |-> "fix", policy |-> "first-reply-wins", amount |-> 5]),
          Asked("task", [description |-> "too long", policy |-> "publisher-chooses",
                         amount |-> -1]),
          Asked("withdraw", [task |-> "id"]),
          Asked("claim", [to |-> "al", task |-> "id"]),
          Asked("assign", [to |-> "al", task |-> "id"]),
          Asked("zap", [recipient |-> "al", event_id |-> "id", amount_msats |-> 3,
                        relays |-> <<"r1", "r2">>, lnurl |-> "ln"]),
          Asked("zap", [recipient |-> None, event_id |-> None, amount_msats |-> 3,
                        relays |-> <<>>, lnurl |-> None])}
  \union {Asked("dialect", d) : d \in {Good, SignedOne, commerce_dialect,
                                      [Good EXCEPT !.name = "endless"]} \union Unsafe}
  \union {Asked("profile", p) :
            p \in {EmptyProfile, [EmptyProfile EXCEPT !.name = "a", !.extra = << <<"bot", "yes">> >>],
                   field([EmptyProfile EXCEPT !.name = "a"], "name", "b"),
                   field(EmptyProfile, "name", "b")}}

MCThresholds ==
  {permissive, default_thresholds, strict, TrustThresholds(2, 80, 3, 1)}

=============================================================================
