------------------------- MODULE AgentNetwork_proofs -------------------------
(***************************************************************************)
(* Proofs about Agent that need what is on the network: what was signed    *)
(* was authored, what was built is well formed.  From that invariant       *)
(* follow what the agent accepts and unwraps, the types of its variables,  *)
(* the history of its threads, and what payments do.                       *)
(***************************************************************************)
EXTENDS Agent_proofs

-----------------------------------------------------------------------------
(* What is published.                                                      *)

\* The plaintext inside both layers of a gift.
Rumor(e) == e.content.text.content.text

\* The assumption on worlds, kept of what is published since.
NetInv ==
  /\ uses \subseteq Parts
  /\ authored \subseteq net
  /\ \A e \in net :
       /\ Parsed(e)
       /\ Genuine(e) => e \in authored
       /\ ForMe(e) =>
            \E a \in authored : a.kind = e.kind /\ a.pubkey = e.pubkey /\ a.content = e.content
       /\ ForMe(e) /\ e.content.text.content.form = "nip44" =>
            (Genuine(Rumor(e)) => Rumor(e) \in authored)

\* An event that may be published.
Proper(e) == Parsed(e) /\ (ForMe(e) => ~Genuine(Rumor(e)))

\* The network grows by proper events only.
LEMMA PublishKeepsNet ==
  ASSUME NetInv, NEW api, NEW w, NEW e, Proper(e), Publish(api, w, e)
  PROVE  NetInv'
<1>1. authored' = authored \union {e} /\ net' = net \union {e} /\ uses' = uses
  BY DEF Publish
<1>2. \A x : /\ Parsed(x)' <=> Parsed(x)
             /\ Genuine(x)' <=> Genuine(x)
             /\ ForMe(x)' <=> ForMe(x)
  OBVIOUS
<1>3. ASSUME NEW x \in net'
      PROVE  /\ Parsed(x)
             /\ Genuine(x) => x \in authored'
             /\ ForMe(x) =>
                  \E a \in authored' :
                    a.kind = x.kind /\ a.pubkey = x.pubkey /\ a.content = x.content
             /\ ForMe(x) /\ x.content.text.content.form = "nip44" =>
                  (Genuine(Rumor(x)) => Rumor(x) \in authored')
  <2>1. CASE x \in net
    BY <1>1, <2>1 DEF NetInv
  <2>2. CASE x = e
    BY <1>1, <2>2 DEF Proper
  <2> QED
    BY <1>1, <2>1, <2>2
<1> QED
  BY <1>1, <1>3 DEF NetInv

\* Signing sets the author and the time, and leaves the rest.
LEMMA SignedFields ==
  ASSUME NEW id, NEW key, NEW time, NEW kind, NEW tags, NEW content, NEW sig
  PROVE  LET e == Signed([id |-> id, pubkey |-> key, created_at |-> time, kind |-> kind,
                          tags |-> tags, content |-> content, sig |-> sig])
         IN  /\ e.pubkey = Me /\ e.created_at = now /\ e.kind = kind
             /\ e.tags = tags /\ e.content = content
BY AgentAssumption DEF Signed, sign_event, Ok

\* An event that is signed here, and is no gift, is proper.
LEMMA SignedIsProper ==
  ASSUME now \in Nat,
         NEW id, NEW key, NEW time, NEW kind, NEW tags, NEW content, NEW sig,
         kind \notin {KIND_GIFT_WRAP, KIND_ZAP_RECEIPT}, NamesThreads(tags)
  PROVE  Proper(Signed([id |-> id, pubkey |-> key, created_at |-> time, kind |-> kind,
                        tags |-> tags, content |-> content, sig |-> sig]))
<1> DEFINE e == Signed([id |-> id, pubkey |-> key, created_at |-> time, kind |-> kind,
                        tags |-> tags, content |-> content, sig |-> sig])
<1>1. e.pubkey = Me /\ e.created_at = now /\ e.kind = kind /\ e.tags = tags
  BY SignedFields
<1> HIDE DEF e
<1>2. ~ForMe(e)
  BY <1>1 DEF ForMe
<1>3. ~zap_receipt(e).ok
  BY <1>1 DEF zap_receipt, Err
<1>4. Proper(e)
  BY <1>1, <1>2, <1>3, AgentAssumption DEF Proper, Parsed
<1> QED
  BY <1>4 DEF e

\* Whatever the message builder is given, it makes an agent message.
LEMMA BuildMakes ==
  ASSUME NEW m, build(m).ok
  PROVE  \E tags, content : build(m).val = Unsigned(KIND_AGENT_MESSAGE, tags, content)
BY DEF build, Err, Ok

\* No builder makes a gift or a receipt.
LEMMA BuiltMakes ==
  ASSUME NEW api \in Builders, NEW w, Built(api, w).ok
  PROVE  \E kind, tags, content :
           /\ kind \notin {KIND_GIFT_WRAP, KIND_ZAP_RECEIPT}
           /\ Built(api, w).val = Unsigned(kind, tags, content)
<1> DEFINE Made(r) == \E kind, tags, content :
                        /\ kind \notin {KIND_GIFT_WRAP, KIND_ZAP_RECEIPT}
                        /\ r.val = Unsigned(kind, tags, content)
<1> USE DEF KIND_GIFT_WRAP, KIND_ZAP_RECEIPT
<1>1. ASSUME NEW m, build(m).ok PROVE Made(build(m))
  BY <1>1, BuildMakes DEF KIND_AGENT_MESSAGE
<1>2. CASE api = "message"
  BY <1>1, <1>2 DEF Built
<1>3. CASE api = "commerce"
  <2> DEFINE m == [w EXCEPT !.performative = "tell", !.body = <<>>,
                            !.dialect = COMMERCE_DIALECT_NAME,
                            !.extra_tags = <<[variant |-> "Hashtag",
                                              args |-> <<w.performative>>]>> \o @]
             content == wrap_commerce(encode(w.performative, w.body))
  <2>1. Built(api, w) = build_commerce(w)
    BY <1>3 DEF Built
  <2>2. build(m).ok /\ build_commerce(w) = Ok([build(m).val EXCEPT !.content = content])
    BY <2>1 DEF build_commerce
  <2>3. PICK tags, inner : build(m).val = Unsigned(KIND_AGENT_MESSAGE, tags, inner)
    BY <2>2, BuildMakes
  <2> HIDE DEF m, content
  <2>4. [build(m).val EXCEPT !.content = content] = Unsigned(KIND_AGENT_MESSAGE, tags, content)
    BY <2>3 DEF Unsigned
  <2>5. Built(api, w).val = Unsigned(KIND_AGENT_MESSAGE, tags, content)
    BY <2>1, <2>2, <2>4 DEF Ok
  <2>6. KIND_AGENT_MESSAGE \notin {KIND_GIFT_WRAP, KIND_ZAP_RECEIPT}
    BY DEF KIND_AGENT_MESSAGE
  <2> QED
    BY ONLY <2>5, <2>6
<1>4. CASE api = "hello"
  <2> DEFINE m == [Message("hello") EXCEPT
                     !.extra_tags = <<RawTag(TAG_AGENT_TYPE, w.agent_type)>>
                       \o [i \in DOMAIN w.capabilities |->
                            RawTag(TAG_CAPABILITY, w.capabilities[i])]]
  <2>1. Built(api, w) = build(m)
    BY <1>4 DEF Built, build_hello
  <2> HIDE DEF m
  <2> QED
    BY <1>1, <2>1
<1>5. CASE api = "bye"
  BY <1>1, <1>5 DEF Built, build_bye
<1>6. CASE api = "task"
  BY <1>6 DEF Built, build_task, Ok, KIND_AGENT_MESSAGE
<1>7. CASE api = "withdraw"
  BY <1>7 DEF Built, build_withdraw, Ok, KIND_AGENT_MESSAGE
<1>8. CASE api = "claim"
  BY <1>1, <1>8 DEF Built, build_claim, TaskRef
<1>9. CASE api = "assign"
  BY <1>1, <1>9 DEF Built, build_assign, TaskRef
<1>10. CASE api = "dialect"
  BY <1>10 DEF Built, from_dialect, build_dialect, Ok, KIND_AGENT_DIALECT
<1>11. CASE api = "profile"
  BY <1>11 DEF Built, build_profile, Ok, KIND_METADATA
<1>12. CASE api = "zap"
  <2>1. \E tags, content : zap_request(w) = Ok(Unsigned(KIND_ZAP_REQUEST, tags, content))
    BY <1>12 DEF Built, zap_request, Err
  <2>2. \E tags, content : Built(api, w).val = Unsigned(KIND_ZAP_REQUEST, tags, content)
    BY <1>12, <2>1 DEF Built, Ok
  <2>3. KIND_ZAP_REQUEST \notin {KIND_GIFT_WRAP, KIND_ZAP_RECEIPT}
    BY DEF KIND_ZAP_REQUEST
  <2> QED
    BY ONLY <2>2, <2>3
<1> QED
  BY <1>2, <1>3, <1>4, <1>5, <1>6, <1>7, <1>8, <1>9, <1>10, <1>11, <1>12 DEF Builders

-----------------------------------------------------------------------------
(* Tags.                                                                   *)

\* Lists are sequences, and the other way round.
LEMMA ListIsSeq ==
  ASSUME NEW s, IsList(s)
  PROVE  s \in Seq({s[i] : i \in DOMAIN s}) /\ DOMAIN s = 1..Len(s)
BY DEF IsList

\* A sequence is a list.
LEMMA SeqIsList ==
  ASSUME NEW S, NEW s \in Seq(S)
  PROVE  IsList(s) /\ DOMAIN s = 1..Len(s)
BY DEF IsList

\* Sequences are equal when their elements are.
LEMMA SameSeq ==
  ASSUME NEW S, NEW s \in Seq(S), NEW t \in Seq(S), Len(s) = Len(t),
         \A i \in 1..Len(s) : s[i] = t[i]
  PROVE  s = t
OBVIOUS

\* The keys of tags with one value.
SingleKeys == {"p", "performative", "thread", "e", "dialect", "t", "amount", "L"}

\* A raw tag of two strings is parsed as its key says, and a typed tag is
\* written back as it was read.
LEMMA PairIsParsed ==
  ASSUME NEW key \in SingleKeys, NEW a
  PROVE  Tag_parse(<<key, a>>) = [variant |-> Variant[key], args |-> <<a>>]
<1>1. key \in DOMAIN Variant /\ Arity(key) = 2
  BY DEF SingleKeys, Variant, Arity
<1>2. <<key, a>> # <<>> /\ <<key, a>>[1] = key /\ Len(<<key, a>>) = 2
  OBVIOUS
<1>3. SubSeq(<<key, a>>, 2, 2) = <<a>>
  <2> DEFINE S == {key, a}
             s == <<key, a>>
             t == SubSeq(s, 2, 2)
  <2>1. s \in Seq(S) /\ Len(s) = 2 /\ s[2] = a
    OBVIOUS
  <2> HIDE DEF s, S
  <2>2. t \in Seq(S) /\ Len(t) = 1 /\ t[1] = s[2]
    BY <2>1
  <2>3. <<a>> \in Seq(S) /\ Len(<<a>>) = 1 /\ <<a>>[1] = a
    BY DEF S
  <2> HIDE DEF t
  <2>4. \A i \in 1..Len(t) : t[i] = <<a>>[i]
    BY <2>1, <2>2, <2>3
  <2>5. t = <<a>>
    BY ONLY <2>2, <2>3, <2>4, SameSeq
  <2> QED
    BY <2>5 DEF t, s
<1> QED
  BY <1>1, <1>2, <1>3 DEF Tag_parse

\* A typed tag of one argument is written as its key and that.
LEMMA TagIsWritten ==
  ASSUME NEW key \in SingleKeys, NEW a
  PROVE  Tag_to_raw([variant |-> Variant[key], args |-> <<a>>]) = <<key, a>>
<1>1. \A k \in DOMAIN Variant : Variant[k] = Variant[key] <=> k = key
  BY DEF SingleKeys, Variant
<1>2. key \in DOMAIN Variant /\ Variant[key] # "Unknown"
  BY DEF SingleKeys, Variant
<1>3. (CHOOSE k \in DOMAIN Variant : Variant[k] = Variant[key]) = key
  BY <1>1, <1>2
<1>4. <<key>> \o <<a>> = <<key, a>>
  <2> DEFINE S == {key, a}
             s == <<key, a>>
             t == <<key>> \o <<a>>
  <2>1. s \in Seq(S) /\ Len(s) = 2 /\ s[1] = key /\ s[2] = a
    OBVIOUS
  <2>2. <<key>> \in Seq(S) /\ <<a>> \in Seq(S) /\ Len(<<key>>) = 1 /\ Len(<<a>>) = 1
    OBVIOUS
  <2>3. t \in Seq(S) /\ Len(t) = 2 /\ t[1] = key /\ t[2] = a
    BY <2>2
  <2> HIDE DEF s, S, t
  <2>4. \A i \in 1..Len(t) : t[i] = s[i]
    BY <2>1, <2>3
  <2>5. t = s
    BY ONLY <2>1, <2>3, <2>4, SameSeq
  <2> QED
    BY <2>5 DEF t, s
<1> QED
  BY <1>2, <1>3, <1>4 DEF Tag_to_raw

\* Any other key is unknown, that of a nonce for one.
LEMMA OtherIsUnknown ==
  ASSUME NEW raw, raw # <<>> => raw[1] \notin DOMAIN Variant
  PROVE  Tag_parse(raw) = [variant |-> "Unknown", args |-> raw]
BY DEF Tag_parse

\* The nonce that mining adds is no tag of this library.
LEMMA NonceIsUnknown ==
  ASSUME NEW raw, raw[1] = "nonce"
  PROVE  Tag_parse(raw).variant = "Unknown"
<1>1. "nonce" \notin DOMAIN Variant
  BY DEF Variant
<1> QED
  BY <1>1, OtherIsUnknown

\* Mining changes the nonce tag only: threads stay named.
LEMMA NonceKeepsThreads ==
  ASSUME NEW tags, NamesThreads(tags), NEW nonce, NEW target
  PROVE  NamesThreads(WithNonce(tags, nonce, target))
<1> DEFINE places == {i \in DOMAIN tags : IsNonce(tags[i])}
           tag == <<"nonce", nonce, target>>
           S == {tags[i] : i \in DOMAIN tags}
<1>1. tags \in Seq(S) /\ DOMAIN tags = 1..Len(tags) /\ Len(tags) \in Nat
  BY ListIsSeq DEF NamesThreads, IsList
<1>2. \A i \in DOMAIN tags :
        /\ IsList(tags[i])
        /\ Tag_parse(tags[i]).variant = "Thread" => Tag_parse(tags[i]).args[1] \in ThreadIds
  BY DEF NamesThreads
<1>3. IsList(tag) /\ Tag_parse(tag).variant = "Unknown"
  <2>1. Len(tag) = 3 /\ tag[1] = "nonce" /\ tag = [i \in 1..3 |-> tag[i]]
    OBVIOUS
  <2> QED
    BY <2>1, NonceIsUnknown DEF IsList
<1> HIDE DEF tag, S
<1>4. CASE places = {}
  <2> DEFINE next == Append(tags, tag)
  <2>1. WithNonce(tags, nonce, target) = next
    BY <1>4 DEF WithNonce, tag
  <2>2. /\ next \in Seq(S \union {tag}) /\ Len(next) = Len(tags) + 1
        /\ \A i \in 1..Len(tags) : next[i] = tags[i]
        /\ next[Len(tags) + 1] = tag
    BY <1>1
  <2> HIDE DEF next
  <2>3. IsList(next) /\ DOMAIN next = 1..(Len(tags) + 1)
    BY <2>2, SeqIsList
  <2>4. \A i \in DOMAIN next : (i \in DOMAIN tags /\ next[i] = tags[i]) \/ next[i] = tag
    BY <1>1, <2>2, <2>3
  <2> QED
    BY <1>2, <1>3, <2>1, <2>3, <2>4 DEF NamesThreads
<1>5. CASE places # {}
  <2> DEFINE first == CHOOSE i \in places : \A j \in places : i <= j
             raw == tags[first]
             rest == SubSeq(raw, 4, Len(raw))
             next == [tags EXCEPT ![first] = tag \o rest]
  <2>1. places \in SUBSET Nat
    BY <1>1
  <2>2. first \in places
    <3>1. \E i \in places : \A j \in places : i <= j
      BY <1>5, <2>1, LeastNumber
    <3> QED
      BY <3>1
  <2>3. first \in DOMAIN tags /\ IsList(raw)
    BY <1>2, <2>2
  <2>4. WithNonce(tags, nonce, target) = next
    BY <1>5 DEF WithNonce, tag
  <2> HIDE DEF first, raw, places
  <2>5. rest \in Seq({raw[i] : i \in DOMAIN raw})
    BY <2>3, ListIsSeq
  <2> HIDE DEF rest
  <2>6. tag \in Seq({"nonce", nonce, target})
    BY DEF tag
  <2>7. tag \o rest \in Seq({raw[i] : i \in DOMAIN raw} \union {"nonce", nonce, target})
    BY <2>5, <2>6
  <2>8. (tag \o rest)[1] = "nonce"
    BY <2>5, <2>6 DEF tag
  <2>9. IsList(tag \o rest) /\ Tag_parse(tag \o rest).variant = "Unknown"
    BY <2>7, <2>8, SeqIsList, NonceIsUnknown
  <2>10. next \in Seq(S \union {tag \o rest}) /\ Len(next) = Len(tags)
         /\ DOMAIN next = DOMAIN tags
    BY <1>1, <2>3
  <2>11. \A i \in DOMAIN next : next[i] = tags[i] \/ next[i] = tag \o rest
    BY <2>10
  <2> HIDE DEF next
  <2>12. IsList(next)
    BY <2>10, SeqIsList
  <2> QED
    BY <1>2, <2>4, <2>9, <2>10, <2>11, <2>12 DEF NamesThreads
<1> QED
  BY <1>4, <1>5

\* An optional tag is a sequence of at most one.
LEMMA OptionIsSeq ==
  ASSUME NEW T, NEW variant, NEW value,
         value # None => [variant |-> variant, args |-> <<value>>] \in T
  PROVE  OptionTag(variant, value) \in Seq(T)
BY DEF OptionTag

\* A tag of one of these keys and one of these values.
LEMMA AllPairs ==
  ASSUME NEW Ks, NEW B, NEW key \in Ks, NEW a \in B
  PROVE  [variant |-> Variant[key], args |-> <<a>>]
           \in {[variant |-> Variant[k], args |-> <<b>>] : k \in Ks, b \in B}
OBVIOUS

\* A message about a thread of the model, built with event tags, names no
\* other thread.
LEMMA BuildNamesThreads ==
  ASSUME NEW m, build(m).ok, m.thread \in ThreadIds \union {None},
         NEW A, m.extra_tags \in Seq({[variant |-> "Event", args |-> <<a>>] : a \in A})
  PROVE  NamesThreads(build(m).val.tags)
<1> DEFINE B == A \union {m.recipient, m.performative, m.dialect}
           Pairs == {[variant |-> Variant[key], args |-> <<a>>] :
                       key \in SingleKeys \ {"thread"}, a \in B}
           Threads_ == {[variant |-> "Thread", args |-> <<t>>] : t \in ThreadIds}
           T == Pairs \union Threads_
           tags == OptionTag("PubKey", m.recipient)
                   \o OptionTag("Performative", m.performative)
                   \o OptionTag("Thread", m.thread)
                   \o OptionTag("Dialect", m.dialect)
                   \o m.extra_tags
           raws == [i \in DOMAIN tags |-> Tag_to_raw(tags[i])]
<1>1. build(m).val.tags = raws
  BY DEF build, Err, Ok, Unsigned
<1>2. /\ Variant["p"] = "PubKey" /\ Variant["performative"] = "Performative"
      /\ Variant["dialect"] = "Dialect" /\ Variant["e"] = "Event"
      /\ Variant["thread"] = "Thread"
      /\ \A key \in SingleKeys \ {"thread"} : Variant[key] # "Thread"
      /\ {"p", "performative", "dialect", "e"} \subseteq SingleKeys \ {"thread"}
      /\ "thread" \in SingleKeys
  BY DEF Variant, SingleKeys
<1>3. /\ [variant |-> "PubKey", args |-> <<m.recipient>>] \in Pairs
      /\ [variant |-> "Performative", args |-> <<m.performative>>] \in Pairs
      /\ [variant |-> "Dialect", args |-> <<m.dialect>>] \in Pairs
      /\ \A a \in A : [variant |-> "Event", args |-> <<a>>] \in Pairs
      /\ m.thread # None => [variant |-> "Thread", args |-> <<m.thread>>] \in Threads_
  <2>1. \A key \in SingleKeys \ {"thread"} : \A a \in B :
          [variant |-> Variant[key], args |-> <<a>>] \in Pairs
    <3> HIDE DEF B
    <3> QED
      BY AllPairs
  <2>2. m.thread # None => [variant |-> "Thread", args |-> <<m.thread>>] \in Threads_
    OBVIOUS
  <2>3. A \subseteq B /\ m.recipient \in B /\ m.performative \in B /\ m.dialect \in B
    OBVIOUS
  <2> HIDE DEF Pairs, Threads_, B
  <2> QED
    BY <1>2, <2>1, <2>2, <2>3
<1> HIDE DEF Pairs, Threads_
<1>4. /\ OptionTag("PubKey", m.recipient) \in Seq(T)
      /\ OptionTag("Performative", m.performative) \in Seq(T)
      /\ OptionTag("Thread", m.thread) \in Seq(T)
      /\ OptionTag("Dialect", m.dialect) \in Seq(T)
  BY <1>3, OptionIsSeq
<1>5. m.extra_tags \in Seq(T)
  <2>1. {[variant |-> "Event", args |-> <<a>>] : a \in A} \subseteq T
    BY <1>3
  <2> QED
    BY <2>1
<1>6. tags \in Seq(T)
  BY <1>4, <1>5
<1> HIDE DEF tags
<1>7. ASSUME NEW tag \in T
      PROVE  /\ IsList(Tag_to_raw(tag))
             /\ LET parsed == Tag_parse(Tag_to_raw(tag))
                IN  parsed.variant = "Thread" => parsed.args[1] \in ThreadIds
  <2>1. \A key, a : IsList(<<key, a>>)
    BY DEF IsList
  <2>2. ASSUME NEW key \in SingleKeys, NEW a,
               tag = [variant |-> Variant[key], args |-> <<a>>]
        PROVE  /\ Tag_to_raw(tag) = <<key, a>>
               /\ Tag_parse(Tag_to_raw(tag)) = [variant |-> Variant[key], args |-> <<a>>]
    BY <2>2, TagIsWritten, PairIsParsed
  <2>3. CASE tag \in Pairs
    <3>1. PICK key \in SingleKeys \ {"thread"}, a \in B :
            tag = [variant |-> Variant[key], args |-> <<a>>]
      BY <2>3 DEF Pairs
    <3> QED
      BY <1>2, <2>1, <2>2, <3>1
  <2>4. CASE tag \in Threads_
    <3>1. PICK t \in ThreadIds : tag = [variant |-> "Thread", args |-> <<t>>]
      BY <2>4 DEF Threads_
    <3>2. tag = [variant |-> Variant["thread"], args |-> <<t>>] /\ "thread" \in SingleKeys
      BY <1>2, <3>1
    <3>3. /\ Tag_to_raw(tag) = <<"thread", t>>
          /\ Tag_parse(Tag_to_raw(tag)).args = <<t>>
      BY <2>2, <3>2
    <3> QED
      BY <2>1, <3>3
  <2> QED
    BY <2>3, <2>4
<1>8. DOMAIN raws = 1..Len(tags) /\ DOMAIN tags = 1..Len(tags) /\ Len(tags) \in Nat
      /\ \A i \in DOMAIN tags : tags[i] \in T /\ raws[i] = Tag_to_raw(tags[i])
  BY <1>6
<1>9. raws \in Seq({Tag_to_raw(tag) : tag \in T})
  BY <1>8
<1> HIDE DEF T, raws
<1>10. IsList(raws)
  BY <1>9, SeqIsList
<1>11. \A i \in DOMAIN raws :
         /\ IsList(raws[i])
         /\ Tag_parse(raws[i]).variant = "Thread" => Tag_parse(raws[i]).args[1] \in ThreadIds
  BY <1>7, <1>8
<1> QED
  BY <1>1, <1>10, <1>11 DEF NamesThreads

-----------------------------------------------------------------------------
(* The events of each way to send.                                         *)

\* What is signed with tags that name threads of the model is proper.
LEMMA SentIsProper ==
  ASSUME now \in Nat, NEW kind, kind \notin {KIND_GIFT_WRAP, KIND_ZAP_RECEIPT},
         NEW tags, NEW content, NamesThreads(tags)
  PROVE  Proper(Signed(Unsigned(kind, tags, content)))
BY SignedIsProper DEF Unsigned

\* What each way to send publishes is proper.
LEMMA BuiltIsProper ==
  ASSUME now \in Nat, NEW o \in Outgoing, Built(o.api, o.what).ok
  PROVE  Proper(Signed(Built(o.api, o.what).val))
<1>1. PICK kind, tags, content :
        /\ kind \notin {KIND_GIFT_WRAP, KIND_ZAP_RECEIPT}
        /\ Built(o.api, o.what).val = Unsigned(kind, tags, content)
  BY OutgoingAssumption, BuiltMakes
<1>2. NamesThreads(tags)
  BY <1>1, OutgoingAssumption DEF Unsigned
<1> QED
  BY <1>1, <1>2, SentIsProper

\* A message to send is one that the builder is called with.
LEMMA MessagesAreBuilt ==
  ASSUME NEW m \in Messages
  PROVE  \E o \in Outgoing : o.api = "message" /\ o.what = m /\ Built(o.api, o.what) = build(m)
<1>1. PICK o \in Outgoing : o.api = "message" /\ o.what = m
  BY DEF Messages
<1>2. Built("message", m) = build(m)
  BY DEF Built
<1> QED
  BY <1>1, <1>2

\* The event that is mined or signed, with its author and its time.
AuthoredAt(kind, tags, content, key, time) ==
  [id |-> NoId, pubkey |-> key, created_at |-> time, kind |-> kind,
   tags |-> tags, content |-> content, sig |-> NoId]

\* Setting the author and the date of an event made by a builder.
LEMMA AuthorIsSet ==
  ASSUME NEW kind, NEW tags, NEW content, NEW key, NEW time
  PROVE  [Unsigned(kind, tags, content) EXCEPT !.pubkey = key, !.created_at = time]
           = AuthoredAt(kind, tags, content, key, time)
<1> DEFINE event == Unsigned(kind, tags, content)
           mine == [event EXCEPT !.pubkey = key]
           dated == [mine EXCEPT !.created_at = time]
<1>1. event = [id |-> NoId, pubkey |-> None, created_at |-> 0, kind |-> kind,
               tags |-> tags, content |-> content, sig |-> NoId]
  BY DEF Unsigned
<1> HIDE DEF event
<1>2. [event EXCEPT !.pubkey = key, !.created_at = time] = dated
  OBVIOUS
<1>3. mine = [id |-> NoId, pubkey |-> key, created_at |-> 0, kind |-> kind,
              tags |-> tags, content |-> content, sig |-> NoId]
  BY <1>1
<1> HIDE DEF mine
<1>4. dated = AuthoredAt(kind, tags, content, key, time)
  BY <1>3 DEF AuthoredAt
<1> QED
  BY <1>2, <1>4 DEF event

\* Mining changes nothing that makes a message proper.
LEMMA MinedIsProper ==
  ASSUME now \in Nat, NEW m \in Messages, build(m).ok,
         NEW mined \in mine_pow([build(m).val EXCEPT !.pubkey = Me, !.created_at = now],
                                required_pow_bits)
  PROVE  Proper(Signed(mined))
<1>1. PICK tags, content : build(m).val = Unsigned(KIND_AGENT_MESSAGE, tags, content)
  BY BuildMakes
<1>2. NamesThreads(tags)
  <2>1. NamesThreads(build(m).val.tags)
    BY MessagesAreBuilt, OutgoingAssumption
  <2> QED
    BY <1>1, <2>1 DEF Unsigned
<1> DEFINE event == [build(m).val EXCEPT !.pubkey = Me, !.created_at = now]
<1>3. event = AuthoredAt(KIND_AGENT_MESSAGE, tags, content, Me, now)
  BY <1>1, AuthorIsSet
<1> HIDE DEF event
<1>4. PICK n : mined = Attempt(event, n, required_pow_bits)
  BY DEF mine_pow, event
<1>5. \E id : mined = [id |-> id, pubkey |-> Me, created_at |-> now,
                       kind |-> KIND_AGENT_MESSAGE,
                       tags |-> WithNonce(tags, n, required_pow_bits),
                       content |-> content, sig |-> NoId]
  BY <1>3, <1>4 DEF Attempt, AuthoredAt
<1>6. NamesThreads(WithNonce(tags, n, required_pow_bits))
  BY <1>2, NonceKeepsThreads
<1>7. KIND_AGENT_MESSAGE \notin {KIND_GIFT_WRAP, KIND_ZAP_RECEIPT}
  BY DEF KIND_AGENT_MESSAGE, KIND_GIFT_WRAP, KIND_ZAP_RECEIPT
<1> QED
  BY <1>5, <1>6, <1>7, SignedIsProper

\* A message built to continue a thread names that thread and no other.
LEMMA ReplyIsProper ==
  ASSUME now \in Nat, NEW t \in ThreadIds, NEW verb, NEW to,
         build([continue_thread(t, verb) EXCEPT !.recipient = to]).ok
  PROVE  Proper(Signed(build([continue_thread(t, verb) EXCEPT !.recipient = to]).val))
<1> DEFINE m == [continue_thread(t, verb) EXCEPT !.recipient = to]
           last == threads[t].event_chain[Len(threads[t].event_chain)]
<1>1. m.thread = t
      /\ m.extra_tags \in {<<>>, <<[variant |-> "Event", args |-> <<last>>]>>}
  BY DEF continue_thread, Message
<1> HIDE DEF last
<1>2. m.extra_tags \in Seq({[variant |-> "Event", args |-> <<a>>] : a \in {last}})
  <2> DEFINE tag == [variant |-> "Event", args |-> <<last>>]
  <2>1. {[variant |-> "Event", args |-> <<a>>] : a \in {last}} = {tag}
    OBVIOUS
  <2>2. m.extra_tags \in {<<>>, <<tag>>}
    BY <1>1
  <2> HIDE DEF tag, m
  <2>3. m.extra_tags \in Seq({tag})
    <3>1. <<>> \in Seq({tag}) /\ <<tag>> \in Seq({tag})
      OBVIOUS
    <3> QED
      BY <2>2, <3>1
  <2> QED
    BY <2>1, <2>3
<1> HIDE DEF m
<1>3. NamesThreads(build(m).val.tags)
  BY <1>1, <1>2, BuildNamesThreads DEF m
<1>4. PICK tags, content : build(m).val = Unsigned(KIND_AGENT_MESSAGE, tags, content)
  BY BuildMakes DEF m
<1>5. NamesThreads(tags)
  BY <1>3, <1>4 DEF Unsigned
<1>6. KIND_AGENT_MESSAGE \notin {KIND_GIFT_WRAP, KIND_ZAP_RECEIPT}
  BY DEF KIND_AGENT_MESSAGE, KIND_GIFT_WRAP, KIND_ZAP_RECEIPT
<1>7. Proper(Signed(build(m).val))
  BY <1>4, <1>5, <1>6, SentIsProper
<1> QED
  BY <1>7 DEF m

\* A gift made here is dated, and its inside was not signed.
LEMMA GiftIsProper ==
  ASSUME now \in Nat, NEW m, build(m).ok, NEW to, NEW time \in Nat,
         gift_wrap(build(m).val, Me, to, now, Ephemeral, time).ok
  PROVE  Proper(gift_wrap(build(m).val, Me, to, now, Ephemeral, time).val)
<1> DEFINE rumor == build(m).val
           dated == [rumor EXCEPT !.pubkey = Me, !.created_at = now, !.sig = NoId]
           packed == [dated EXCEPT !.id = compute_event_id(dated)]
           inner == conversation_key(Me, to)
           seal == sign_event(Unsigned(KIND_SEAL, <<>>, nip44_encrypt(inner.val, packed)),
                              Me, now)
           outer == conversation_key(Ephemeral, to)
           wrapped == sign_event(Unsigned(KIND_GIFT_WRAP, << <<"p", to>> >>,
                                          nip44_encrypt(outer.val, seal.val)),
                                 Ephemeral, time)
           e == gift_wrap(rumor, Me, to, now, Ephemeral, time).val
<1>1. Me \in Keys /\ Ephemeral \in Keys
  BY AgentAssumption
<1>2. gift_wrap(rumor, Me, to, now, Ephemeral, time) = wrapped
  <2>1. inner.ok
    BY <1>1 DEF gift_wrap, Err, conversation_key, Ok
  <2> HIDE DEF inner, outer, seal, packed, wrapped, rumor
  <2> QED
    BY <1>1, <2>1 DEF gift_wrap, wrapped, seal, packed, inner, outer
<1>3. packed.sig = NoId
  <2>1. PICK tags, content : rumor = Unsigned(KIND_AGENT_MESSAGE, tags, content)
    BY BuildMakes
  <2> HIDE DEF rumor
  <2> QED
    BY <2>1 DEF Unsigned
<1> HIDE DEF packed, inner, outer
<1>4. seal.val.content.text = packed
  BY <1>1 DEF sign_event, Unsigned, Ok, nip44_encrypt
<1> HIDE DEF seal
<1>5. wrapped.val.pubkey = Ephemeral /\ wrapped.val.created_at = time
      /\ wrapped.val.kind = KIND_GIFT_WRAP /\ wrapped.val.tags = << <<"p", to>> >>
      /\ wrapped.val.content.text = seal.val
  BY <1>1 DEF sign_event, Unsigned, Ok, nip44_encrypt
<1> HIDE DEF wrapped
<1>6. NamesThreads(<< <<"p", to>> >>)
  <2>1. Tag_parse(<<"p", to>>).variant = "PubKey"
    <3>1. "p" \in SingleKeys /\ Variant["p"] = "PubKey"
      BY DEF SingleKeys, Variant
    <3>2. Tag_parse(<<"p", to>>) = [variant |-> Variant["p"], args |-> <<to>>]
      BY <3>1, PairIsParsed
    <3> QED
      BY <3>1, <3>2
  <2>2. IsList(<<"p", to>>) /\ IsList(<< <<"p", to>> >>)
    BY DEF IsList
  <2>3. DOMAIN << <<"p", to>> >> = 1..1 /\ << <<"p", to>> >>[1] = <<"p", to>>
    OBVIOUS
  <2> QED
    BY <2>1, <2>2, <2>3 DEF NamesThreads
<1>7. ~zap_receipt(wrapped.val).ok
  BY <1>5 DEF zap_receipt, Err, KIND_GIFT_WRAP, KIND_ZAP_RECEIPT
<1>8. ~Genuine(packed)
  BY <1>3 DEF Genuine, NoId
<1>9. Proper(wrapped.val)
  BY <1>1, <1>4, <1>5, <1>6, <1>7, <1>8 DEF Proper, Parsed, Rumor
<1> QED
  BY <1>2, <1>9

-----------------------------------------------------------------------------
(* What a step does to the rest of the agent.                              *)

\* The operations on each part of the state, with the events they are given.
NetMoves == \E api, w, e : Proper(e) /\ Publish(api, w, e)

QueueMoves == (\E batch \in Batches : Drain(batch)) \/ Handle

FromQueue(e) == queue # <<>> /\ e = Head(queue)

GreetingsMove ==
  \/ \E e : (e \in net \/ FromQueue(e)) /\ process_event(e)
  \/ \E key \in Keys : DiscoveryCall(key)

TalkMoves ==
  \/ \E e : FromQueue(e) /\ record_inbound(e)
  \/ \E t \in ThreadIds : \E e : Parsed(e) /\ record_event(t, e)
  \/ \E t \in ThreadIds : ThreadCall(t, Me)

Pays(e) ==
  LET receipt == zap_receipt(e)
  IN  receipt.ok /\ record_zap(receipt.val.zap_request.pubkey, receipt.val.amount_msats)

FilterMoves == (\E e \in net : Pays(e)) \/ (\E key \in Keys : FilterCall(key))

ReputationMoves ==
  \/ \E e \in net : \E dialects : add_zap_receipt_with_dialects(e, dialects)
  \/ \E count \in 1..AssignedBound : record_assignments(count)

AgentMoves ==
  /\ NetMoves \/ UNCHANGED <<authored, net, uses>>
  /\ QueueMoves \/ UNCHANGED queue
  /\ (\E e \in net : Unwrap(e)) \/ UNCHANGED unwrapped
  /\ GreetingsMove \/ UNCHANGED discoveryVars
  /\ TalkMoves \/ UNCHANGED threadVars
  /\ FilterMoves \/ UNCHANGED filterVars
  /\ ReputationMoves \/ UNCHANGED reputationVars
  /\ UNCHANGED <<filterVars, reputationVars>> \/ UNCHANGED now

\* A step that sends.
LEMMA SendMoves ==
  ASSUME NEW api, NEW w, NEW e, Proper(e), Publish(api, w, e),
         UNCHANGED <<discoveryVars, dialectVars, reputationVars, spamVars>>,
         TalkMoves \/ UNCHANGED threadVars
  PROVE  AgentMoves
<1>1. NetMoves
  BY DEF NetMoves
<1>2. UNCHANGED queue /\ UNCHANGED unwrapped
  BY DEF Publish
<1> QED
  BY <1>1, <1>2 DEF AgentMoves, spamVars

\* Every step of the agent moves its parts by these operations, and time
\* stands still while the filter or the reputation changes.
LEMMA AgentStep ==
  ASSUME now \in Nat, [Next]_vars
  PROVE  AgentMoves
<1>1. ASSUME NEW batch \in Batches, Drain(batch) PROVE AgentMoves
  BY <1>1 DEF Drain, AgentMoves, QueueMoves, spamVars
<1>2. CASE Handle
  <2>1. QueueMoves /\ UNCHANGED <<authored, net, uses, unwrapped>>
        /\ UNCHANGED <<dialectVars, reputationVars, spamVars>>
    BY <1>2 DEF QueueMoves, Handle
  <2>2. FromQueue(Head(queue))
    BY <1>2 DEF Handle, FromQueue
  <2>3. TalkMoves \/ UNCHANGED threadVars
    BY <1>2, <2>2 DEF Handle, TalkMoves
  <2>4. GreetingsMove \/ UNCHANGED discoveryVars
    BY <1>2, <2>2 DEF Handle, GreetingsMove
  <2> QED
    BY <2>1, <2>3, <2>4 DEF AgentMoves, spamVars
<1>3. ASSUME NEW e \in net, Announce(e) PROVE AgentMoves
  BY <1>3 DEF Announce, AgentMoves, GreetingsMove, spamVars, ownVars
<1>4. ASSUME NEW e \in net, ReceiveDialect(e) PROVE AgentMoves
  BY <1>4 DEF ReceiveDialect, AgentMoves, spamVars, ownVars
<1>5. ASSUME NEW e \in net, NEW dialects, ReceiveReceipt(e, dialects) PROVE AgentMoves
  <2>1. UNCHANGED <<ownVars, threadVars, discoveryVars, dialectVars, limiterVars>>
        /\ ReputationMoves
    BY <1>5 DEF ReceiveReceipt, ReputationMoves
  <2>2. FilterMoves \/ UNCHANGED filterVars
    BY <1>5 DEF ReceiveReceipt, FilterMoves, Pays
  <2> QED
    BY <2>1, <2>2 DEF AgentMoves, ownVars, limiterVars
<1>6. ASSUME NEW e \in net, Unwrap(e) PROVE AgentMoves
  BY <1>6 DEF Unwrap, AgentMoves, spamVars
<1>7. CASE Receive
  BY <1>1, <1>2, <1>3, <1>4, <1>5, <1>6, <1>7 DEF Receive
<1>8. CASE Send
  <2>1. ASSUME NEW o \in Outgoing, SendBuilt(o.api, o.what) PROVE AgentMoves
    BY <2>1, BuiltIsProper, SendMoves DEF SendBuilt
  <2>2. ASSUME NEW m \in Messages, SendMined(m) PROVE AgentMoves
    BY <2>2, MinedIsProper, SendMoves DEF SendMined
  <2>3. ASSUME NEW t \in ThreadIds, NEW verb, NEW to, Reply(t, verb, to) PROVE AgentMoves
    <3> DEFINE m == [continue_thread(t, verb) EXCEPT !.recipient = to]
               e == Signed(build(m).val)
    <3>1. /\ build(m).ok /\ Publish("message", m, e) /\ record_event(t, e)
          /\ UNCHANGED <<discoveryVars, dialectVars, reputationVars, spamVars>>
      BY <2>3 DEF Reply
    <3>2. Proper(e)
      BY <3>1, ReplyIsProper
    <3> HIDE DEF e, m
    <3>3. TalkMoves
      BY <3>1, <3>2 DEF TalkMoves, Proper
    <3> QED
      BY <3>1, <3>2, <3>3, SendMoves
  <2>4. ASSUME NEW m \in Messages, NEW to, NEW len,
               NEW time \in TimesAround(now, 1), SendGift(m, to, len, time)
        PROVE  AgentMoves
    <3>1. time \in Nat
      BY DEF TimesAround
    <3> DEFINE n == [m EXCEPT !.recipient = to]
               gift == gift_wrap(build(n).val, Me, to, now, Ephemeral, time)
    <3>2. /\ build(n).ok /\ gift.ok /\ Publish("gift", [to |-> to, len |-> len], gift.val)
          /\ UNCHANGED <<threadVars, discoveryVars, dialectVars, reputationVars, spamVars>>
      BY <2>4 DEF SendGift
    <3>3. Proper(gift.val)
      BY <3>1, <3>2, GiftIsProper
    <3> HIDE DEF gift
    <3> QED
      BY <3>2, <3>3, SendMoves
  <2> QED
    BY <1>8, <2>1, <2>2, <2>3, <2>4 DEF Send
<1>9. CASE Call
  <2>1. CASE ThreadCalls
    BY <2>1 DEF ThreadCalls, AgentMoves, TalkMoves, spamVars, ownVars
  <2>2. CASE DirectoryCalls
    BY <2>2 DEF DirectoryCalls, AgentMoves, GreetingsMove, spamVars, ownVars
  <2>3. CASE FilterCalls
    BY <2>3 DEF FilterCalls, AgentMoves, FilterMoves, ownVars, limiterVars
  <2>4. CASE Assignments
    BY <2>4 DEF Assignments, AgentMoves, ReputationMoves, spamVars, ownVars, limiterVars
  <2>5. CASE LimiterCalls
    BY <2>5 DEF LimiterCalls, AgentMoves, ownVars
  <2> QED
    BY <1>9, <2>1, <2>2, <2>3, <2>4, <2>5 DEF Call
<1>10. CASE UNCHANGED vars
  BY <1>10 DEF vars, AgentMoves, spamVars, ownVars
<1> QED
  BY <1>7, <1>8, <1>9, <1>10 DEF Next

\* What is published stays well formed, and what bears a signature was
\* authored.
LEMMA NetKept == Spec => []NetInv
<1>1. Init => NetInv
  <2> SUFFICES ASSUME Init PROVE NetInv
    OBVIOUS
  <2>1. PICK w \in Worlds :
          authored = w.authored /\ net = w.authored \union w.damaged /\ uses = w.uses
    BY DEF Init
  <2> QED
    BY <2>1, WorldAssumption DEF NetInv, Rumor
<1>2. NetInv /\ LimiterInv /\ [Next]_vars => NetInv'
  <2> SUFFICES ASSUME NetInv, LimiterInv, [Next]_vars PROVE NetInv'
    OBVIOUS
  <2>1. now \in Nat
    BY SpamAssumption DEF LimiterInv, LimiterTypes
  <2>2. NetMoves \/ UNCHANGED <<authored, net, uses>>
    BY <2>1, AgentStep DEF AgentMoves
  <2>3. CASE NetMoves
    BY <2>3, PublishKeepsNet DEF NetMoves
  <2>4. CASE UNCHANGED <<authored, net, uses>>
    BY <2>4 DEF NetInv
  <2> QED
    BY <2>2, <2>3, <2>4
<1> QED
  BY <1>1, <1>2, LimiterKept, PTL DEF Spec

-----------------------------------------------------------------------------
(* What is unwrapped and what waits.                                       *)

\* A gift that gives this, sealed by the sender it is given with.
Sealed(e, u) ==
  LET seal == e.content.text
  IN  /\ Gives(unwrap_gift(e, Me), u)
      /\ seal.sig = <<u.sender_pubkey, compute_event_id(seal)>>

\* What came out of gifts was sealed by its sender, and bears a signature
\* only if its author published it.
UnwrappedInv ==
  \A u \in unwrapped :
    /\ \E e \in authored : Sealed(e, u)
    /\ Genuine(u.rumor) => u.rumor \in authored

\* What may wait in the queue.
Waiting == {e \in authored : check_dialect(e, InstalledNames)}

QueueInv == queue \in Seq(Waiting) /\ Len(queue) <= QueueBound

ArrivalInv == NetInv /\ DialectInv /\ UnwrappedInv /\ QueueInv

\* What passes verification was signed by its author as it is.
LEMMA VerifiedIsGenuine ==
  ASSUME NEW e, verify_event(e).ok
  PROVE  Genuine(e) /\ verify_event(e) = Ok(e)
BY DEF verify_event, Genuine, Err

\* A gift opens only with the keys of both ends, and gives what was sealed.
LEMMA GiftOpens ==
  ASSUME NEW e, unwrap_gift(e, Me).ok
  PROVE  /\ ForMe(e) /\ e.content.text.content.form = "nip44"
         /\ unwrap_gift(e, Me).val = [rumor |-> Rumor(e),
                                      sender_pubkey |-> e.content.text.pubkey]
         /\ e.content.text.sig = <<e.content.text.pubkey, compute_event_id(e.content.text)>>
<1> DEFINE seal == e.content.text
           outer == conversation_key(Me, e.pubkey)
           opened == nip44_decrypt(outer.val, e.content)
           inner == conversation_key(Me, opened.val.pubkey)
           rumor == nip44_decrypt(inner.val, opened.val.content)
<1>1. /\ e.kind = KIND_GIFT_WRAP /\ outer.ok /\ opened.ok
      /\ verify_event(opened.val).ok /\ inner.ok /\ rumor.ok
      /\ unwrap_gift(e, Me) = Ok([rumor |-> rumor.val, sender_pubkey |-> opened.val.pubkey])
  BY DEF unwrap_gift, Err
<1>2. outer.val = {Me, e.pubkey}
  BY <1>1 DEF conversation_key, Ok, Err
<1>3. e.content.form = "nip44" /\ e.content.key = {Me, e.pubkey} /\ opened.val = seal
  BY <1>1, <1>2 DEF nip44_decrypt, Ok, Err
<1>4. seal.content.form = "nip44" /\ rumor.val = seal.content.text
  BY <1>1, <1>3 DEF nip44_decrypt, Ok, Err
<1>5. Genuine(seal)
  BY <1>1, <1>3, VerifiedIsGenuine
<1> QED
  BY <1>1, <1>3, <1>4, <1>5 DEF ForMe, Rumor, Genuine, Ok

\* Whether a gift opens depends on its kind, its author and its content.
LEMMA SameOpens ==
  ASSUME NEW a, NEW e, a.kind = e.kind, a.pubkey = e.pubkey, a.content = e.content
  PROVE  unwrap_gift(a, Me) = unwrap_gift(e, Me)
BY DEF unwrap_gift

\* Unwrapping adds what the sender of the seal wrote.
LEMMA UnwrapKeeps ==
  ASSUME NetInv, UnwrappedInv, NEW e \in net, Unwrap(e)
  PROVE  UnwrappedInv'
<1> DEFINE opened == unwrap_gift(e, Me)
<1>1. authored' = authored
      /\ unwrapped' = IF opened.ok THEN unwrapped \union {opened.val} ELSE unwrapped
  BY DEF Unwrap
<1>2. CASE ~opened.ok
  BY <1>1, <1>2 DEF UnwrappedInv
<1>3. CASE opened.ok
  <2>1. /\ ForMe(e) /\ e.content.text.content.form = "nip44"
        /\ opened.val = [rumor |-> Rumor(e), sender_pubkey |-> e.content.text.pubkey]
        /\ e.content.text.sig = <<e.content.text.pubkey, compute_event_id(e.content.text)>>
    BY <1>3, GiftOpens
  <2>2. PICK a \in authored : a.kind = e.kind /\ a.pubkey = e.pubkey /\ a.content = e.content
    BY <2>1 DEF NetInv
  <2>3. unwrap_gift(a, Me) = opened
    BY <2>2, SameOpens
  <2>4. Sealed(a, opened.val)
    BY <1>3, <2>1, <2>2, <2>3 DEF Sealed, Gives
  <2>5. opened.val.rumor = Rumor(e)
    BY <2>1
  <2>6. Genuine(opened.val.rumor) => opened.val.rumor \in authored
    BY <2>1, <2>5 DEF NetInv
  <2> HIDE DEF opened
  <2> QED
    BY <1>1, <1>3, <2>2, <2>4, <2>6 DEF UnwrappedInv
<1> QED
  BY <1>2, <1>3

\* A dialect that is known stays known.
LEMMA NamesGrow ==
  ASSUME DialectInv, [Next]_vars
  PROVE  InstalledNames \subseteq InstalledNames'
<1>1. registry' = registry \/ \E d : registry' = Append(registry, d)
  BY StepOfParts DEF PartsMove, DialectsMove, Install, install_dialect_event,
                     install_dialect_event_verified, dialectVars
<1>2. ASSUME NEW d, registry' = Append(registry, d) PROVE InstalledNames \subseteq InstalledNames'
  <2>1. PICK S : registry \in Seq(S)
    BY DEF DialectInv
  <2>2. registry \in Seq(S \union {d})
    BY <2>1
  <2>3. \A i \in DOMAIN registry : i \in DOMAIN registry' /\ registry'[i] = registry[i]
    BY <1>2, <2>2
  <2> QED
    BY <2>3 DEF InstalledNames
<1> QED
  BY <1>1, <1>2 DEF InstalledNames

\* What may wait in the queue may go on waiting.
LEMMA WaitingGrows ==
  ASSUME DialectInv, NetInv, [Next]_vars, authored \subseteq authored'
  PROVE  Waiting \subseteq Waiting'
BY NamesGrow DEF Waiting, check_dialect

\* What the inbox accepts, its author published, with known dialects.
LEMMA AcceptedWaits ==
  ASSUME NetInv, UnwrappedInv, NEW e \in net \union Rumors, process(e, InstalledNames).ok
  PROVE  e \in Waiting
<1>1. verify_event(e).ok /\ check_dialect(e, InstalledNames)
  BY DEF process, Err
<1>2. Genuine(e)
  BY <1>1, VerifiedIsGenuine
<1>3. e \in authored
  BY <1>2 DEF NetInv, UnwrappedInv, Rumors
<1> QED
  BY <1>1, <1>3 DEF Waiting

\* A batch adds to the queue only what the inbox accepts.
LEMMA DrainKeeps ==
  ASSUME NetInv, UnwrappedInv, QueueInv, NEW batch \in Batches, Drain(batch)
  PROVE  queue' \in Seq(Waiting) /\ Len(queue') <= QueueBound
<1> DEFINE All == net \union Rumors
           admitting == {i \in DOMAIN batch : Uses("filter") => check_inbound(batch[i]).ok}
           admitted == Picked(batch, admitting)
           accepting == {i \in DOMAIN admitted : process(admitted[i], InstalledNames).ok}
           accepted == Picked(admitted, accepting)
<1>1. batch \in Seq(All)
  BY DEF Batches
<1>2. admitted \in Seq(All)
  BY <1>1, PickedLists
<1>3. queue' = queue \o accepted /\ Len(queue) + Len(accepted) <= QueueBound
  BY DEF Drain, process_batch, Filtered
<1> HIDE DEF admitted
<1>4. accepted \in Seq({admitted[i] : i \in accepting \cap DOMAIN admitted})
  BY <1>2, PickedFrom
<1>5. \A i \in accepting : admitted[i] \in Waiting
  BY <1>2, AcceptedWaits
<1>6. {admitted[i] : i \in accepting \cap DOMAIN admitted} \subseteq Waiting
  BY <1>5
<1> HIDE DEF accepting, accepted
<1>7. accepted \in Seq(Waiting)
  BY <1>4, <1>6
<1> QED
  BY <1>3, <1>7, AgentAssumption DEF QueueInv

\* Handling a message takes it off the queue.
LEMMA HandleKeeps ==
  ASSUME QueueInv, Handle
  PROVE  queue' \in Seq(Waiting) /\ Len(queue') <= QueueBound
<1>1. queue # <<>> /\ queue' = Tail(queue)
  BY DEF Handle
<1>2. queue \in Seq(Waiting) /\ Len(queue) <= QueueBound
  BY DEF QueueInv
<1> QED
  BY <1>1, <1>2, AgentAssumption

\* The queue and the unwrapped messages, in every state.
LEMMA ArrivalKept == Spec => []ArrivalInv
<1>1. Init => UnwrappedInv /\ QueueInv
  BY AgentAssumption DEF Init, UnwrappedInv, QueueInv
<1>2. ArrivalInv /\ LimiterInv /\ [Next]_vars => UnwrappedInv' /\ QueueInv'
  <2> SUFFICES ASSUME ArrivalInv, LimiterInv, [Next]_vars PROVE UnwrappedInv' /\ QueueInv'
    OBVIOUS
  <2>1. now \in Nat
    BY SpamAssumption DEF LimiterInv, LimiterTypes
  <2>2. AgentMoves
    BY <2>1, AgentStep
  <2>3. authored \subseteq authored'
    BY <2>2 DEF AgentMoves, NetMoves, Publish
  <2>4. Waiting \subseteq Waiting'
    BY <2>3, WaitingGrows DEF ArrivalInv
  <2>5. ASSUME UNCHANGED unwrapped PROVE UnwrappedInv'
    <3>1. \A e, u : (Sealed(e, u)' <=> Sealed(e, u)) /\ (Genuine(u.rumor)' <=> Genuine(u.rumor))
      OBVIOUS
    <3>2. UnwrappedInv
      BY DEF ArrivalInv
    <3> QED
      BY <2>3, <2>5, <3>1, <3>2 DEF UnwrappedInv
  <2>6. ASSUME \E e \in net : Unwrap(e) PROVE UnwrappedInv'
    <3>1. PICK e \in net : Unwrap(e)
      BY <2>6
    <3>2. NetInv /\ UnwrappedInv
      BY DEF ArrivalInv
    <3> QED
      BY <3>1, <3>2, UnwrapKeeps
  <2>7. queue' \in Seq(Waiting) /\ Len(queue') <= QueueBound
    BY <2>2, DrainKeeps, HandleKeeps DEF AgentMoves, QueueMoves, ArrivalInv, QueueInv
  <2>8. QueueInv'
    BY <2>4, <2>7 DEF QueueInv
  <2> QED
    BY <2>2, <2>5, <2>6, <2>8 DEF AgentMoves
<1> QED
  BY <1>1, <1>2, LimiterKept, NetKept, DialectsKept, PTL DEF Spec, ArrivalInv

\* For any worlds, batches and calls: a message is accepted only as its author
\* made it, with dialects that stay known while it waits, and what is unwrapped
\* was sealed by the sender it is given with.
THEOREM ReceivedCorrect == Spec => []ReceivedIsAuthored
<1>1. ArrivalInv => ReceivedIsAuthored
  <2> SUFFICES ASSUME ArrivalInv PROVE ReceivedIsAuthored
    OBVIOUS
  <2>1. \A i \in DOMAIN queue : queue[i] \in Waiting
    BY DEF ArrivalInv, QueueInv
  <2>2. \A i \in DOMAIN queue : queue[i] \in authored /\ check_dialect(queue[i], InstalledNames)
    BY <2>1 DEF Waiting
  <2>3. \A u \in unwrapped : \E e \in authored : Sealed(e, u)
    BY DEF ArrivalInv, UnwrappedInv
  <2> QED
    BY <2>2, <2>3 DEF ReceivedIsAuthored, Sealed
<1> QED
  BY <1>1, ArrivalKept, PTL

-----------------------------------------------------------------------------
(* Types.                                                                  *)

\* The types of each part.
DirectoryTypes == DOMAIN agents \subseteq Keys

ThreadTypes ==
  /\ DOMAIN threads \subseteq ThreadIds
  /\ \A t \in Tracked : threads[t].state \in ThreadState
  /\ Dated

FilterTypes ==
  allowed \subseteq Keys /\ ledger \in [Keys -> 0..MaxLedger] /\ threshold \in Nat

\* The directory lists keys.
LEMMA GreetingsKeepTypes ==
  ASSUME DirectoryTypes, NetInv, QueueInv, GreetingsMove
  PROVE  DirectoryTypes'
<1>1. ASSUME NEW e, e \in net \/ FromQueue(e) PROVE e.pubkey \in Keys
  <2>1. e \in net
    <3>1. FromQueue(e) => e \in Waiting
      BY DEF FromQueue, QueueInv
    <3> QED
      BY <1>1, <3>1 DEF Waiting, NetInv
  <2> QED
    BY <2>1 DEF NetInv, Parsed
<1>2. ASSUME NEW e, e \in net \/ FromQueue(e), process_event(e) PROVE DirectoryTypes'
  <2>1. e.pubkey \in Keys
    BY <1>1, <1>2
  <2> QED
    BY <1>2, <2>1 DEF process_event, DirectoryTypes, Without, Listed, discoveryVars
<1>3. ASSUME NEW key, DiscoveryCall(key) PROVE DirectoryTypes'
  BY <1>3 DEF DiscoveryCall, evict_stale, remove_agent, Drop, Without, Listed, DirectoryTypes
<1> QED
  BY <1>2, <1>3 DEF GreetingsMove

\* The thread of an event that names one.
LEMMA ThreadIsNamed ==
  ASSUME NEW e, Parsed(e), Tagged(e, "Thread") # {}
  PROVE  FindTag(e, "Thread") \in ThreadIds
<1> DEFINE places == Tagged(e, "Thread")
           first == CHOOSE i \in places : \A j \in places : i <= j
<1>1. IsList(e.tags)
  BY DEF Parsed, NamesThreads
<1>2. places \subseteq DOMAIN e.tags /\ DOMAIN e.tags \subseteq Nat
  BY <1>1, ListIsSeq DEF Tagged
<1>3. \E i \in places : \A j \in places : i <= j
  BY <1>2, LeastNumber
<1>4. first \in places
  BY <1>3
<1>5. FindTag(e, "Thread") = Tag_parse(e.tags[first]).args[1]
  BY DEF FindTag
<1> HIDE DEF first
<1> QED
  BY <1>4, <1>5 DEF Parsed, NamesThreads, Tagged

\* An event leaves the state of its thread alone.
LEMMA StateKept ==
  ASSUME NEW thread, NEW heard, ThreadOK(thread, heard), NEW event, NEW state
  PROVE  /\ WithEvent(thread, event).state = thread.state
         /\ [thread EXCEPT !.state = state].state = state
         /\ [WithEvent(thread, event) EXCEPT !.state = state].state = state
<1>1. ASSUME NEW any, IsThread(any) PROVE "state" \in DOMAIN any
  BY <1>1 DEF IsThread
<1>2. IsThread(thread) /\ IsThread(WithEvent(thread, event))
  BY WithEventIsOK DEF ThreadOK
<1> QED
  BY <1>1, <1>2 DEF WithEvent

\* Recording a dated event on a thread.
LEMMA HearingKeepsTypes ==
  ASSUME ThreadTypes, ThreadInv, NEW t \in ThreadIds, NEW e, e.created_at \in Nat,
         NEW thread, thread.state \in ThreadState, Put(t, thread), Note(t, e)
  PROVE  ThreadTypes'
<1> DEFINE heard == Append(Heard(t), e)
<1>1. /\ DOMAIN threads' = Tracked \union {t}
      /\ threads'[t] = thread /\ recorded'[t] = heard
      /\ \A u \in Tracked : u # t => threads'[u] = threads[u] /\ recorded'[u] = recorded[u]
  BY DEF Put, Note, ThreadInv
<1>2. IsSequence(Heard(t)) /\ \A i \in DOMAIN Heard(t) : Heard(t)[i].created_at \in Nat
  BY NewThreadIsOK DEF Heard, ThreadInv, ThreadOK, Chained, ThreadTypes, Dated
<1>3. \A i \in DOMAIN heard : heard[i].created_at \in Nat
  BY <1>2, Appended
<1> HIDE DEF heard
<1>4. Dated'
  BY <1>1, <1>3 DEF ThreadTypes, Dated, Tracked
<1>5. DOMAIN threads' \subseteq ThreadIds /\ \A u \in Tracked' : threads'[u].state \in ThreadState
  BY <1>1 DEF ThreadTypes, Tracked
<1> QED
  BY <1>4, <1>5 DEF ThreadTypes

\* The state of a thread is one of its states after any event.
LEMMA EntryIsTyped ==
  ASSUME ThreadTypes, ThreadInv, NEW t, NEW e
  PROVE  LET next == WithEvent(EntryFor(t, e.pubkey), e)
         IN  /\ next.state \in ThreadState
             /\ [next EXCEPT !.state = "Cancelled"].state \in ThreadState
<1>1. PICK heard : ThreadOK(EntryFor(t, e.pubkey), heard)
  BY NewThreadIsOK DEF EntryFor, ThreadInv
<1>2. EntryFor(t, e.pubkey).state \in ThreadState
  BY DEF EntryFor, ThreadTypes, NewThread, ThreadState
<1> QED
  BY <1>1, <1>2, StateKept DEF ThreadState

\* The threads, after any of their operations.
LEMMA TalkKeepsTypes ==
  ASSUME ThreadTypes, ThreadInv, NetInv, QueueInv, TalkMoves
  PROVE  ThreadTypes'
<1>1. ASSUME NEW e, FromQueue(e) PROVE Parsed(e)
  <2>1. e \in Waiting
    BY <1>1 DEF FromQueue, QueueInv
  <2> QED
    BY <2>1 DEF Waiting, NetInv
<1>2. ASSUME NEW e, FromQueue(e), record_inbound(e) PROVE ThreadTypes'
  <2> DEFINE t == FindTag(e, "Thread")
             next == WithEvent(EntryFor(t, e.pubkey), e)
             ended == [next EXCEPT !.state = "Cancelled"]
  <2>1. CASE Tagged(e, "Thread") = {}
    BY <1>2, <2>1 DEF record_inbound, threadVars, ThreadTypes, Dated, Tracked
  <2>2. CASE Tagged(e, "Thread") # {}
    <3>1. Note(t, e) /\ (Put(t, next) \/ Put(t, ended))
      BY <1>2, <2>2 DEF record_inbound
    <3>2. t \in ThreadIds /\ e.created_at \in Nat
      BY <1>1, <1>2, <2>2, ThreadIsNamed DEF Parsed
    <3>3. next.state \in ThreadState /\ ended.state \in ThreadState
      BY EntryIsTyped
    <3> HIDE DEF t, next, ended
    <3> QED
      BY <3>1, <3>2, <3>3, HearingKeepsTypes
  <2> QED
    BY <2>1, <2>2
<1>3. ASSUME NEW t \in ThreadIds, NEW e, Parsed(e), record_event(t, e) PROVE ThreadTypes'
  <2> DEFINE next == WithEvent(EntryFor(t, e.pubkey), e)
  <2>1. Put(t, next) /\ Note(t, e) /\ e.created_at \in Nat /\ next.state \in ThreadState
    BY <1>3, EntryIsTyped DEF record_event, Parsed
  <2> HIDE DEF next
  <2> QED
    BY <2>1, HearingKeepsTypes
<1>4. ASSUME NEW t \in ThreadIds, NEW x, open_thread_with_id(t, x) PROVE ThreadTypes'
  <2>1. /\ DOMAIN threads' = Tracked \union {t}
        /\ \A u \in Tracked : threads'[u] = threads[u] /\ recorded'[u] = recorded[u]
        /\ t \notin Tracked => threads'[t] = NewThread(x) /\ recorded'[t] = <<>>
    BY <1>4 DEF open_thread_with_id, Heard
  <2>2. NewThread(x).state \in ThreadState
    BY DEF NewThread, ThreadState
  <2> QED
    BY <2>1, <2>2 DEF ThreadTypes, Dated, Tracked
<1>5. ASSUME NEW t, NEW state \in ThreadState, set_state(t, state) PROVE ThreadTypes'
  <2>1. /\ t \in Tracked /\ DOMAIN threads' = Tracked /\ recorded' = recorded
        /\ threads'[t] = [threads[t] EXCEPT !.state = state]
        /\ \A u \in Tracked : u # t => threads'[u] = threads[u]
    BY <1>5 DEF set_state, Put
  <2>2. threads'[t].state = state
    BY <2>1, StateKept DEF ThreadInv
  <2> QED
    BY <2>1, <2>2 DEF ThreadTypes, Dated, Tracked
<1>6. ASSUME NEW t, remove(t) PROVE ThreadTypes'
  BY <1>6 DEF remove, ThreadTypes, Dated, Tracked
<1>7. ASSUME NEW t \in ThreadIds, NEW x, ThreadCall(t, x) PROVE ThreadTypes'
  BY <1>4, <1>5, <1>6, <1>7 DEF ThreadCall, complete, cancel, ThreadState
<1> QED
  BY <1>2, <1>3, <1>7 DEF TalkMoves

\* The amount of a receipt is a u64, whatever tags its request has.
LEMMA AmountIsRead ==
  ASSUME NEW e, Parsed(e), zap_receipt(e).ok
  PROVE  zap_receipt(e).val.amount_msats \in 0..MaxU64 /\ zap_receipt(e).val.event = e
<1> DEFINE request == zap_receipt(e).val.zap_request
           tags == request.tags
           S == {tags[i] : i \in DOMAIN tags}
           found == Filtered(tags, LAMBDA raw : Len(raw) >= 2 /\ raw[1] = "amount")
           values == Values(tags, "amount")
           T == {values[i] : i \in DOMAIN values}
           places == {i \in DOMAIN values : values[i] \in 0..MaxU64}
           amounts == Filtered(values, LAMBDA a : a \in 0..MaxU64)
<1>1. /\ zap_receipt(e).val.event = e
      /\ amounts # <<>> /\ zap_receipt(e).val.amount_msats = amounts[1]
  BY DEF zap_receipt, Ok, Err
<1>2. tags \in Seq(S)
  BY ListIsSeq DEF Parsed
<1>3. found \in Seq(S)
  BY <1>2, PickedLists DEF Filtered
<1>4. values = [i \in DOMAIN found |-> found[i][2]]
  BY DEF Values
<1> HIDE DEF tags, found, values
<1>5. values \in Seq(T)
  BY <1>3, <1>4
<1>6. amounts = Picked(values, places)
  BY DEF Filtered
<1>7. amounts \in Seq({values[i] : i \in places \cap DOMAIN values})
  BY <1>5, <1>6, PickedFrom
<1> HIDE DEF amounts
<1>8. amounts[1] \in {values[i] : i \in places \cap DOMAIN values}
  BY <1>1, <1>7
<1> QED
  BY <1>1, <1>8

\* The ledger stays within a u64, however much is paid.
LEMMA FilterKeepsTypes ==
  ASSUME FilterTypes, NetInv, FilterMoves
  PROVE  FilterTypes'
<1>1. ASSUME NEW e \in net, Pays(e) PROVE FilterTypes'
  <2> DEFINE key == zap_receipt(e).val.zap_request.pubkey
             msats == zap_receipt(e).val.amount_msats
  <2>1. zap_receipt(e).ok /\ record_zap(key, msats)
    BY <1>1 DEF Pays
  <2>2. msats \in Nat
    BY <2>1, AmountIsRead, ReputationAssumption DEF NetInv
  <2> HIDE DEF key, msats
  <2>3. \A k \in Keys : Smaller(ledger[k] + msats, MaxLedger) \in 0..MaxLedger
    BY <2>2, SpamAssumption DEF FilterTypes, Smaller
  <2> QED
    BY <2>1, <2>3 DEF record_zap, FilterTypes, settings
<1>2. ASSUME NEW key \in Keys, FilterCall(key) PROVE FilterTypes'
  BY <1>2, SpamAssumption
  DEF FilterCall, allow, disallow, clear, clear_all, FilterTypes, settings
<1> QED
  BY <1>1, <1>2 DEF FilterMoves

\* The limiter panics or it does not.
LEMMA PanickedIsBoolean ==
  ASSUME panicked \in BOOLEAN, LimiterStep \/ UNCHANGED limiterVars
  PROVE  panicked' \in BOOLEAN
BY DEF LimiterStep, limiterVars, Tick, CheckOk, CheckLimited, time_until_ready, TellWait,
       PanicWaiting, reset, set_relay_policy

\* The other variables.
FlagTypes == panicked \in BOOLEAN /\ assigned_count \in 0..AssignedBound

TypeInv ==
  /\ ArrivalInv /\ ThreadInv /\ LimiterInv
  /\ DirectoryTypes /\ ThreadTypes /\ FilterTypes /\ FlagTypes

\* All types, by induction over the steps.
LEMMA TypesKept == Spec => []TypeInv
<1>1. Init => DirectoryTypes /\ ThreadTypes /\ FilterTypes /\ FlagTypes
  <2>1. Init => DirectoryTypes
    BY DEF Init, DiscoveryInit, DirectoryTypes
  <2>2. Init => ThreadTypes
    BY DEF Init, ThreadInit, ThreadTypes, Tracked, Dated
  <2>3. Init => FilterTypes
    <3>1. Init => threshold \in Nat
      BY WorldAssumption DEF Init
    <3>2. Init => allowed \subseteq Keys /\ ledger \in [Keys -> 0..MaxLedger]
      BY SpamAssumption DEF Init, FilterInit
    <3> QED
      BY <3>1, <3>2 DEF FilterTypes
  <2>4. Init => FlagTypes
    <3>1. Init => panicked \in BOOLEAN
      BY Zenon DEF Init, LimiterInit
    <3>2. Init => assigned_count \in 0..AssignedBound
      <4>1. Init => assigned_count = 0
        BY DEF Init, ReputationInit
      <4> QED
        BY <4>1, ReputationAssumption
    <3> QED
      BY <3>1, <3>2 DEF FlagTypes
  <2> QED
    BY <2>1, <2>2, <2>3, <2>4
<1>2. TypeInv /\ [Next]_vars => DirectoryTypes' /\ ThreadTypes' /\ FilterTypes' /\ FlagTypes'
  <2> SUFFICES ASSUME TypeInv, [Next]_vars
               PROVE  DirectoryTypes' /\ ThreadTypes' /\ FilterTypes' /\ FlagTypes'
    OBVIOUS
  <2>1. /\ NetInv /\ QueueInv /\ ThreadInv
        /\ DirectoryTypes /\ ThreadTypes /\ FilterTypes
        /\ panicked \in BOOLEAN /\ assigned_count \in 0..AssignedBound
    BY DEF TypeInv, ArrivalInv, FlagTypes
  <2>2. AgentMoves
    BY AgentStep, SpamAssumption DEF TypeInv, LimiterInv, LimiterTypes
  <2>3. DirectoryTypes'
    BY <2>1, <2>2, GreetingsKeepTypes DEF AgentMoves, discoveryVars, DirectoryTypes
  <2>4. ThreadTypes'
    <3>1. ASSUME UNCHANGED threadVars PROVE ThreadTypes'
      BY <2>1, <3>1 DEF threadVars, ThreadTypes, Dated, Tracked
    <3> QED
      BY <2>1, <2>2, <3>1, TalkKeepsTypes DEF AgentMoves
  <2>5. FilterTypes'
    BY <2>1, <2>2, FilterKeepsTypes DEF AgentMoves, filterVars, FilterTypes
  <2>6. panicked' \in BOOLEAN
    BY <2>1, StepOfParts, PanickedIsBoolean DEF PartsMove
  <2>7. assigned_count' \in 0..AssignedBound
    BY <2>1, <2>2, ReputationAssumption
    DEF AgentMoves, ReputationMoves, add_zap_receipt_with_dialects, record_assignments,
        reputationVars
  <2> QED
    BY <2>3, <2>4, <2>5, <2>6, <2>7 DEF FlagTypes
<1> QED
  BY <1>1, <1>2, ArrivalKept, ThreadsCorrect, LimiterKept, PTL DEF Spec, TypeInv

\* For any worlds, keys, policies and bounds, the variables of the agent have
\* their types, every date is a number, and no bound is exceeded.
THEOREM TypesCorrect == Spec => []AgentTypeOK
<1>1. TypeInv => AgentTypeOK
  BY DEF TypeInv, ArrivalInv, NetInv, QueueInv, DialectInv, DirectoryTypes, ThreadTypes,
         FilterTypes, LimiterInv, LimiterTypes, Bucket, FlagTypes, AgentTypeOK
<1> QED
  BY <1>1, TypesKept, PTL

\* Chain, participants and activity of every thread are those of the messages
\* it heard, in whatever order and however often they came.
THEOREM ThreadHistoryCorrect == Spec => []ThreadHistory
<1>1. TypeInv => Dated
  BY DEF TypeInv, ThreadTypes
<1> QED
  BY <1>1, TypesKept, HistoryWhenDated, PTL

-----------------------------------------------------------------------------
(* The receipts counted, and the numbers of the summary.                   *)

Count == Cardinality(DOMAIN receipts)
Paid == [id \in DOMAIN receipts |-> receipts[id].amount_msats]
PaidInAll == Total(Paid, DOMAIN receipts)
Times == {0} \union {receipts[id].event.created_at : id \in DOMAIN receipts}

\* The completion rate, of a number of receipts and of assignments.
Share(completed, assigned) ==
  LET tasks == IF assigned > completed THEN assigned ELSE completed
  IN  IF tasks = 0 THEN 100 ELSE Min({100, (completed * 100) \div tasks})

\* Each receipt counted was fed under its id, dated and with a u64 as its amount;
\* whatever counts and was fed has a receipt, and these are finitely many.
CountInv ==
  /\ IsFiniteSet(DOMAIN receipts)
  /\ \A id \in DOMAIN receipts :
       /\ receipts[id].amount_msats \in 0..MaxU64
       /\ receipts[id].event.created_at \in Nat
       /\ \E e \in fed : Counted(e) /\ e.id = id /\ receipts[id] = zap_receipt(e).val
  /\ \A e \in fed : Counted(e) => e.id \in DOMAIN receipts
  /\ DOMAIN receipt_dialects \subseteq DOMAIN receipts

\* A receipt that is counted, and one more event seen otherwise.
CountsReceipt(e) ==
  /\ Counted(e) /\ e.id \notin DOMAIN receipts
  /\ receipts' = With(receipts, e.id, zap_receipt(e).val)

\* A receipt is counted, or nothing changes but what was seen.
LEMMA AddMoves ==
  ASSUME NEW e, NEW given, add_zap_receipt_with_dialects(e, given)
  PROVE  /\ fed' = fed \union {e} /\ assigned_count' = assigned_count
         /\ \/ /\ UNCHANGED <<receipts, receipt_dialects>>
               /\ Counted(e) => e.id \in DOMAIN receipts
            \/ /\ CountsReceipt(e)
               /\ DOMAIN receipt_dialects' \subseteq DOMAIN receipt_dialects \union {e.id}
BY DEF add_zap_receipt_with_dialects, CountsReceipt, With

\* Feeding a receipt keeps each payment counted once.
LEMMA AddKeepsCount ==
  ASSUME CountInv, NEW e, Parsed(e), NEW given, add_zap_receipt_with_dialects(e, given)
  PROVE  CountInv'
<1>1. fed' = fed \union {e}
  BY AddMoves
<1>2. CASE UNCHANGED <<receipts, receipt_dialects>> /\ (Counted(e) => e.id \in DOMAIN receipts)
  BY <1>1, <1>2 DEF CountInv
<1>3. CASE /\ CountsReceipt(e)
           /\ DOMAIN receipt_dialects' \subseteq DOMAIN receipt_dialects \union {e.id}
  <2>1. /\ DOMAIN receipts' = DOMAIN receipts \union {e.id}
        /\ receipts'[e.id] = zap_receipt(e).val
        /\ \A id \in DOMAIN receipts : receipts'[id] = receipts[id]
    BY <1>3 DEF CountsReceipt, With
  <2>2. Counted(e) /\ zap_receipt(e).ok
    BY <1>3 DEF CountsReceipt, Counted
  <2>3. /\ zap_receipt(e).val.amount_msats \in 0..MaxU64
        /\ zap_receipt(e).val.event.created_at \in Nat
    BY <2>2, AmountIsRead DEF Parsed
  <2>4. IsFiniteSet(DOMAIN receipts')
    BY <2>1, FS_AddElement DEF CountInv
  <2>5. ASSUME NEW id \in DOMAIN receipts'
        PROVE  /\ receipts'[id].amount_msats \in 0..MaxU64
               /\ receipts'[id].event.created_at \in Nat
               /\ \E x \in fed' : /\ Counted(x) /\ x.id = id
                                  /\ receipts'[id] = zap_receipt(x).val
    <3>1. CASE id \in DOMAIN receipts
      BY <1>1, <2>1, <3>1 DEF CountInv
    <3>2. CASE id = e.id
      BY <1>1, <2>1, <2>2, <2>3, <3>2
    <3> QED
      BY <2>1, <3>1, <3>2
  <2>6. \A x \in fed' : Counted(x) => x.id \in DOMAIN receipts'
    BY <1>1, <2>1 DEF CountInv
  <2>7. DOMAIN receipt_dialects' \subseteq DOMAIN receipts'
    BY <1>3, <2>1 DEF CountInv
  <2>8. \A x : Counted(x)' <=> Counted(x)
    OBVIOUS
  <2> QED
    BY <2>4, <2>5, <2>6, <2>7, <2>8 DEF CountInv
<1> QED
  BY <1>2, <1>3, AddMoves

\* The receipts, in every state.
LEMMA CountKept == Spec => []CountInv
<1>1. Init => CountInv
  BY FS_EmptySet DEF Init, ReputationInit, CountInv
<1>2. CountInv /\ TypeInv /\ [Next]_vars => CountInv'
  <2> SUFFICES ASSUME CountInv, TypeInv, [Next]_vars PROVE CountInv'
    OBVIOUS
  <2>1. AgentMoves
    BY AgentStep, SpamAssumption DEF TypeInv, LimiterInv, LimiterTypes
  <2>2. \A e \in net : Parsed(e)
    BY DEF TypeInv, ArrivalInv, NetInv
  <2>3. ASSUME UNCHANGED <<receipts, receipt_dialects, fed>> PROVE CountInv'
    BY <2>3 DEF CountInv
  <2>4. CASE ReputationMoves
    BY <2>2, <2>3, <2>4, AddKeepsCount DEF ReputationMoves, record_assignments
  <2>5. CASE UNCHANGED reputationVars
    BY <2>3, <2>5 DEF reputationVars
  <2> QED
    BY <2>1, <2>4, <2>5 DEF AgentMoves
<1> QED
  BY <1>1, <1>2, TypesKept, PTL DEF Spec

\* The sum of the summary is the total that the lemmas are about.
LEMMA EarnedIsTotal ==
  ASSUME IsFiniteSet(DOMAIN receipts)
  PROVE  MapThenSumSet(Amount, DOMAIN receipts) = PaidInAll
<1> DEFINE S == DOMAIN receipts
           Table(it) == it = [s \in SUBSET S |->
                               IF s = {} THEN 0
                               ELSE Amount(CHOOSE x \in s : TRUE)
                                      + it[s \ {CHOOSE x \in s : TRUE}]]
<1>1. ASSUME NEW it PROVE Table(it) <=> Sums(Paid, S, it)
  <2>1. ASSUME NEW s \in SUBSET S, s # {} PROVE Paid[Pick(s)] = Amount(CHOOSE x \in s : TRUE)
    BY <2>1, PickIsIn DEF Paid, Pick, Amount
  <2> DEFINE a == [s \in SUBSET S |->
                    IF s = {} THEN 0
                    ELSE Amount(CHOOSE x \in s : TRUE) + it[s \ {CHOOSE x \in s : TRUE}]]
             b == [s \in SUBSET S |-> IF s = {} THEN 0 ELSE Paid[Pick(s)] + it[s \ {Pick(s)}]]
  <2>2. a = b
    BY <2>1 DEF Pick
  <2> HIDE DEF a, b
  <2>3. (it = a) <=> (it = b)
    BY <2>2
  <2> QED
    BY <2>3 DEF Sums, a, b
<1>2. \E it : Table(it)
  BY <1>1, SumsExist
<1>3. Table(CHOOSE it : Table(it))
  BY <1>2
<1>4. MapThenSumSet(Amount, S) = (CHOOSE it : Table(it))[S]
  BY DEF MapThenSumSet, MapThenFoldSet
<1> HIDE DEF Table
<1>5. Sums(Paid, S, CHOOSE it : Table(it))
  BY <1>1, <1>3
<1> QED
  BY <1>4, <1>5, TotalSums DEF PaidInAll

\* Quotients are ordered as what is divided.
LEMMA QuotientsOrder ==
  ASSUME NEW x \in Nat, NEW y \in Nat, x <= y, NEW t \in Nat, t > 0
  PROVE  x \div t \in Nat /\ x \div t <= y \div t
<1> DEFINE p == x \div t
           q == y \div t
<1>1. /\ p \in Int /\ t * p <= x /\ x < t * p + t
      /\ q \in Int /\ t * q <= y /\ y < t * q + t
  OBVIOUS
<1>2. p >= 0 /\ q >= 0
  BY <1>1
<1> HIDE DEF p, q
<1>3. ASSUME p >= q + 1 PROVE FALSE
  <2>1. t * (q + 1) <= t * p
    BY <1>1, <1>2, <1>3, Products
  <2>2. t * (q + 1) = t * q + t
    BY <1>1, <1>2, Products
  <2> QED
    BY <1>1, <2>1, <2>2
<1>4. p \in Nat /\ p <= q
  BY <1>1, <1>2, <1>3
<1> QED
  BY <1>4 DEF p, q

\* The minimum of two numbers.
LEMMA LesserOfTwo ==
  ASSUME NEW a \in Int, NEW b \in Int
  PROVE  Min({a, b}) = IF a <= b THEN a ELSE b
<1>1. \E x \in {a, b} : \A y \in {a, b} : x =< y
  OBVIOUS
<1>2. Min({a, b}) \in {a, b} /\ \A y \in {a, b} : Min({a, b}) =< y
  BY <1>1 DEF Min
<1> QED
  BY <1>2

\* The rate is a percentage, full exactly when nothing is outstanding, and no
\* receipt lowers it.
LEMMA ShareFits ==
  ASSUME NEW c \in Nat, NEW a \in Nat
  PROVE  /\ Share(c, a) \in 0..100
         /\ Share(c, a) = 100 <=> a <= c
         /\ Share(c, a) <= Share(c + 1, a)
<1> DEFINE q(n) == (n * 100) \div a
<1>1. ASSUME NEW n \in Nat, a <= n PROVE Share(n, a) = 100
  <2>1. n # 0 => (n * 100) \div n = 100
    OBVIOUS
  <2> QED
    BY <1>1, <2>1, LesserOfTwo DEF Share
<1>2. ASSUME NEW n \in Nat, a > n
      PROVE  q(n) \in 0..99 /\ Share(n, a) = q(n)
  <2>1. q(n) \in Nat
    BY <1>2, QuotientsOrder
  <2>2. a * q(n) <= n * 100
    BY <1>2
  <2> HIDE DEF q
  <2>3. q(n) < 100
    <3>1. SUFFICES ASSUME q(n) >= 100 PROVE FALSE
      BY <2>1
    <3>2. a * 100 <= a * q(n)
      BY <2>1, <3>1, Products
    <3> QED
      BY <1>2, <2>2, <3>2, <2>1
  <2>4. Share(n, a) = Min({100, q(n)})
    BY <1>2 DEF Share, q
  <2>5. Min({100, q(n)}) = q(n)
    <3>1. Min({100, q(n)}) = IF 100 <= q(n) THEN 100 ELSE q(n)
      BY <2>1, LesserOfTwo
    <3> QED
      BY <2>1, <2>3, <3>1
  <2> QED
    BY <2>1, <2>3, <2>4, <2>5
<1>3. a > c /\ a > c + 1 => q(c) <= q(c + 1)
  BY QuotientsOrder
<1> HIDE DEF q
<1> QED
  BY <1>1, <1>2, <1>3

\* The summary, field by field.
SumsUp ==
  /\ summarize.completed_tasks = Count
  /\ summarize.assigned_tasks = assigned_count
  /\ summarize.completion_rate_pct = Share(Count, assigned_count)
  /\ summarize.total_earnings_msats = Wrapped(PaidInAll)
  /\ summarize.last_activity = Max(Times)

\* The summary is read off as named.
LEMMA SummaryReads ==
  ASSUME IsFiniteSet(DOMAIN receipts)
  PROVE  SumsUp
BY EarnedIsTotal DEF SumsUp, summarize, Count, Share, OfTasks, Times

\* The last activity is the latest date of a receipt.
LEMMA NewestIs ==
  ASSUME CountInv
  PROVE  Max(Times) \in Times /\ Times \subseteq Nat /\ \A time \in Times : Max(Times) >= time
<1> DEFINE f == [id \in DOMAIN receipts |-> receipts[id].event.created_at]
           S == {f[id] : id \in DOMAIN receipts}
<1>1. f \in Surjection(DOMAIN receipts, S)
  BY DEF Surjection
<1>2. IsFiniteSet(S)
  BY <1>1, FS_Surjection DEF CountInv
<1>3. Times = S \union {0} /\ Times \subseteq Nat
  BY DEF Times, CountInv
<1>4. IsFiniteSet(Times) /\ Times # {}
  BY <1>2, <1>3, FS_AddElement
<1>5. \E x \in Times : \A y \in Times : x >= y
  BY <1>3, <1>4, GreatestNumber
<1> QED
  BY <1>3, <1>5 DEF Max

\* Without repeated tags, no more receipts mention a dialect than there are.
LEMMA MentionsFit ==
  ASSUME CountInv, NEW d, \A id \in DOMAIN receipt_dialects : ~Repeats(receipt_dialects[id])
  PROVE  Cardinality(Mentions(d)) <= Count
<1> DEFINE f == [m \in Mentions(d) |-> m[1]]
<1>1. ASSUME NEW m \in Mentions(d)
      PROVE  /\ m = <<m[1], m[2]>> /\ m[1] \in DOMAIN receipt_dialects
             /\ m[2] \in DOMAIN receipt_dialects[m[1]] /\ receipt_dialects[m[1]][m[2]] = d
  BY DEF Mentions
<1>2. \A m \in Mentions(d) : m[1] \in DOMAIN receipts
  BY <1>1 DEF CountInv
<1>3. ASSUME NEW m \in Mentions(d), NEW n \in Mentions(d), m[1] = n[1] PROVE m = n
  BY <1>1, <1>3 DEF Repeats
<1>4. f \in [Mentions(d) -> DOMAIN receipts]
  BY <1>2
<1>5. IsInjective(f)
  BY <1>3 DEF IsInjective
<1>6. f \in Injection(Mentions(d), DOMAIN receipts)
  BY <1>4, <1>5 DEF Injection
<1> QED
  BY <1>6, FS_Injection DEF CountInv, Count

\* The numbers of a summary fit each other.
LEMMA SummaryFits ==
  ASSUME CountInv, assigned_count \in Nat
  PROVE  SummaryAddsUp
<1>1. Count \in Nat /\ (Count = 0 <=> DOMAIN receipts = {})
  BY FS_CardinalityType, FS_EmptySet DEF CountInv, Count
<1>2. SumsUp
  BY SummaryReads DEF CountInv
<1>3. /\ summarize.completion_rate_pct \in 0..100
      /\ summarize.completion_rate_pct = 100 <=> summarize.assigned_tasks <= summarize.completed_tasks
  BY <1>1, <1>2, ShareFits DEF SumsUp
<1>4. ASSUME Count = 0
      PROVE  summarize.total_earnings_msats = 0 /\ summarize.last_activity = 0
  <2>1. DOMAIN receipts = {}
    BY <1>1, <1>4
  <2>2. PaidInAll = 0
    BY <2>1, FS_EmptySet, TotalEquation DEF PaidInAll
  <2>3. Times = {0}
    BY <2>1 DEF Times
  <2>4. Max(Times) = 0
    BY <2>3, NewestIs
  <2>5. Wrapped(0) = 0
    BY ReputationAssumption DEF Wrapped
  <2> QED
    BY <1>2, <2>2, <2>4, <2>5 DEF SumsUp
<1>5. ASSUME NEW d \in DOMAIN summarize.domain_expertise
      PROVE  \/ summarize.domain_expertise[d].task_count <= summarize.completed_tasks
             \/ \E id \in DOMAIN receipt_dialects : Repeats(receipt_dialects[id])
  <2>1. summarize.domain_expertise[d].task_count = Cardinality(Mentions(d))
    BY DEF summarize
  <2> QED
    BY <1>2, <2>1, MentionsFit DEF SumsUp
<1> QED
  BY <1>2, <1>3, <1>4, <1>5 DEF SummaryAddsUp, SumsUp

\* The aggregator counts each payment to its subject once, whatever order and
\* repetition the receipts come in, and the numbers of its summary fit.
THEOREM ReputationCorrect == Spec => []ReputationIsFair
<1>1. CountInv => PaymentsCountOnce
  BY DEF CountInv, PaymentsCountOnce, Counted
<1>2. CountInv /\ TypeInv => SummaryAddsUp
  BY SummaryFits, ReputationAssumption DEF TypeInv, FlagTypes
<1> QED
  BY <1>1, <1>2, CountKept, TypesKept, PTL DEF ReputationIsFair

-----------------------------------------------------------------------------
(* Payments.                                                               *)

\* What the summary of a state says, for a state and the next one.
SummaryFacts ==
  CountInv =>
    /\ SumsUp
    /\ Earned(DOMAIN receipts) = PaidInAll
    /\ Max(Times) \in Times /\ Times \subseteq Nat /\ \A time \in Times : Max(Times) >= time

\* The facts about the summary hold of every state's.
LEMMA FactsHold == SummaryFacts
BY SummaryReads, EarnedIsTotal, NewestIs DEF SummaryFacts, CountInv, Earned

\* A publisher is blamed for no more than before.
Better(required) ==
  verify_publisher(summarize, required, now)'
    \subseteq verify_publisher(summarize, required, now)

\* One more receipt raises the count and the total, and keeps the dates.
LEMMA MorePaysMore ==
  ASSUME CountInv, CountInv', NEW e, CountsReceipt(e)
  PROVE  /\ Count \in Nat /\ Count' = Count + 1
         /\ PaidInAll \in Nat /\ PaidInAll' \in Nat /\ PaidInAll <= PaidInAll'
         /\ Times \subseteq Times'
<1> DEFINE S == DOMAIN receipts
           T == DOMAIN receipts'
<1>1. /\ T = S \union {e.id} /\ e.id \notin S
      /\ \A id \in S : receipts'[id] = receipts[id]
  BY DEF CountsReceipt, With
<1>2. Count \in Nat /\ Count' = Count + 1
  BY <1>1, FS_CardinalityType, FS_AddElement DEF CountInv, Count
<1>3. \A id \in S : Paid[id] \in Nat
  BY ReputationAssumption DEF CountInv, Paid
<1>4. \A id \in T : Paid'[id] \in Nat
  BY ReputationAssumption DEF CountInv, Paid
<1>5. \A id \in S : Paid'[id] = Paid[id]
  BY <1>1 DEF Paid
<1>6. IsFiniteSet(S) /\ IsFiniteSet(T)
  BY DEF CountInv
<1>7. PaidInAll' = Total(Paid', T)
  BY DEF PaidInAll
<1>8. Total(Paid', T) = Paid'[e.id] + Total(Paid', T \ {e.id})
  BY <1>1, <1>4, <1>6, TotalOneLess
<1>9. Total(Paid', T \ {e.id}) = PaidInAll
  <2>1. T \ {e.id} = S
    BY <1>1
  <2>2. Total(Paid', S) = Total(Paid, S)
    BY <1>5, <1>6, TotalSame
  <2> QED
    BY <2>1, <2>2 DEF PaidInAll
<1>10. PaidInAll \in Nat
  BY <1>3, <1>6, TotalNatural DEF PaidInAll
<1>11. Times \subseteq Times'
  BY <1>1 DEF Times
<1> QED
  BY <1>1, <1>2, <1>4, <1>7, <1>8, <1>9, <1>10, <1>11

\* More, and later, payments are blamed for less.
LEMMA BetterReads ==
  ASSUME NEW s, NEW t, NEW at \in Nat, NEW required \in Thresholds,
         s.completed_tasks \in Nat, t.completed_tasks \in Nat,
         s.completed_tasks <= t.completed_tasks,
         s.completion_rate_pct \in Nat, t.completion_rate_pct \in Nat,
         s.completion_rate_pct <= t.completion_rate_pct,
         s.total_earnings_msats \in Nat, t.total_earnings_msats \in Nat,
         s.total_earnings_msats <= t.total_earnings_msats,
         s.last_activity \in Nat, t.last_activity \in Nat,
         0 < s.last_activity, s.last_activity <= t.last_activity
  PROVE  verify_publisher(t, required, at) \subseteq verify_publisher(s, required, at)
<1>1. /\ required.min_completed_payments \in Nat /\ required.min_completion_rate_pct \in Nat
      /\ required.min_total_paid_msats \in Nat /\ required.max_inactivity_secs \in Nat
  BY AgentAssumption
<1> DEFINE Blames(x, v) ==
             CASE v = "InsufficientPaymentHistory" ->
                    x.completed_tasks < required.min_completed_payments
               [] v = "LowCompletionRate" ->
                    x.completion_rate_pct < required.min_completion_rate_pct
               [] v = "InsufficientTotalPaid" ->
                    x.total_earnings_msats < required.min_total_paid_msats
               [] v = "StaleActivity" ->
                    /\ required.max_inactivity_secs > 0 /\ at > 0 /\ x.last_activity > 0
                    /\ at - x.last_activity > required.max_inactivity_secs
           All == {"InsufficientPaymentHistory", "LowCompletionRate", "InsufficientTotalPaid",
                   "StaleActivity"}
<1>2. \A x : verify_publisher(x, required, at) = {v \in All : Blames(x, v)}
  BY DEF verify_publisher
<1>3. Blames(t, "InsufficientPaymentHistory") => Blames(s, "InsufficientPaymentHistory")
  BY <1>1
<1>4. Blames(t, "LowCompletionRate") => Blames(s, "LowCompletionRate")
  BY <1>1
<1>5. Blames(t, "InsufficientTotalPaid") => Blames(s, "InsufficientTotalPaid")
  BY <1>1
<1>6. Blames(t, "StaleActivity") => Blames(s, "StaleActivity")
  BY <1>1
<1> HIDE DEF Blames
<1> QED
  BY <1>2, <1>3, <1>4, <1>5, <1>6

\* A sum that fits in a u64 does not wrap.
LEMMA SmallStays ==
  ASSUME NEW n \in Nat, n <= MaxU64
  PROVE  Wrapped(n) = n
BY ReputationAssumption DEF Wrapped

\* A receipt helps, unless it is the first with a date or the sum wraps.
LEMMA ReceiptHelps ==
  ASSUME CountInv, CountInv', SummaryFacts, SummaryFacts', assigned_count \in Nat, now \in Nat,
         now' = now, assigned_count' = assigned_count, NEW e, CountsReceipt(e),
         summarize.last_activity > 0, Earned(DOMAIN receipts)' <= MaxU64,
         NEW required \in Thresholds
  PROVE  Better(required)
<1>1. /\ Count \in Nat /\ Count' = Count + 1
      /\ PaidInAll \in Nat /\ PaidInAll' \in Nat /\ PaidInAll <= PaidInAll'
      /\ Times \subseteq Times'
  BY MorePaysMore
<1>2. /\ SumsUp /\ Max(Times) \in Nat /\ Max(Times) \in Times
  BY DEF SummaryFacts
<1>3. /\ SumsUp' /\ Max(Times)' \in Nat /\ \A time \in Times' : Max(Times)' >= time
      /\ PaidInAll' <= MaxU64
  BY DEF SummaryFacts
<1>4. /\ summarize'.completed_tasks = Count'
      /\ summarize'.completion_rate_pct = Share(Count', assigned_count)
      /\ summarize'.total_earnings_msats = Wrapped(PaidInAll')
      /\ summarize'.last_activity = Max(Times)'
  BY <1>3 DEF SumsUp
<1>5. /\ summarize.completed_tasks = Count
      /\ summarize.completion_rate_pct = Share(Count, assigned_count)
      /\ summarize.total_earnings_msats = Wrapped(PaidInAll)
      /\ summarize.last_activity = Max(Times)
  BY <1>2 DEF SumsUp
<1>6. Wrapped(PaidInAll) = PaidInAll /\ Wrapped(PaidInAll') = PaidInAll'
  <2>1. PaidInAll <= MaxU64 /\ PaidInAll' <= MaxU64
    BY <1>1, <1>3, ReputationAssumption
  <2> QED
    BY <1>1, <2>1, SmallStays
<1>7. /\ Share(Count, assigned_count) \in Nat /\ Share(Count', assigned_count) \in Nat
      /\ Share(Count, assigned_count) <= Share(Count', assigned_count)
  <2>1. Share(Count, assigned_count) \in 0..100
        /\ Share(Count, assigned_count) <= Share(Count + 1, assigned_count)
    BY <1>1, ShareFits
  <2>2. Count + 1 \in Nat /\ Share(Count + 1, assigned_count) \in 0..100
    BY <1>1, ShareFits
  <2> QED
    BY <1>1, <2>1, <2>2
<1>8. Max(Times) <= Max(Times)'
  BY <1>1, <1>2, <1>3
<1> QED
  BY <1>1, <1>2, <1>3, <1>4, <1>5, <1>6, <1>7, <1>8, BetterReads DEF Better

\* What PaymentsNeverHurt says of a step.
PaymentHelps ==
  /\ \A key \in Keys : zap_check(key) => zap_check(key)' \/ clear(key) \/ clear_all
  /\ (summarize.last_activity > 0 /\ assigned_count' = assigned_count
        /\ Earned(DOMAIN receipts)' <= MaxU64) =>
       \A required \in Thresholds :
         verify_publisher(summarize, required, now)'
           \subseteq verify_publisher(summarize, required, now)

\* Whom the gate lets pass, it lets pass until a record is cleared.
LEMMA GateOpens ==
  ASSUME FilterTypes, NetInv, FilterMoves \/ UNCHANGED filterVars, NEW key \in Keys, zap_check(key)
  PROVE  zap_check(key)' \/ clear(key) \/ clear_all
<1>1. ledger[key] \in 0..MaxLedger /\ threshold \in Nat /\ ledger[key] >= threshold
  BY DEF FilterTypes, zap_check
<1>2. ASSUME threshold' = threshold, ledger'[key] >= ledger[key], ledger'[key] \in Nat
      PROVE  zap_check(key)'
  BY <1>1, <1>2 DEF zap_check
<1>3. CASE UNCHANGED filterVars
  BY <1>3 DEF filterVars, zap_check
<1>4. ASSUME NEW e \in net, Pays(e) PROVE zap_check(key)'
  <2> DEFINE payer == zap_receipt(e).val.zap_request.pubkey
             msats == zap_receipt(e).val.amount_msats
  <2>1. zap_receipt(e).ok /\ record_zap(payer, msats)
    BY <1>4 DEF Pays
  <2>2. msats \in Nat
    BY <2>1, AmountIsRead, ReputationAssumption DEF NetInv
  <2> HIDE DEF payer, msats
  <2>3. ledger'[key] = ledger[key] \/ ledger'[key] = Smaller(ledger[key] + msats, MaxLedger)
    BY <2>1 DEF record_zap, FilterTypes
  <2>4. ledger'[key] >= ledger[key] /\ ledger'[key] \in Nat
    BY <1>1, <2>2, <2>3, SpamAssumption DEF Smaller
  <2>5. threshold' = threshold
    BY <2>1 DEF record_zap, settings
  <2> QED
    BY <1>2, <2>4, <2>5
<1>5. ASSUME NEW other \in Keys, FilterCall(other)
      PROVE  zap_check(key)' \/ clear(key) \/ clear_all
  <2>1. CASE allow(other) \/ disallow(other)
    BY <2>1 DEF allow, disallow, settings, zap_check
  <2>2. CASE clear(other)
    <3>1. CASE other = key
      BY <2>2, <3>1
    <3>2. CASE other # key
      BY <2>2, <3>2 DEF clear, settings, zap_check, FilterTypes
    <3> QED
      BY <3>1, <3>2
  <2> QED
    BY <1>5, <2>1, <2>2 DEF FilterCall
<1> QED
  BY <1>3, <1>4, <1>5 DEF FilterMoves

\* An event that is not counted changes no verdict.
LEMMA SameSummary ==
  ASSUME CountInv, CountInv', SummaryFacts, SummaryFacts',
         receipts' = receipts, assigned_count' = assigned_count, now' = now,
         now \in Nat, NEW required \in Thresholds
  PROVE  Better(required)
<1>1. Count' = Count /\ PaidInAll' = PaidInAll /\ Times' = Times /\ Max(Times)' = Max(Times)
  BY DEF Count, PaidInAll, Paid, Times
<1>2. SumsUp /\ SumsUp'
  BY DEF SummaryFacts
<1>3. /\ summarize'.completed_tasks = summarize.completed_tasks
      /\ summarize'.completion_rate_pct = summarize.completion_rate_pct
      /\ summarize'.total_earnings_msats = summarize.total_earnings_msats
      /\ summarize'.last_activity = summarize.last_activity
  BY <1>1, <1>2 DEF SumsUp
<1> QED
  BY <1>3 DEF Better, verify_publisher

\* A payment costs nobody anything: the gate stays open for whom it was open,
\* also when the ledger saturates, and a receipt takes no publisher's trust, for
\* any thresholds, until the sum is beyond a u64.
THEOREM PaymentsCorrect == Spec => PaymentsNeverHurt
<1>1. ASSUME TypeInv, CountInv, CountInv', SummaryFacts, SummaryFacts', [Next]_vars
      PROVE  PaymentHelps \/ UNCHANGED <<filterVars, reputationVars>>
  <2> SUFFICES ASSUME ~ UNCHANGED <<filterVars, reputationVars>> PROVE PaymentHelps
    OBVIOUS
  <2>1. now \in Nat /\ assigned_count \in Nat /\ FilterTypes /\ NetInv
    BY <1>1, SpamAssumption, ReputationAssumption
    DEF TypeInv, LimiterInv, LimiterTypes, FlagTypes, ArrivalInv
  <2>2. AgentMoves
    BY <1>1, <2>1, AgentStep
  <2>3. now' = now
    BY <2>2 DEF AgentMoves
  <2>4. \A key \in Keys : zap_check(key) => zap_check(key)' \/ clear(key) \/ clear_all
    BY <2>1, <2>2, GateOpens DEF AgentMoves
  <2>5. ASSUME summarize.last_activity > 0, assigned_count' = assigned_count,
               Earned(DOMAIN receipts)' <= MaxU64, NEW required \in Thresholds
        PROVE  Better(required)
    <3>1. CASE UNCHANGED receipts
      BY <1>1, <2>1, <2>3, <2>5, <3>1, SameSummary
    <3>2. ASSUME NEW e, CountsReceipt(e) PROVE Better(required)
      BY <1>1, <2>1, <2>3, <2>5, <3>2, ReceiptHelps
    <3>3. UNCHANGED receipts \/ \E e : CountsReceipt(e)
      BY <2>2, AddMoves DEF AgentMoves, ReputationMoves, record_assignments, reputationVars
    <3> QED
      BY <3>1, <3>2, <3>3
  <2> QED
    BY <2>4, <2>5 DEF PaymentHelps, Better
<1>2. TypeInv /\ CountInv /\ CountInv' /\ SummaryFacts /\ SummaryFacts' /\ [Next]_vars
        => [PaymentHelps]_<<filterVars, reputationVars>>
  BY <1>1
<1> QED
  BY <1>2, FactsHold, CountKept, TypesKept, PTL DEF Spec, PaymentsNeverHurt, PaymentHelps

=============================================================================
