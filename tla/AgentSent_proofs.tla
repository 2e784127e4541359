-------------------------- MODULE AgentSent_proofs --------------------------
(***************************************************************************)
(* Proofs that what an agent sends arrives: what each builder writes, by   *)
(* which filters it is found, and how it is read again.  The part of the   *)
(* argument about sequences is the same throughout: where a tag stands in  *)
(* the list that a builder joins together, and what a filtering loop that  *)
(* looks for it keeps.                                                     *)
(***************************************************************************)
EXTENDS AgentNetwork_proofs

\* Two sequences joined have the elements of both.
LEMMA Joined ==
  ASSUME NEW S, NEW a \in Seq(S), NEW b \in Seq(S)
  PROVE  /\ a \o b \in Seq(S) /\ Len(a \o b) = Len(a) + Len(b)
         /\ \A i \in 1..Len(a) : (a \o b)[i] = a[i]
         /\ \A i \in 1..Len(b) : (a \o b)[i + Len(a)] = b[i]
OBVIOUS

-----------------------------------------------------------------------------
(* What a subscriber gets.                                                 *)

\* The answer of a relay is read as what it is.
LEMMA AnswerIsRead ==
  ASSUME NEW e
  PROVE  /\ from_json(<<Text("EVENT"), Text("sub"), Json("event", e)>>)
              = Ok([is |-> "EVENT", sub |-> "sub", event |-> e])
         /\ from_json(<<Text("EOSE"), Text("sub")>>) = Ok([is |-> "EOSE", sub |-> "sub"])
<1>1. from_json(<<Text("EVENT"), Text("sub"), Json("event", e)>>)
        = Ok([is |-> "EVENT", sub |-> "sub", event |-> e])
  <2> DEFINE arr == <<Text("EVENT"), Text("sub"), Json("event", e)>>
  <2>1. DOMAIN arr = 1..3 /\ arr[1] = Text("EVENT") /\ arr[2] = Text("sub")
        /\ arr[3] = Json("event", e)
    OBVIOUS
  <2> HIDE DEF arr
  <2>2. /\ IsText(arr, 1) /\ IsText(arr, 2) /\ 3 \in DOMAIN arr /\ arr[3].type = "event"
        /\ arr[3].val = e
        /\ TextOr(arr, 1, None) = "EVENT" /\ TextOr(arr, 2, None) = "sub"
    BY <2>1 DEF IsText, TextOr, Text, Json
  <2>3. from_json(arr) = Ok([is |-> "EVENT", sub |-> "sub", event |-> e])
    BY <2>2 DEF from_json
  <2> QED
    BY <2>3 DEF arr
<1>2. from_json(<<Text("EOSE"), Text("sub")>>) = Ok([is |-> "EOSE", sub |-> "sub"])
  <2> DEFINE arr == <<Text("EOSE"), Text("sub")>>
  <2>1. DOMAIN arr = 1..2 /\ arr[1] = Text("EOSE") /\ arr[2] = Text("sub")
    OBVIOUS
  <2> HIDE DEF arr
  <2>2. /\ IsText(arr, 1) /\ IsText(arr, 2)
        /\ TextOr(arr, 1, None) = "EOSE" /\ TextOr(arr, 2, None) = "sub"
    BY <2>1 DEF IsText, TextOr, Text, Json
  <2>3. from_json(arr) = Ok([is |-> "EOSE", sub |-> "sub"])
    BY <2>2 DEF from_json
  <2> QED
    BY <2>3 DEF arr
<1> QED
  BY <1>1, <1>2

\* A REQ holds its filters after its name.
LEMMA RequestHolds ==
  ASSUME NEW filters, IsList(filters)
  PROVE  LET req == req_json("sub", filters)
         IN  /\ Len(req) = Len(filters) + 2 /\ req[2] = Text("sub")
             /\ \A i \in 1..Len(filters) : req[i + 2].val = filters[i]
<1> DEFINE wrapped == [i \in DOMAIN filters |-> Json("filter", filters[i])]
           opening == <<Text("REQ"), Text("sub")>>
           S == {wrapped[i] : i \in DOMAIN filters} \union {Text("REQ"), Text("sub")}
<1>1. Len(filters) \in Nat /\ DOMAIN filters = 1..Len(filters)
  BY ListIsSeq DEF IsList
<1>2. wrapped \in Seq(S) /\ Len(wrapped) = Len(filters)
      /\ \A i \in 1..Len(filters) : wrapped[i] = Json("filter", filters[i])
  BY <1>1
<1>3. opening \in Seq(S) /\ Len(opening) = 2 /\ opening[2] = Text("sub")
  OBVIOUS
<1>4. req_json("sub", filters) = opening \o wrapped
  BY DEF req_json
<1> HIDE DEF wrapped, opening, S
<1>5. /\ Len(opening \o wrapped) = Len(filters) + 2 /\ (opening \o wrapped)[2] = Text("sub")
      /\ \A i \in 1..Len(filters) : (opening \o wrapped)[i + 2] = wrapped[i]
  <2>1. opening \in Seq(S) /\ wrapped \in Seq(S)
    BY <1>2, <1>3
  <2>2. /\ Len(opening \o wrapped) = Len(opening) + Len(wrapped)
        /\ \A i \in 1..Len(opening) : (opening \o wrapped)[i] = opening[i]
        /\ \A i \in 1..Len(wrapped) : (opening \o wrapped)[i + Len(opening)] = wrapped[i]
    BY ONLY <2>1, Joined
  <2>3. 2 \in 1..Len(opening)
    BY <1>3
  <2> QED
    BY <1>1, <1>2, <1>3, <2>2, <2>3
<1>6. \A i \in 1..Len(filters) : Json("filter", filters[i]).val = filters[i]
  BY DEF Json
<1> QED
  BY <1>2, <1>4, <1>5, <1>6

\* An event reaches who asked for it by one of the filters.
LEMMA MatchReaches ==
  ASSUME NEW filters, IsList(filters), NEW e, NEW i \in DOMAIN filters, Matches(filters[i], e)
  PROVE  Reaches(filters, e)
<1> DEFINE req == req_json("sub", filters)
<1>1. Len(filters) \in Nat /\ DOMAIN filters = 1..Len(filters)
  BY ListIsSeq DEF IsList
<1>2. Len(req) = Len(filters) + 2 /\ req[2] = Text("sub") /\ req[i + 2].val = filters[i]
  BY <1>1, RequestHolds
<1>3. event_json(e)[2] = Json("event", e) /\ event_json(e)[2].val = e
  BY DEF event_json, Json
<1> HIDE DEF req
<1>4. i + 2 \in 3..Len(req)
  BY <1>1, <1>2
<1>5. Relayed(req, event_json(e)) = <<Text("EVENT"), Text("sub"), Json("event", e)>>
  BY <1>2, <1>3, <1>4 DEF Relayed
<1>6. Received(filters, e) = Ok([is |-> "EVENT", sub |-> "sub", event |-> e])
  BY <1>5, AnswerIsRead DEF Received, req
<1> QED
  BY <1>6 DEF Reaches, Gives, Ok

\* An event does not reach who did not.
LEMMA OthersMissIt ==
  ASSUME NEW filters, IsList(filters), NEW e, \A i \in DOMAIN filters : ~Matches(filters[i], e)
  PROVE  ~Reaches(filters, e)
<1> DEFINE req == req_json("sub", filters)
<1>1. Len(filters) \in Nat /\ DOMAIN filters = 1..Len(filters)
  BY ListIsSeq DEF IsList
<1>2. Len(req) = Len(filters) + 2 /\ req[2] = Text("sub")
      /\ \A i \in 1..Len(filters) : req[i + 2].val = filters[i]
  BY <1>1, RequestHolds
<1>3. event_json(e)[2].val = e
  BY DEF event_json, Json
<1> HIDE DEF req
<1>4. \A j \in 3..Len(req) : ~Matches(req[j].val, e)
  <2> TAKE j \in 3..Len(req)
  <2>1. j - 2 \in 1..Len(filters) /\ (j - 2) + 2 = j
    BY <1>1, <1>2
  <2>2. req[j].val = filters[j - 2]
    BY <1>2, <2>1
  <2> QED
    BY <1>1, <2>1, <2>2
<1>5. Relayed(req, event_json(e)) = <<Text("EOSE"), Text("sub")>>
  BY <1>2, <1>3, <1>4 DEF Relayed
<1>6. Received(filters, e) = Ok([is |-> "EOSE", sub |-> "sub"])
  BY <1>5, AnswerIsRead DEF Received, req
<1>7. [is |-> "EOSE", sub |-> "sub"] # [is |-> "EVENT", sub |-> "sub", event |-> e]
  <2>1. [is |-> "EOSE", sub |-> "sub"].is # [is |-> "EVENT", sub |-> "sub", event |-> e].is
    OBVIOUS
  <2> QED
    BY <2>1
<1> QED
  BY <1>6, <1>7 DEF Reaches, Gives, Ok

\* One filter is a list of filters.
LEMMA MatchFinds ==
  ASSUME NEW filter, NEW e, Matches(filter, e)
  PROVE  Reaches(<<filter>>, e) /\ Finds(filter, e)
<1>1. IsList(<<filter>>) /\ 1 \in DOMAIN <<filter>> /\ <<filter>>[1] = filter
  BY DEF IsList
<1>2. Reaches(<<filter>>, e)
  BY <1>1, MatchReaches
<1> QED
  BY <1>2 DEF Reaches, Finds

-----------------------------------------------------------------------------
(* How a message opens.                                                    *)

\* The first tag of a variant is the one that is found.
LEMMA FirstIsFound ==
  ASSUME NEW e, IsList(e.tags), NEW key \in SingleKeys, NEW a,
         NEW i \in DOMAIN e.tags, e.tags[i] = <<key, a>>,
         \A j \in DOMAIN e.tags : j < i => Tag_parse(e.tags[j]).variant # Variant[key]
  PROVE  Tagged(e, Variant[key]) # {} /\ FindTag(e, Variant[key]) = a
<1> DEFINE places == Tagged(e, Variant[key])
           first == CHOOSE k \in places : \A j \in places : k <= j
<1>1. Tag_parse(e.tags[i]) = [variant |-> Variant[key], args |-> <<a>>]
  BY PairIsParsed
<1>2. DOMAIN e.tags = 1..Len(e.tags) /\ Len(e.tags) \in Nat
  BY ListIsSeq DEF IsList
<1>3. /\ i \in places
      /\ \A j \in places : j \in Nat /\ ~(j < i)
  BY <1>1, <1>2 DEF Tagged
<1> HIDE DEF places
<1>4. first \in places /\ \A j \in places : first <= j
  <2>1. i \in places /\ \A j \in places : i <= j
    BY <1>2, <1>3
  <2> QED
    BY <2>1
<1>5. first = i
  BY <1>2, <1>3, <1>4
<1>6. FindTag(e, Variant[key]) = Tag_parse(e.tags[first]).args[1]
  BY <1>3 DEF FindTag, places
<1>7. Tag_parse(e.tags[i]).args[1] = a
  BY <1>1
<1> HIDE DEF first
<1> QED
  BY <1>3, <1>5, <1>6, <1>7 DEF places

\* Tags that open with the recipient, if there is one, and the performative.
Opens(tags, to, verb) ==
  /\ IsList(tags)
  /\ LET place == IF to = None THEN 1 ELSE 2
     IN  place \in DOMAIN tags /\ tags[place] = <<"performative", verb>>
  /\ to # None => 1 \in DOMAIN tags /\ tags[1] = <<"p", to>>

\* The performative and the recipient are found.
LEMMA OpeningIsFound ==
  ASSUME NEW e, NEW to, NEW verb, Opens(e.tags, to, verb)
  PROVE  /\ Tagged(e, "Performative") # {} /\ FindTag(e, "Performative") = verb
         /\ to # None => Tagged(e, "PubKey") # {} /\ FindTag(e, "PubKey") = to
<1>1. /\ Variant["p"] = "PubKey" /\ Variant["performative"] = "Performative"
      /\ {"p", "performative"} \subseteq SingleKeys
  BY DEF Variant, SingleKeys
<1>2. IsList(e.tags) /\ DOMAIN e.tags = 1..Len(e.tags) /\ Len(e.tags) \in Nat
  BY ListIsSeq DEF Opens, IsList
<1>3. CASE to = None
  <2>1. 1 \in DOMAIN e.tags /\ e.tags[1] = <<"performative", verb>>
    BY <1>3 DEF Opens
  <2>2. \A j \in DOMAIN e.tags : ~(j < 1)
    BY <1>2
  <2> QED
    BY <1>1, <1>2, <1>3, <2>1, <2>2, FirstIsFound
<1>4. CASE to # None
  <2>1. 1 \in DOMAIN e.tags /\ e.tags[1] = <<"p", to>>
        /\ 2 \in DOMAIN e.tags /\ e.tags[2] = <<"performative", verb>>
    BY <1>4 DEF Opens
  <2>2. \A j \in DOMAIN e.tags : ~(j < 1) /\ (j < 2 => j = 1)
    BY <1>2
  <2>3. Tag_parse(e.tags[1]).variant = "PubKey"
    <3>1. Tag_parse(<<"p", to>>) = [variant |-> Variant["p"], args |-> <<to>>]
      BY <1>1, PairIsParsed
    <3> QED
      BY <1>1, <2>1, <3>1
  <2>4. Tagged(e, "PubKey") # {} /\ FindTag(e, "PubKey") = to
    BY <1>1, <1>2, <2>1, <2>2, FirstIsFound
  <2>5. \A j \in DOMAIN e.tags : j < 2 => Tag_parse(e.tags[j]).variant # "Performative"
    BY <2>2, <2>3
  <2>6. Tagged(e, "Performative") # {} /\ FindTag(e, "Performative") = verb
    BY <1>1, <1>2, <2>1, <2>5, FirstIsFound
  <2> QED
    BY <2>4, <2>6
<1> QED
  BY <1>3, <1>4

\* The tag of a recipient holds a key that a filter can ask for.
LEMMA RecipientHasTag ==
  ASSUME NEW e, NEW i \in Tagged(e, "PubKey")
  PROVE  HasTag(e, "p", {e.tags[i][2]})
<1> DEFINE raw == e.tags[i]
<1>1. i \in DOMAIN e.tags /\ Tag_parse(raw).variant = "PubKey"
  BY DEF Tagged
<1>2. raw[1] \in DOMAIN Variant /\ Len(raw) >= Arity(raw[1]) /\ Variant[raw[1]] = "PubKey"
  BY <1>1 DEF Tag_parse
<1>3. raw[1] = "p" /\ Arity(raw[1]) = 2
  BY <1>2 DEF Variant, Arity
<1> QED
  BY <1>1, <1>2, <1>3 DEF HasTag

\* Who asks for an event of this kind, or for those tagged with a key, gets it.
LEMMA KindMatches ==
  ASSUME NEW e, NEW kind, e.kind = kind
  PROVE  Matches([kinds |-> {kind}], e)
<1>1. DOMAIN [kinds |-> {kind}] = {"kinds"} /\ [kinds |-> {kind}].kinds = {kind}
  OBVIOUS
<1>2. FieldMatches("kinds", {kind}, e)
  BY DEF FieldMatches
<1> QED
  BY <1>1, <1>2 DEF Matches

\* A filter for a kind and a recipient.
LEMMA RecipientMatches ==
  ASSUME NEW e, NEW kind, e.kind = kind, NEW key, HasTag(e, "p", {key})
  PROVE  Matches([kinds |-> {kind}, p_tags |-> {key}], e)
<1> DEFINE filter == [kinds |-> {kind}, p_tags |-> {key}]
<1>1. DOMAIN filter = {"kinds", "p_tags"} /\ filter["kinds"] = {kind}
      /\ filter["p_tags"] = {key}
  OBVIOUS
<1> HIDE DEF filter
<1>2. FieldMatches("kinds", {kind}, e)
  BY DEF FieldMatches
<1>3. FieldMatches("p_tags", {key}, e)
  BY DEF FieldMatches, TagOf
<1>4. Matches(filter, e)
  BY <1>1, <1>2, <1>3 DEF Matches
<1> QED
  BY <1>4 DEF filter

\* A message comes through the inbox of everyone it is for.
LEMMA InboxReached ==
  ASSUME NEW e, e.kind = KIND_AGENT_MESSAGE, NEW key, HasTag(e, "p", {key}),
         open_inbox(key).ok
  PROVE  Reaches(open_inbox(key).val, e)
<1> DEFINE filter == [kinds |-> {KIND_AGENT_MESSAGE}, p_tags |-> {key}]
<1>1. open_inbox(key).val = <<filter>>
  BY DEF open_inbox, Err, Ok
<1>2. Matches(filter, e)
  BY RecipientMatches
<1> HIDE DEF filter
<1> QED
  BY <1>1, <1>2, MatchFinds

\* A message whose content was written with the performative of its tags, and
\* that verifies, arrives, and is accepted as far as its text reads back.
LEMMA OpenedArrives ==
  ASSUME NEW e, e.kind = KIND_AGENT_MESSAGE, verify_event(e).ok,
         NEW to, NEW verb, verb # None, NEW body, e.content = encode(verb, body),
         Opens(e.tags, to, verb)
  PROVE  MessageArrives(e)
<1> DEFINE read == decode(e.content)
           valid == validate_performative(e)
           outcome == process(e, Carries(e))
<1>1. /\ e.content.form = "list" /\ e.content.head = verb
      /\ ~read.ok => read = Err("Parse")
  BY DEF decode, encode, Ok, Err
<1>2. /\ read.ok /\ read.val.head = verb => valid = Ok(verb)
      /\ ~valid.ok => valid = read \/ valid = Err("NoHeadSymbol") \/ valid = Err("Mismatch")
      /\ valid.ok => read.ok /\ read.val.head = verb
  <2>1. Tagged(e, "Performative") # {} /\ FindTag(e, "Performative") = verb
    BY OpeningIsFound
  <2> HIDE DEF read
  <2>2. valid = IF ~read.ok THEN read
                ELSE IF read.val.head = None THEN Err("NoHeadSymbol")
                ELSE IF read.val.head # verb THEN Err("Mismatch")
                ELSE Ok(verb)
    BY <2>1 DEF validate_performative, extract_performative, read
  <2> HIDE DEF valid
  <2> QED
    BY <2>2 DEF Ok, Err
<1>3. check_dialect(e, Carries(e))
  BY DEF check_dialect, Carries
<1>4. /\ outcome.ok <=> HeadKept(e.content)
      /\ ~outcome.ok => outcome.val \in {"Parse", "NoHeadSymbol", "Mismatch"}
  <2>1. HeadKept(e.content) <=> read.ok /\ read.val.head = verb
    BY <1>1 DEF HeadKept
  <2>2. outcome = IF ~read.ok THEN read ELSE IF ~valid.ok THEN valid
                  ELSE Ok([event |-> e, performative |-> valid.val])
    BY <1>3 DEF process
  <2> HIDE DEF read, valid, outcome
  <2>3. CASE ~read.ok
    BY <1>1, <2>1, <2>2, <2>3 DEF Err
  <2>4. CASE read.ok /\ ~valid.ok
    <3>1. outcome = valid
      BY <2>2, <2>4
    <3>2. valid = Err("NoHeadSymbol") \/ valid = Err("Mismatch")
      BY <1>2, <2>4
    <3> QED
      BY <1>2, <2>1, <2>4, <3>1, <3>2 DEF Err, Ok
  <2>5. CASE read.ok /\ valid.ok
    BY <1>2, <2>1, <2>2, <2>5 DEF Ok
  <2> QED
    BY <2>3, <2>4, <2>5
<1>5. Finds(discovery_filter, e)
  BY KindMatches, MatchFinds DEF discovery_filter
<1>6. \A i \in Tagged(e, "PubKey") :
        open_inbox(e.tags[i][2]).ok => Reaches(open_inbox(e.tags[i][2]).val, e)
  BY RecipientHasTag, InboxReached
<1> QED
  BY <1>4, <1>5, <1>6 DEF MessageArrives

-----------------------------------------------------------------------------
(* What the builder writes.                                                *)

\* What is signed here verifies.
LEMMA SignedVerifies ==
  ASSUME NEW id, NEW key, NEW time, NEW kind, NEW tags, NEW content, NEW sig
  PROVE  verify_event(Signed([id |-> id, pubkey |-> key, created_at |-> time,
                              kind |-> kind, tags |-> tags, content |-> content,
                              sig |-> sig])).ok
<1> DEFINE e == Signed([id |-> id, pubkey |-> key, created_at |-> time, kind |-> kind,
                        tags |-> tags, content |-> content, sig |-> sig])
<1>1. e.pubkey = Me /\ e.created_at = now /\ e.kind = kind
      /\ e.tags = tags /\ e.content = content
  BY SignedFields
<1>2. e.id = <<Me, now, kind, tags, content>> /\ e.sig = <<Me, e.id>>
  BY AgentAssumption DEF Signed, sign_event, compute_event_id, Ok
<1> HIDE DEF e
<1>3. verify_event(e).ok
  BY <1>1, <1>2, AgentAssumption DEF verify_event, compute_event_id, Ok
<1> QED
  BY <1>3 DEF e

\* 1 for a value that is set.
Set(value) == IF value = None THEN 0 ELSE 1

\* An optional tag is one tag, or none.
LEMMA OptionHas ==
  ASSUME NEW T, NEW variant, NEW value,
         value # None => [variant |-> variant, args |-> <<value>>] \in T
  PROVE  LET tags == OptionTag(variant, value)
         IN  /\ tags \in Seq(T) /\ Len(tags) = Set(value)
             /\ value # None => tags[1] = [variant |-> variant, args |-> <<value>>]
BY DEF OptionTag, Set

\* The tags of a message: those of the builder, and the typed tags added to it.
LEMMA BuildWrites ==
  ASSUME NEW m, build(m).ok, IsList(m.extra_tags)
  PROVE  \E tags :
           /\ build(m).val = Unsigned(KIND_AGENT_MESSAGE, tags, encode(m.performative, m.body))
           /\ m.performative # None /\ Opens(tags, m.recipient, m.performative)
           /\ LET own == Set(m.recipient) + 1 + Set(m.thread) + Set(m.dialect)
              IN  /\ Len(tags) = own + Len(m.extra_tags)
                  /\ \A i \in 1..Len(m.extra_tags) :
                       tags[i + own] = Tag_to_raw(m.extra_tags[i])
<1> DEFINE to == [variant |-> "PubKey", args |-> <<m.recipient>>]
           verb == [variant |-> "Performative", args |-> <<m.performative>>]
           thread == [variant |-> "Thread", args |-> <<m.thread>>]
           dialect == [variant |-> "Dialect", args |-> <<m.dialect>>]
           T == {m.extra_tags[i] : i \in DOMAIN m.extra_tags} \union {to, verb, thread, dialect}
           s1 == OptionTag("PubKey", m.recipient)
           s2 == OptionTag("Performative", m.performative)
           s3 == OptionTag("Thread", m.thread)
           s4 == OptionTag("Dialect", m.dialect)
           typed == s1 \o s2 \o s3 \o s4 \o m.extra_tags
           tags == [i \in DOMAIN typed |-> Tag_to_raw(typed[i])]
<1>0. m.performative # None
  BY DEF build, Err
<1>1. build(m).val = Unsigned(KIND_AGENT_MESSAGE, tags, encode(m.performative, m.body))
  BY DEF build, Err, Ok
<1>2. to \in T /\ verb \in T /\ thread \in T /\ dialect \in T
  OBVIOUS
<1>3. m.extra_tags \in Seq(T) /\ Len(m.extra_tags) \in Nat
  <2>1. {m.extra_tags[i] : i \in DOMAIN m.extra_tags} \subseteq T
    OBVIOUS
  <2> HIDE DEF T
  <2> QED
    BY <2>1, ListIsSeq DEF IsList
<1> HIDE DEF T
<1>4. /\ s1 \in Seq(T) /\ Len(s1) = Set(m.recipient) /\ (m.recipient # None => s1[1] = to)
      /\ s2 \in Seq(T) /\ Len(s2) = 1 /\ s2[1] = verb
      /\ s3 \in Seq(T) /\ Len(s3) = Set(m.thread)
      /\ s4 \in Seq(T) /\ Len(s4) = Set(m.dialect)
  <2>1. s1 \in Seq(T) /\ Len(s1) = Set(m.recipient) /\ (m.recipient # None => s1[1] = to)
    BY <1>2, OptionHas
  <2>2. s2 \in Seq(T) /\ Len(s2) = 1 /\ s2[1] = verb
    BY <1>0, <1>2, OptionHas DEF Set
  <2>3. s3 \in Seq(T) /\ Len(s3) = Set(m.thread)
    BY <1>2, OptionHas
  <2>4. s4 \in Seq(T) /\ Len(s4) = Set(m.dialect)
    BY <1>2, OptionHas
  <2> QED
    BY <2>1, <2>2, <2>3, <2>4
<1> HIDE DEF to, verb, thread, dialect, s1, s2, s3, s4
<1> DEFINE a == s1 \o s2
           b == a \o s3
           c == b \o s4
           own == Set(m.recipient) + 1 + Set(m.thread) + Set(m.dialect)
<1>5. /\ a \in Seq(T) /\ Len(a) = Set(m.recipient) + 1
      /\ (m.recipient # None => a[1] = to) /\ a[Len(a)] = verb
  <2>0. s1 \in Seq(T) /\ s2 \in Seq(T)
    BY <1>4
  <2>1. /\ s1 \o s2 \in Seq(T) /\ Len(s1 \o s2) = Len(s1) + Len(s2)
        /\ \A i \in 1..Len(s1) : (s1 \o s2)[i] = s1[i]
        /\ \A i \in 1..Len(s2) : (s1 \o s2)[i + Len(s1)] = s2[i]
    BY ONLY <2>0, Joined
  <2>5. a = s1 \o s2
    OBVIOUS
  <2> HIDE DEF a
  <2>2. a[1 + Len(s1)] = verb
    BY <1>4, <2>1, <2>5
  <2>3. m.recipient # None => a[1] = to
    BY <1>4, <2>1, <2>5 DEF Set
  <2>4. Len(a) = Set(m.recipient) + 1 /\ Len(a) = 1 + Len(s1)
    BY <1>4, <2>1, <2>5 DEF Set
  <2> QED
    BY <2>1, <2>2, <2>3, <2>4, <2>5
<1>6. /\ b \in Seq(T) /\ Len(b) = Len(a) + Set(m.thread)
      /\ \A i \in 1..Len(a) : b[i] = a[i]
  <2> HIDE DEF a
  <2>0. a \in Seq(T) /\ s3 \in Seq(T)
    BY <1>4, <1>5
  <2>1. /\ a \o s3 \in Seq(T) /\ Len(a \o s3) = Len(a) + Len(s3)
        /\ \A i \in 1..Len(a) : (a \o s3)[i] = a[i]
    BY ONLY <2>0, Joined
  <2> QED
    BY <1>4, <2>1
<1>7. /\ c \in Seq(T) /\ Len(c) = Len(b) + Set(m.dialect)
      /\ \A i \in 1..Len(b) : c[i] = b[i]
  <2> HIDE DEF b
  <2>0. b \in Seq(T) /\ s4 \in Seq(T)
    BY <1>4, <1>6
  <2>1. /\ b \o s4 \in Seq(T) /\ Len(b \o s4) = Len(b) + Len(s4)
        /\ \A i \in 1..Len(b) : (b \o s4)[i] = b[i]
    BY ONLY <2>0, Joined
  <2> QED
    BY <1>4, <2>1
<1>8. /\ typed \in Seq(T) /\ Len(typed) = Len(c) + Len(m.extra_tags)
      /\ \A i \in 1..Len(c) : typed[i] = c[i]
      /\ \A i \in 1..Len(m.extra_tags) : typed[i + Len(c)] = m.extra_tags[i]
  <2>1. typed = c \o m.extra_tags
    OBVIOUS
  <2> HIDE DEF c, typed
  <2>0. c \in Seq(T) /\ m.extra_tags \in Seq(T)
    BY <1>3, <1>7
  <2>2. /\ c \o m.extra_tags \in Seq(T) /\ Len(c \o m.extra_tags) = Len(c) + Len(m.extra_tags)
        /\ \A i \in 1..Len(c) : (c \o m.extra_tags)[i] = c[i]
        /\ \A i \in 1..Len(m.extra_tags) : (c \o m.extra_tags)[i + Len(c)] = m.extra_tags[i]
    BY ONLY <2>0, Joined
  <2> QED
    BY <2>1, <2>2
<1> HIDE DEF a, b, c, typed
<1>9. /\ Len(c) = own /\ own \in Nat
      /\ Set(m.recipient) \in {0, 1} /\ Len(a) \in 1..Len(c)
      /\ \A i \in 1..Len(a) : typed[i] = a[i]
  <2>1. /\ Len(c) = own /\ own \in Nat /\ Set(m.recipient) \in {0, 1}
        /\ Len(a) \in Nat /\ Len(a) >= 1 /\ Len(a) <= Len(b) /\ Len(b) <= Len(c)
        /\ Len(b) \in Nat /\ Len(c) \in Nat
    BY <1>5, <1>6, <1>7 DEF Set
  <2> HIDE DEF own
  <2>2. \A i \in 1..Len(a) : i \in 1..Len(b) /\ i \in 1..Len(c)
    BY <2>1
  <2> QED
    BY <1>6, <1>7, <1>8, <2>1, <2>2
<1>10. /\ IsList(tags) /\ Len(tags) = Len(typed) /\ DOMAIN tags = 1..Len(typed)
       /\ \A i \in 1..Len(typed) : tags[i] = Tag_to_raw(typed[i])
  <2>1. DOMAIN typed = 1..Len(typed) /\ Len(typed) \in Nat
    BY <1>8
  <2> QED
    BY <2>1 DEF IsList
<1> HIDE DEF tags
<1>11. Tag_to_raw(to) = <<"p", m.recipient>>
       /\ Tag_to_raw(verb) = <<"performative", m.performative>>
  <2>1. /\ Variant["p"] = "PubKey" /\ Variant["performative"] = "Performative"
        /\ {"p", "performative"} \subseteq SingleKeys
    BY DEF Variant, SingleKeys
  <2> QED
    BY <2>1, TagIsWritten DEF to, verb
<1>12. Opens(tags, m.recipient, m.performative)
  <2>1. tags[Len(a)] = <<"performative", m.performative>> /\ Len(a) \in DOMAIN tags
    BY <1>3, <1>5, <1>8, <1>9, <1>10, <1>11
  <2>2. m.recipient # None => tags[1] = <<"p", m.recipient>> /\ 1 \in DOMAIN tags
    BY <1>3, <1>5, <1>8, <1>9, <1>10, <1>11
  <2> QED
    BY <1>5, <1>10, <2>1, <2>2 DEF Opens, Set
<1>13. /\ Len(tags) = own + Len(m.extra_tags)
       /\ \A i \in 1..Len(m.extra_tags) : tags[i + own] = Tag_to_raw(m.extra_tags[i])
  <2>1. \A i \in 1..Len(m.extra_tags) : i + own \in 1..Len(typed)
    BY <1>3, <1>8, <1>9
  <2> QED
    BY <1>8, <1>9, <1>10, <2>1
<1> QED
  BY <1>0, <1>1, <1>12, <1>13

-----------------------------------------------------------------------------
(* Messages.                                                               *)

\* A message that opens with its performative arrives when it is signed here.
LEMMA SignedArrives ==
  ASSUME NEW tags, NEW to, NEW verb, verb # None, NEW body, Opens(tags, to, verb),
         NEW id, NEW key, NEW time, NEW sig
  PROVE  MessageArrives(Signed([id |-> id, pubkey |-> key, created_at |-> time,
                                kind |-> KIND_AGENT_MESSAGE, tags |-> tags,
                                content |-> encode(verb, body), sig |-> sig]))
<1> DEFINE e == Signed([id |-> id, pubkey |-> key, created_at |-> time,
                        kind |-> KIND_AGENT_MESSAGE, tags |-> tags,
                        content |-> encode(verb, body), sig |-> sig])
<1>1. e.kind = KIND_AGENT_MESSAGE /\ e.tags = tags /\ e.content = encode(verb, body)
  BY SignedFields
<1>2. verify_event(e).ok
  BY SignedVerifies
<1> HIDE DEF e
<1>3. MessageArrives(e)
  BY <1>1, <1>2, OpenedArrives
<1> QED
  BY <1>3 DEF e

\* So does what the message builder makes.
LEMMA MessageBuiltArrives ==
  ASSUME NEW m, build(m).ok, IsList(m.extra_tags)
  PROVE  MessageArrives(Signed(build(m).val))
<1>1. PICK tags :
        /\ build(m).val = Unsigned(KIND_AGENT_MESSAGE, tags, encode(m.performative, m.body))
        /\ m.performative # None /\ Opens(tags, m.recipient, m.performative)
  BY BuildWrites
<1>2. Unsigned(KIND_AGENT_MESSAGE, tags, encode(m.performative, m.body))
        = [id |-> NoId, pubkey |-> None, created_at |-> 0, kind |-> KIND_AGENT_MESSAGE,
           tags |-> tags, content |-> encode(m.performative, m.body), sig |-> NoId]
  BY DEF Unsigned
<1> QED
  BY <1>1, <1>2, SignedArrives

\* A claim or an assignment of a task.
LEMMA TaskRefArrives ==
  ASSUME NEW verb, NEW to, NEW task, TaskRef(verb, to, task).ok
  PROVE  MessageArrives(Signed(TaskRef(verb, to, task).val))
<1> DEFINE m == [Message(verb) EXCEPT !.recipient = to, !.body = <<"task-ref", task>>,
                   !.extra_tags = <<[variant |-> "Event", args |-> <<task>>]>>]
<1>1. m.extra_tags = <<[variant |-> "Event", args |-> <<task>>]>>
  BY DEF Message
<1>2. TaskRef(verb, to, task) = build(m)
  BY DEF TaskRef
<1> HIDE DEF m
<1>3. IsList(m.extra_tags)
  BY <1>1 DEF IsList
<1> QED
  BY <1>2, <1>3, MessageBuiltArrives

\* A reply on a thread.
LEMMA ReplyArrives ==
  ASSUME NEW t, NEW verb, NEW to,
         build([continue_thread(t, verb) EXCEPT !.recipient = to]).ok
  PROVE  MessageArrives(Signed(build([continue_thread(t, verb) EXCEPT !.recipient = to]).val))
<1> DEFINE m == [continue_thread(t, verb) EXCEPT !.recipient = to]
           last == threads[t].event_chain[Len(threads[t].event_chain)]
<1>1. m.extra_tags \in {<<>>, <<[variant |-> "Event", args |-> <<last>>]>>}
  BY DEF continue_thread, Message
<1> HIDE DEF last, m
<1>2. IsList(m.extra_tags)
  BY <1>1 DEF IsList
<1>3. MessageArrives(Signed(build(m).val))
  BY <1>2, MessageBuiltArrives DEF m
<1> QED
  BY <1>3 DEF m

-----------------------------------------------------------------------------
(* Mined messages.                                                         *)

\* Mining leaves the opening of a message as it is.
LEMMA NonceKeepsOpening ==
  ASSUME NEW tags, NamesThreads(tags), NEW to, NEW verb, Opens(tags, to, verb),
         NEW nonce, NEW target
  PROVE  Opens(WithNonce(tags, nonce, target), to, verb)
<1> DEFINE places == {i \in DOMAIN tags : IsNonce(tags[i])}
           next == WithNonce(tags, nonce, target)
           S == {tags[i] : i \in DOMAIN tags}
<1>1. tags \in Seq(S) /\ DOMAIN tags = 1..Len(tags) /\ Len(tags) \in Nat
  BY ListIsSeq DEF Opens, IsList
<1>2. IsList(next)
  BY NonceKeepsThreads DEF NamesThreads
<1>3. ASSUME NEW i \in DOMAIN tags, tags[i][1] # "nonce"
      PROVE  i \in DOMAIN next /\ next[i] = tags[i]
  <2>1. i \notin places
    BY <1>3 DEF IsNonce
  <2>2. CASE places = {}
    <3> DEFINE tag == <<"nonce", nonce, target>>
    <3>1. next = Append(tags, tag)
      BY <2>2 DEF WithNonce
    <3> HIDE DEF next, tag, S, places
    <3>2. /\ Append(tags, tag) \in Seq(S \union {tag})
          /\ Len(Append(tags, tag)) = Len(tags) + 1
          /\ \A j \in 1..Len(tags) : Append(tags, tag)[j] = tags[j]
      BY <1>1
    <3>3. DOMAIN Append(tags, tag) = 1..(Len(tags) + 1)
      BY <1>1, <3>2, SeqIsList
    <3> QED
      BY <1>1, <3>1, <3>2, <3>3
  <2>3. CASE places # {}
    <3> DEFINE first == CHOOSE j \in places : \A k \in places : j <= k
               new == <<"nonce", nonce, target>> \o SubSeq(tags[first], 4, Len(tags[first]))
    <3>1. next = [tags EXCEPT ![first] = new]
      BY <2>3 DEF WithNonce
    <3>2. first \in places
      <4>1. places \in SUBSET Nat
        BY <1>1
      <4>2. \E j \in places : \A k \in places : j <= k
        BY <2>3, <4>1, LeastNumber
      <4> QED
        BY <4>2
    <3> HIDE DEF first, new, next, places
    <3>3. first # i
      BY <2>1, <3>2
    <3> QED
      BY <3>1, <3>3
  <2> QED
    BY <2>2, <2>3
<1> HIDE DEF next
<1>4. <<"performative", verb>>[1] # "nonce" /\ <<"p", to>>[1] # "nonce"
  OBVIOUS
<1>5. CASE to = None
  BY <1>2, <1>3, <1>4, <1>5 DEF Opens, next
<1>6. CASE to # None
  BY <1>2, <1>3, <1>4, <1>6 DEF Opens, next
<1> QED
  BY <1>5, <1>6

\* What is mined and then signed keeps its id, and with it its work.
LEMMA MinedArrives ==
  ASSUME NEW m \in Messages, build(m).ok, IsList(m.extra_tags),
         NEW mined \in mine_pow([build(m).val EXCEPT !.pubkey = Me, !.created_at = now],
                                required_pow_bits)
  PROVE  WorkIsKept(Signed(mined))
<1> DEFINE event == [build(m).val EXCEPT !.pubkey = Me, !.created_at = now]
           content == encode(m.performative, m.body)
<1>1. PICK tags :
        /\ build(m).val = Unsigned(KIND_AGENT_MESSAGE, tags, content)
        /\ m.performative # None /\ Opens(tags, m.recipient, m.performative)
  BY BuildWrites
<1>2. NamesThreads(tags)
  <2>1. NamesThreads(build(m).val.tags)
    BY MessagesAreBuilt, OutgoingAssumption
  <2> QED
    BY <1>1, <2>1 DEF Unsigned
<1>3. event = AuthoredAt(KIND_AGENT_MESSAGE, tags, content, Me, now)
  BY <1>1, AuthorIsSet
<1> HIDE DEF event, content
<1>4. PICK n : /\ mined = Attempt(event, n, required_pow_bits)
               /\ Bits(mined.id) % 256 >= required_pow_bits
  BY DEF mine_pow, event
<1> DEFINE written == WithNonce(tags, n, required_pow_bits)
           tried == [id |-> NoId, pubkey |-> Me, created_at |-> now,
                     kind |-> KIND_AGENT_MESSAGE, tags |-> written,
                     content |-> content, sig |-> NoId]
           id == compute_event_id_raw(tried)
<1>5. mined = [id |-> id, pubkey |-> Me, created_at |-> now,
               kind |-> KIND_AGENT_MESSAGE, tags |-> written,
               content |-> content, sig |-> NoId]
  <2>1. [event EXCEPT !.tags = WithNonce(@, n, required_pow_bits)] = tried
    BY <1>3 DEF AuthoredAt
  <2> HIDE DEF written
  <2>2. Attempt(event, n, required_pow_bits) = [tried EXCEPT !.id = compute_event_id_raw(tried)]
    BY <2>1 DEF Attempt
  <2> HIDE DEF id
  <2>3. [tried EXCEPT !.id = id]
          = [id |-> id, pubkey |-> Me, created_at |-> now,
             kind |-> KIND_AGENT_MESSAGE, tags |-> written,
             content |-> content, sig |-> NoId]
    OBVIOUS
  <2> QED
    BY <1>4, <2>2, <2>3 DEF id
<1>6. tried.content = content /\ compute_event_id(tried)
        = <<Me, now, KIND_AGENT_MESSAGE, written, content>>
  BY DEF compute_event_id
<1>7. Opens(written, m.recipient, m.performative)
  BY <1>1, <1>2, NonceKeepsOpening
<1>8. MessageArrives(Signed(mined))
  <2> HIDE DEF id, written
  <2> QED
    BY <1>1, <1>5, <1>7, SignedArrives DEF content
<1>9. Signed(mined).content = content
      /\ Signed(mined).id = <<Me, now, KIND_AGENT_MESSAGE, written, content>>
  <2> HIDE DEF id, written
  <2>1. Signed(mined).content = content
    BY <1>5, SignedFields
  <2>2. Signed(mined).id = <<Me, now, KIND_AGENT_MESSAGE, written, content>>
    BY <1>5, AgentAssumption DEF Signed, sign_event, compute_event_id, Ok
  <2> QED
    BY <2>1, <2>2
<1>10. ASSUME ~Escapes(content)
       PROVE  Signed(mined).id = mined.id
  <2>1. id = compute_event_id(tried)
    BY <1>6, <1>10 DEF compute_event_id_raw
  <2>2. mined.id = id
    BY <1>5
  <2> QED
    BY <1>6, <1>9, <2>1, <2>2
<1>11. ~Escapes(content) => verify_pow(Signed(mined), required_pow_bits).ok
  BY <1>4, <1>10 DEF verify_pow, count_leading_zero_bits, Ok
<1> QED
  BY <1>8, <1>9, <1>11 DEF WorkIsKept

-----------------------------------------------------------------------------
(* Greetings.                                                              *)

\* A greeting that opens with its performative is taken by a directory.
LEMMA GreetingIsTaken ==
  ASSUME NEW e, e.kind = KIND_AGENT_MESSAGE, NEW verb \in {"hello", "bye"},
         Opens(e.tags, None, verb)
  PROVE  Gives(DiscoveryOutcome(e), verb)
<1>1. Tagged(e, "Performative") # {} /\ FindTag(e, "Performative") = verb
  BY OpeningIsFound
<1> QED
  BY <1>1 DEF DiscoveryOutcome, Gives, Ok

\* A farewell that was sent takes its author out of every directory.
LEMMA ByeArrives ==
  ASSUME NEW w, build_bye.ok
  PROVE  GreetingArrives("bye", w, Signed(build_bye.val))
<1> DEFINE m == Message("bye")
<1>1. /\ m.extra_tags = <<>> /\ m.performative = "bye" /\ m.recipient = None
      /\ m.body = <<>>
  BY DEF Message
<1>2. build_bye = build(m)
  BY DEF build_bye
<1> HIDE DEF m
<1>3. IsList(m.extra_tags)
  BY <1>1 DEF IsList
<1>4. MessageArrives(Signed(build(m).val))
  BY <1>2, <1>3, MessageBuiltArrives
<1>5. PICK tags :
        /\ build(m).val = Unsigned(KIND_AGENT_MESSAGE, tags, encode(m.performative, m.body))
        /\ Opens(tags, m.recipient, m.performative)
  BY <1>2, <1>3, BuildWrites
<1>6. /\ Signed(build(m).val).kind = KIND_AGENT_MESSAGE /\ Signed(build(m).val).tags = tags
      /\ Signed(build(m).val).content = encode(m.performative, m.body)
  BY <1>5, SignedFields DEF Unsigned
<1>7. Gives(DiscoveryOutcome(Signed(build(m).val)), "bye")
  BY <1>1, <1>5, <1>6, GreetingIsTaken
<1>8. HeadKept(Signed(build(m).val).content)
  BY <1>1, <1>6, ReadingAssumption
<1>9. process(Signed(build(m).val), Carries(Signed(build(m).val))).ok
  BY <1>4, <1>8 DEF MessageArrives
<1> QED
  BY <1>2, <1>4, <1>7, <1>9 DEF GreetingArrives

\* The tags that a greeting adds are written as a key and a value.
LEMMA RawTagIsWritten ==
  ASSUME NEW key, NEW value
  PROVE  Tag_to_raw(RawTag(key, value)) = <<key, value>>
BY DEF Tag_to_raw, RawTag

\* The places of s among them are the n after k.
Run(places, s, n, k) == \A j \in DOMAIN s : j \in places <=> \E i \in 1..n : j = i + k

\* A run of places in a sequence picks that part of it.
LEMMA RunIsPicked ==
  ASSUME NEW S, NEW s \in Seq(S), NEW n \in Nat, NEW k \in Nat, n + k <= Len(s),
         NEW places, Run(places, s, n, k)
  PROVE  Picked(s, places) = [i \in 1..n |-> s[i + k]]
<1> DEFINE p == [i \in 1..n |-> s[i + k]]
           h == [i \in 1..n |-> i + k]
           at == places \cap DOMAIN s
<1>1. DOMAIN s = 1..Len(s) /\ Len(s) \in Nat /\ \A i \in 1..n : i + k \in DOMAIN s
  OBVIOUS
<1>2. p \in Seq(S) /\ Len(p) = n /\ \A i \in 1..n : p[i] = s[h[i]]
  BY <1>1
<1>3. Increasing(h, n, at)
  <2>1. \A i \in 1..n : h[i] = i + k /\ h[i] \in at
    BY <1>1 DEF Run
  <2>2. h \in [1..n -> at]
    BY <2>1
  <2>3. \A a \in at : \E i \in 1..n : h[i] = a
    BY <2>1 DEF Run
  <2>4. \A i, j \in 1..n : i < j => h[i] < h[j]
    BY <2>1
  <2> QED
    BY <2>2, <2>3, <2>4 DEF Increasing
<1> HIDE DEF p, h
<1>4. Picked(s, places) = p
  BY <1>2, <1>3, PickedIs
<1> QED
  BY <1>4 DEF p

\* A single place picks its element.
LEMMA OneIsPicked ==
  ASSUME NEW S, NEW s \in Seq(S), NEW k \in DOMAIN s,
         NEW places, \A j \in DOMAIN s : j \in places <=> j = k
  PROVE  Picked(s, places) = <<s[k]>>
<1> DEFINE p == <<s[k]>>
           h == [i \in 1..1 |-> k]
<1>1. p \in Seq(S) /\ Len(p) = 1 /\ \A i \in 1..Len(p) : p[i] = s[h[i]]
  OBVIOUS
<1>2. Increasing(h, 1, places \cap DOMAIN s)
  BY DEF Increasing
<1> HIDE DEF p, h
<1>3. s \in Seq(S) /\ p \in Seq(S) /\ Increasing(h, Len(p), places \cap DOMAIN s)
      /\ \A i \in 1..Len(p) : p[i] = s[h[i]]
  BY <1>1, <1>2
<1>4. Picked(s, places) = p
  BY ONLY <1>3, PickedIs
<1> QED
  BY <1>4 DEF p

\* An event with the tags of a greeting.
Greets(event, type, capabilities) ==
  \E tags :
    /\ event = Unsigned(KIND_AGENT_MESSAGE, tags, encode("hello", <<>>))
    /\ Opens(tags, None, "hello") /\ IsList(tags)
    /\ Len(tags) = Len(capabilities) + 2
    /\ tags[1] = <<"performative", "hello">> /\ tags[2] = <<TAG_AGENT_TYPE, type>>
    /\ \A i \in 1..Len(capabilities) : tags[i + 2] = <<TAG_CAPABILITY, capabilities[i]>>

\* A greeting is built with them.
LEMMA HelloTags ==
  ASSUME NEW type, NEW capabilities, IsList(capabilities), build_hello(type, capabilities).ok
  PROVE  Greets(build_hello(type, capabilities).val, type, capabilities)
<1> DEFINE own == <<RawTag(TAG_AGENT_TYPE, type)>>
           rest == [i \in DOMAIN capabilities |-> RawTag(TAG_CAPABILITY, capabilities[i])]
           m == [Message("hello") EXCEPT !.extra_tags = own \o rest]
           S == {rest[i] : i \in DOMAIN rest} \union {RawTag(TAG_AGENT_TYPE, type)}
<1>1. DOMAIN capabilities = 1..Len(capabilities) /\ Len(capabilities) \in Nat
  BY ListIsSeq DEF IsList
<1>2. rest \in Seq(S) /\ Len(rest) = Len(capabilities)
      /\ \A i \in 1..Len(capabilities) : rest[i] = RawTag(TAG_CAPABILITY, capabilities[i])
  BY <1>1
<1>3. own \in Seq(S) /\ Len(own) = 1 /\ own[1] = RawTag(TAG_AGENT_TYPE, type)
  OBVIOUS
<1>4. /\ m.performative = "hello" /\ m.recipient = None /\ m.thread = None
      /\ m.dialect = None /\ m.extra_tags = own \o rest /\ m.body = <<>>
  BY DEF Message
<1>5. build_hello(type, capabilities) = build(m)
  BY DEF build_hello
<1> HIDE DEF own, rest, m, S
<1>6. /\ own \o rest \in Seq(S) /\ Len(own \o rest) = Len(own) + Len(rest)
      /\ \A i \in 1..Len(own) : (own \o rest)[i] = own[i]
      /\ \A i \in 1..Len(rest) : (own \o rest)[i + Len(own)] = rest[i]
  <2>1. own \in Seq(S) /\ rest \in Seq(S)
    BY <1>2, <1>3
  <2> QED
    BY ONLY <2>1, Joined
<1>7. /\ IsList(m.extra_tags) /\ Len(m.extra_tags) = Len(capabilities) + 1
      /\ m.extra_tags[1] = RawTag(TAG_AGENT_TYPE, type)
      /\ \A i \in 1..Len(capabilities) :
           m.extra_tags[i + 1] = RawTag(TAG_CAPABILITY, capabilities[i])
  <2>1. IsList(own \o rest)
    BY <1>6, SeqIsList
  <2> QED
    BY <1>1, <1>2, <1>3, <1>4, <1>6, <2>1
<1>8. PICK tags :
        /\ build(m).val = Unsigned(KIND_AGENT_MESSAGE, tags, encode(m.performative, m.body))
        /\ Opens(tags, m.recipient, m.performative)
        /\ Len(tags) = 1 + Len(m.extra_tags)
        /\ \A i \in 1..Len(m.extra_tags) : tags[i + 1] = Tag_to_raw(m.extra_tags[i])
  <2>1. Set(m.recipient) + 1 + Set(m.thread) + Set(m.dialect) = 1
    BY <1>4 DEF Set
  <2>2. build(m).ok
    BY <1>5
  <2> QED
    BY <1>7, <2>1, <2>2, BuildWrites
<1>9. /\ IsList(tags) /\ Len(tags) = Len(capabilities) + 2
      /\ tags[1] = <<"performative", "hello">>
  BY <1>1, <1>4, <1>7, <1>8 DEF Opens
<1>10. tags[2] = <<TAG_AGENT_TYPE, type>>
  <2>1. tags[1 + 1] = Tag_to_raw(m.extra_tags[1])
    BY <1>1, <1>7, <1>8
  <2> QED
    BY <1>7, <2>1, RawTagIsWritten
<1>11. ASSUME NEW i \in 1..Len(capabilities)
       PROVE  tags[i + 2] = <<TAG_CAPABILITY, capabilities[i]>>
  <2>1. i + 1 \in 1..Len(m.extra_tags) /\ (i + 1) + 1 = i + 2
    BY <1>1, <1>7
  <2>2. tags[i + 2] = Tag_to_raw(m.extra_tags[i + 1])
    BY <1>8, <2>1
  <2> QED
    BY <1>7, <2>2, RawTagIsWritten
<1> QED
  BY <1>4, <1>5, <1>8, <1>9, <1>10, <1>11 DEF Greets

\* A greeting is taken with what it announced.
LEMMA HelloArrives ==
  ASSUME NEW w, IsList(w.capabilities), build_hello(w.agent_type, w.capabilities).ok
  PROVE  GreetingArrives("hello", w, Signed(build_hello(w.agent_type, w.capabilities).val))
<1> DEFINE type == w.agent_type
           capabilities == w.capabilities
           made == build_hello(type, capabilities).val
           e == Signed(made)
<1>0. IsList(capabilities) /\ build_hello(type, capabilities).ok
  OBVIOUS
<1> HIDE DEF type, capabilities
<1>1. PICK tags :
        /\ made = Unsigned(KIND_AGENT_MESSAGE, tags, encode("hello", <<>>))
        /\ Opens(tags, None, "hello") /\ IsList(tags)
        /\ Len(tags) = Len(capabilities) + 2
        /\ tags[1] = <<"performative", "hello">> /\ tags[2] = <<TAG_AGENT_TYPE, type>>
        /\ \A i \in 1..Len(capabilities) : tags[i + 2] = <<TAG_CAPABILITY, capabilities[i]>>
  <2>1. Greets(build_hello(type, capabilities).val, type, capabilities)
    BY <1>0, HelloTags
  <2> QED
    BY <2>1 DEF Greets
<1>2. made = [id |-> NoId, pubkey |-> None, created_at |-> 0, kind |-> KIND_AGENT_MESSAGE,
              tags |-> tags, content |-> encode("hello", <<>>), sig |-> NoId]
  BY <1>1 DEF Unsigned
<1> HIDE DEF made
<1>3. e.kind = KIND_AGENT_MESSAGE /\ e.tags = tags /\ HeadKept(e.content)
  BY <1>2, SignedFields, ReadingAssumption
<1>4. MessageArrives(e)
  <2>1. "hello" # None
    BY DEF None
  <2> QED
    BY <1>1, <1>2, <2>1, SignedArrives
<1> HIDE DEF e
<1>5. Gives(DiscoveryOutcome(e), "hello")
  BY <1>1, <1>3, GreetingIsTaken
<1> DEFINE S == {tags[i] : i \in DOMAIN tags}
<1>6. /\ tags \in Seq(S) /\ DOMAIN tags = 1..Len(tags) /\ Len(tags) \in Nat
      /\ DOMAIN capabilities = 1..Len(capabilities) /\ Len(capabilities) \in Nat
      /\ capabilities = [i \in 1..Len(capabilities) |-> capabilities[i]]
  BY <1>0, <1>1, ListIsSeq DEF IsList
<1>7. \A i \in DOMAIN tags : i = 1 \/ i = 2 \/ (i - 2 \in 1..Len(capabilities) /\ (i - 2) + 2 = i)
  BY <1>1, <1>6
<1>8. /\ tags[1][1] = "performative" /\ tags[2][1] = TAG_AGENT_TYPE /\ tags[2][2] = type
      /\ Len(tags[2]) = 2
      /\ \A i \in 1..Len(capabilities) :
           /\ Len(tags[i + 2]) = 2
           /\ tags[i + 2][1] = TAG_CAPABILITY /\ tags[i + 2][2] = capabilities[i]
  <2>1. tags[1][1] = "performative"
    BY <1>1
  <2>2. tags[2][1] = TAG_AGENT_TYPE /\ tags[2][2] = type /\ Len(tags[2]) = 2
    BY <1>1
  <2>3. ASSUME NEW i \in 1..Len(capabilities)
        PROVE  /\ Len(tags[i + 2]) = 2
               /\ tags[i + 2][1] = TAG_CAPABILITY /\ tags[i + 2][2] = capabilities[i]
    <3>1. tags[i + 2] = <<TAG_CAPABILITY, capabilities[i]>>
      BY <1>1
    <3> QED
      BY <3>1
  <2> QED
    BY <2>1, <2>2, <2>3
<1> HIDE DEF S
<1>9. AgentEntry(e).agent_type = type
  <2> DEFINE places == {i \in DOMAIN tags : Valued(tags[i], TAG_AGENT_TYPE)}
  <2>1. \A j \in DOMAIN tags : j \in places <=> j = 2
    <3> TAKE j \in DOMAIN tags
    <3>1. CASE j = 1
      BY <1>8, <3>1 DEF Valued, TAG_AGENT_TYPE
    <3>2. CASE j = 2
      BY <1>8, <3>2 DEF Valued
    <3>3. CASE j - 2 \in 1..Len(capabilities) /\ (j - 2) + 2 = j
      <4>1. tags[j][1] = TAG_CAPABILITY
        BY <1>8, <3>3
      <4>2. j # 2
        BY <1>6, <3>3
      <4> QED
        BY <4>1, <4>2 DEF Valued, TAG_AGENT_TYPE, TAG_CAPABILITY
    <3> QED
      BY <1>7, <3>1, <3>2, <3>3
  <2>2. 2 \in DOMAIN tags
    BY <1>1, <1>6
  <2> HIDE DEF places
  <2>3. Picked(tags, places) = <<tags[2]>>
    BY <1>6, <2>1, <2>2, OneIsPicked
  <2>4. extract_tag_value(tags, TAG_AGENT_TYPE)
          = IF Picked(tags, places) = <<>> THEN None ELSE Picked(tags, places)[1][2]
    BY DEF extract_tag_value, Filtered, places
  <2>5. extract_tag_value(tags, TAG_AGENT_TYPE) = type
    BY <1>8, <2>3, <2>4
  <2> QED
    BY <1>3, <2>5 DEF AgentEntry
<1>10. AgentEntry(e).capabilities = capabilities
  <2> DEFINE places == {i \in DOMAIN tags : Valued(tags[i], TAG_CAPABILITY)}
             n == Len(capabilities)
             found == [i \in 1..n |-> tags[i + 2]]
  <2>1. Run(places, tags, n, 2)
    <3>1. 1 \notin places /\ 2 \notin places
      BY <1>8 DEF Valued, TAG_AGENT_TYPE, TAG_CAPABILITY
    <3>2. \A i \in 1..n : i + 2 \in places
      <4> TAKE i \in 1..n
      <4>1. i + 2 \in DOMAIN tags
        BY <1>1, <1>6
      <4>2. Valued(tags[i + 2], TAG_CAPABILITY)
        BY <1>8 DEF Valued
      <4> QED
        BY <4>1, <4>2
    <3> QED
      BY <1>6, <1>7, <3>1, <3>2 DEF Run
  <2> HIDE DEF places
  <2>2. Picked(tags, places) = found
    <3>1. n \in Nat /\ 2 \in Nat /\ n + 2 <= Len(tags)
      BY <1>1, <1>6
    <3> HIDE DEF n
    <3>2. Picked(tags, places) = [i \in 1..n |-> tags[i + 2]]
      BY <1>6, <2>1, <3>1, RunIsPicked
    <3> QED
      BY <3>2
  <2>3. extract_all_tag_values(tags, TAG_CAPABILITY)
          = [i \in DOMAIN Picked(tags, places) |-> Picked(tags, places)[i][2]]
    BY DEF extract_all_tag_values, Filtered, places
  <2>4. \A i \in 1..n : found[i][2] = capabilities[i]
    BY <1>8
  <2>5. [i \in DOMAIN found |-> found[i][2]] = capabilities
    BY <1>6, <2>4
  <2> QED
    BY <1>3, <2>2, <2>3, <2>5 DEF AgentEntry
<1>11. process(e, Carries(e)).ok
  BY <1>3, <1>4 DEF MessageArrives
<1>12. GreetingArrives("hello", w, e)
  BY <1>4, <1>5, <1>9, <1>10, <1>11 DEF GreetingArrives, type, capabilities
<1> QED
  BY <1>12 DEF e, made, type, capabilities

-----------------------------------------------------------------------------
(* Tasks.                                                                  *)

\* A filter for another kind, or for a tag that an event does not have, misses it.
LEMMA KindMisses ==
  ASSUME NEW filter, NEW kind, "kinds" \in DOMAIN filter, filter["kinds"] = {kind},
         NEW e, e.kind # kind
  PROVE  ~Matches(filter, e)
<1>1. ~FieldMatches("kinds", filter["kinds"], e)
  BY DEF FieldMatches
<1> QED
  BY <1>1 DEF Matches

\* A filter that asks for a tag misses an event without it.
LEMMA TagMisses ==
  ASSUME NEW filter, NEW name \in {"p_tags", "t_tags"}, name \in DOMAIN filter,
         NEW e, \A i \in DOMAIN e.tags : e.tags[i][1] # TagOf[name]
  PROVE  ~Matches(filter, e)
<1>1. FieldMatches(name, filter[name], e) = HasTag(e, TagOf[name], filter[name])
  BY DEF FieldMatches
<1>2. ~HasTag(e, TagOf[name], filter[name])
  BY DEF HasTag
<1> QED
  BY <1>1, <1>2 DEF Matches

\* A message for nobody and under no hashtag is found by no subscription.
LEMMA NobodyAsks ==
  ASSUME NEW e, e.kind = KIND_AGENT_MESSAGE,
         \A i \in DOMAIN e.tags : e.tags[i][1] \notin {"p", "t"}, NEW key \in Keys
  PROVE  ~Reaches(AllSubscriptions(key, Keys), e)
<1> DEFINE f1 == [kinds |-> {KIND_AGENT_MESSAGE}, p_tags |-> {key}]
           f2 == dialect_filter
           f3 == [kinds |-> {KIND_AGENT_MESSAGE}, t_tags |-> {"bounty"}]
           f4 == profile_filter_by_pubkeys(Keys)
           f5 == [kinds |-> {KIND_AGENT_DIALECT}, authors |-> Keys,
                  label_namespace_tags |-> {DialectLabel}]
           filters == AllSubscriptions(key, Keys)
<1>1. key # None /\ Keys # {}
  BY AgentAssumption
<1>2. ~Matches(f1, e)
  <2>1. "p_tags" \in DOMAIN f1 /\ TagOf["p_tags"] = "p"
    BY DEF TagOf
  <2> HIDE DEF f1
  <2> QED
    BY <2>1, TagMisses
<1>3. ~Matches(f2, e)
  <2>1. "kinds" \in DOMAIN f2 /\ f2["kinds"] = {KIND_AGENT_DIALECT}
        /\ KIND_AGENT_MESSAGE # KIND_AGENT_DIALECT
    BY DEF dialect_filter, KIND_AGENT_MESSAGE, KIND_AGENT_DIALECT
  <2> HIDE DEF f2
  <2> QED
    BY <2>1, KindMisses
<1>4. ~Matches(f3, e)
  <2>1. "t_tags" \in DOMAIN f3 /\ TagOf["t_tags"] = "t"
    BY DEF TagOf
  <2> HIDE DEF f3
  <2> QED
    BY <2>1, TagMisses
<1>5. ~Matches(f4, e)
  <2>1. "kinds" \in DOMAIN f4 /\ f4["kinds"] = {KIND_METADATA}
        /\ KIND_AGENT_MESSAGE # KIND_METADATA
    BY DEF profile_filter_by_pubkeys, KIND_AGENT_MESSAGE, KIND_METADATA
  <2> HIDE DEF f4
  <2> QED
    BY <2>1, KindMisses
<1>6. ~Matches(f5, e)
  <2>1. "kinds" \in DOMAIN f5 /\ f5["kinds"] = {KIND_AGENT_DIALECT}
        /\ KIND_AGENT_MESSAGE # KIND_AGENT_DIALECT
    BY DEF KIND_AGENT_MESSAGE, KIND_AGENT_DIALECT
  <2> HIDE DEF f5
  <2> QED
    BY <2>1, KindMisses
<1>7. /\ open_inbox(key).val = <<f1>> /\ open_dialect_listener.val = <<f2>>
      /\ open_bounty_board.val = <<f3>> /\ open_agent_discovery(Keys).val = <<f4>>
      /\ open_dialect_registry(Keys).val = <<f5>>
  BY <1>1 DEF open_inbox, open_dialect_listener, open_bounty_board, open_agent_discovery,
              open_dialect_registry, Ok
<1> HIDE DEF f1, f2, f3, f4, f5
<1>8. filters = <<f1>> \o <<f2>> \o <<f3>> \o <<f4>> \o <<f5>>
  BY <1>7 DEF AllSubscriptions
<1> DEFINE S == {f1, f2, f3, f4, f5}
<1>9. filters \in Seq(S)
  <2>1. f1 \in S /\ f2 \in S /\ f3 \in S /\ f4 \in S /\ f5 \in S
    OBVIOUS
  <2> HIDE DEF S, filters
  <2>2. <<f1>> \in Seq(S) /\ <<f2>> \in Seq(S) /\ <<f3>> \in Seq(S) /\ <<f4>> \in Seq(S)
        /\ <<f5>> \in Seq(S)
    BY <2>1
  <2> QED
    BY <1>8, <2>2
<1> HIDE DEF filters
<1>10. IsList(filters) /\ \A i \in DOMAIN filters : filters[i] \in S
  BY <1>9, SeqIsList
<1>11. \A i \in DOMAIN filters : ~Matches(filters[i], e)
  BY <1>2, <1>3, <1>4, <1>5, <1>6, <1>10
<1>12. ~Reaches(filters, e)
  BY <1>10, <1>11, OthersMissIt
<1> QED
  BY <1>12 DEF filters

\* A task or a withdrawal, which opens with its performative and has no tag
\* that a subscription asks for.
LEMMA UnaddressedArrives ==
  ASSUME NEW tags, NEW verb, verb # None, NEW body, Opens(tags, None, verb),
         \A i \in DOMAIN tags : tags[i][1] \notin {"p", "t"}
  PROVE  TaskArrives(Signed(Unsigned(KIND_AGENT_MESSAGE, tags, encode(verb, body))))
<1> DEFINE made == Unsigned(KIND_AGENT_MESSAGE, tags, encode(verb, body))
           e == Signed(made)
<1>1. made = [id |-> NoId, pubkey |-> None, created_at |-> 0, kind |-> KIND_AGENT_MESSAGE,
              tags |-> tags, content |-> encode(verb, body), sig |-> NoId]
  BY DEF Unsigned
<1> HIDE DEF made
<1>2. MessageArrives(e)
  BY <1>1, SignedArrives
<1>3. e.kind = KIND_AGENT_MESSAGE /\ e.tags = tags
  BY <1>1, SignedFields
<1> HIDE DEF e
<1>4. TaskArrives(e)
  BY <1>2, <1>3, NobodyAsks DEF TaskArrives
<1> QED
  BY <1>4 DEF e, made

\* A task that was sent arrives, and no manager's subscription finds it.
LEMMA TaskBuiltArrives ==
  ASSUME NEW description, NEW policy, NEW amount
  PROVE  TaskArrives(Signed(build_task(description, policy, amount)))
<1> DEFINE own == << <<"performative", "task">>, <<"claim-policy", policy>> >>
           rest == IF amount < 0 THEN <<>> ELSE << <<"amount", amount>> >>
           S == {<<"performative", "task">>, <<"claim-policy", policy>>, <<"amount", amount>>}
           tags == own \o rest
<1>1. own \in Seq(S) /\ rest \in Seq(S) /\ Len(own) = 2
      /\ own[1] = <<"performative", "task">>
  OBVIOUS
<1>2. build_task(description, policy, amount)
        = Unsigned(KIND_AGENT_MESSAGE, tags, encode("task", <<"description", description>>))
  BY DEF build_task
<1>3. \A raw \in S : raw[1] \notin {"p", "t"}
  OBVIOUS
<1> HIDE DEF own, rest, S
<1>4. /\ own \o rest \in Seq(S)
      /\ Len(own \o rest) = Len(own) + Len(rest)
      /\ \A i \in 1..Len(own) : (own \o rest)[i] = own[i]
  <2>1. own \in Seq(S) /\ rest \in Seq(S)
    BY <1>1
  <2> QED
    BY ONLY <2>1, Joined
<1> HIDE DEF tags
<1>5. tags \in Seq(S) /\ tags[1] = <<"performative", "task">> /\ Len(tags) >= 1
  BY <1>1, <1>4 DEF tags
<1>6. IsList(tags) /\ DOMAIN tags = 1..Len(tags) /\ \A i \in DOMAIN tags : tags[i] \in S
  BY <1>5, SeqIsList
<1>7. 1 \in DOMAIN tags
  BY <1>5, <1>6
<1>8. Opens(tags, None, "task") /\ \A i \in DOMAIN tags : tags[i][1] \notin {"p", "t"}
  BY <1>3, <1>5, <1>6, <1>7 DEF Opens
<1>9. "task" # None
  BY DEF None
<1> QED
  BY <1>2, <1>8, <1>9, UnaddressedArrives

\* So is its withdrawal.
LEMMA WithdrawBuiltArrives ==
  ASSUME NEW task
  PROVE  TaskArrives(Signed(build_withdraw(task)))
<1> DEFINE tags == << <<"performative", "withdraw">>, <<"e", task>> >>
<1>1. DOMAIN tags = 1..2 /\ tags[1] = <<"performative", "withdraw">>
      /\ tags[2] = <<"e", task>> /\ IsList(tags)
  BY DEF IsList
<1>2. build_withdraw(task)
        = Unsigned(KIND_AGENT_MESSAGE, tags, encode("withdraw", <<"task-ref", task>>))
  BY DEF build_withdraw
<1> HIDE DEF tags
<1>3. Opens(tags, None, "withdraw")
  BY <1>1 DEF Opens
<1>4. tags[1][1] = "performative" /\ tags[2][1] = "e"
  BY <1>1
<1>5. \A i \in DOMAIN tags : tags[i][1] \notin {"p", "t"}
  BY <1>1, <1>4
<1>6. "withdraw" # None
  BY DEF None
<1> QED
  BY <1>2, <1>3, <1>5, <1>6, UnaddressedArrives

-----------------------------------------------------------------------------
(* Commerce.                                                               *)

\* A commerce message is built as a tell to its recipient.
LEMMA CommerceBuilt ==
  ASSUME NEW w, build_commerce(w).ok, Typed("commerce", w)
  PROVE  \E tags :
           /\ build_commerce(w).val
                = Unsigned(KIND_AGENT_MESSAGE, tags,
                           encode("lang", <<COMMERCE_DIALECT_NAME,
                                            encode(w.performative, w.body)>>))
           /\ w.recipient # None /\ Opens(tags, w.recipient, "tell")
<1> DEFINE hashtag == <<[variant |-> "Hashtag", args |-> <<w.performative>>]>>
           m1 == [w EXCEPT !.performative = "tell"]
           m2 == [m1 EXCEPT !.body = <<>>]
           m3 == [m2 EXCEPT !.dialect = COMMERCE_DIALECT_NAME]
           m == [m3 EXCEPT !.extra_tags = hashtag \o @]
           content == wrap_commerce(encode(w.performative, w.body))
<1>1. /\ w = [performative |-> w.performative, recipient |-> w.recipient, body |-> w.body,
              thread |-> w.thread, dialect |-> w.dialect, extra_tags |-> w.extra_tags]
      /\ IsList(w.extra_tags)
  BY DEF Typed
<1>2. m1 = [performative |-> "tell", recipient |-> w.recipient, body |-> w.body,
            thread |-> w.thread, dialect |-> w.dialect, extra_tags |-> w.extra_tags]
  BY <1>1
<1>3. build_commerce(w)
        = IF build(m).ok THEN Ok([build(m).val EXCEPT !.content = content]) ELSE build(m)
  BY DEF build_commerce
<1> HIDE DEF hashtag, m1, content
<1>4. m2 = [performative |-> "tell", recipient |-> w.recipient, body |-> <<>>,
            thread |-> w.thread, dialect |-> w.dialect, extra_tags |-> w.extra_tags]
  BY <1>2
<1> HIDE DEF m2
<1>5. m3 = [performative |-> "tell", recipient |-> w.recipient, body |-> <<>>,
            thread |-> w.thread, dialect |-> COMMERCE_DIALECT_NAME,
            extra_tags |-> w.extra_tags]
  BY <1>4
<1> HIDE DEF m3
<1>6. m.performative = "tell" /\ m.recipient = w.recipient /\ m.extra_tags = hashtag \o w.extra_tags
  BY <1>5
<1> HIDE DEF m
<1>7. IsList(m.extra_tags)
  <2> DEFINE T == {w.extra_tags[i] : i \in DOMAIN w.extra_tags}
                    \union {[variant |-> "Hashtag", args |-> <<w.performative>>]}
  <2>1. hashtag \in Seq(T)
    BY DEF hashtag
  <2>2. w.extra_tags \in Seq(T)
    <3>1. {w.extra_tags[i] : i \in DOMAIN w.extra_tags} \subseteq T
      OBVIOUS
    <3>2. w.extra_tags \in Seq({w.extra_tags[i] : i \in DOMAIN w.extra_tags})
      BY <1>1, ListIsSeq
    <3> HIDE DEF T
    <3> QED
      BY <3>1, <3>2
  <2> HIDE DEF T
  <2>3. hashtag \o w.extra_tags \in Seq(T)
    BY <2>1, <2>2
  <2> QED
    BY <1>6, <2>3, SeqIsList
<1>8. build(m).ok /\ build_commerce(w) = Ok([build(m).val EXCEPT !.content = content])
  BY <1>3
<1>9. w.recipient # None
  BY <1>6, <1>8 DEF build, BROADCAST_PERFORMATIVES, Err
<1>10. PICK tags, inner :
         build(m).val = Unsigned(KIND_AGENT_MESSAGE, tags, inner) /\ Opens(tags, w.recipient, "tell")
  BY <1>6, <1>7, <1>8, BuildWrites
<1>11. [build(m).val EXCEPT !.content = content] = Unsigned(KIND_AGENT_MESSAGE, tags, content)
  BY <1>10 DEF Unsigned
<1>12. build_commerce(w).val = Unsigned(KIND_AGENT_MESSAGE, tags, content)
  BY <1>8, <1>11 DEF Ok
<1> QED
  BY <1>9, <1>10, <1>12 DEF content, wrap_commerce

\* It reaches its recipient, who can open it but whose inbox refuses it.
LEMMA CommerceBuiltArrives ==
  ASSUME NEW w, build_commerce(w).ok, Typed("commerce", w)
  PROVE  CommerceArrives(w, Signed(build_commerce(w).val))
<1> DEFINE inner == encode(w.performative, w.body)
           body == <<COMMERCE_DIALECT_NAME, inner>>
           made == build_commerce(w).val
           e == Signed(made)
<1>1. PICK tags :
        /\ made = Unsigned(KIND_AGENT_MESSAGE, tags, encode("lang", body))
        /\ w.recipient # None /\ Opens(tags, w.recipient, "tell")
  BY CommerceBuilt
<1>2. made = [id |-> NoId, pubkey |-> None, created_at |-> 0, kind |-> KIND_AGENT_MESSAGE,
              tags |-> tags, content |-> encode("lang", body), sig |-> NoId]
  BY <1>1 DEF Unsigned
<1>3. Len(body) = 2 /\ body[1] = COMMERCE_DIALECT_NAME /\ body[2] = inner
  OBVIOUS
<1> HIDE DEF made, inner, body
<1>4. e.kind = KIND_AGENT_MESSAGE /\ e.tags = tags /\ e.content = encode("lang", body)
  BY <1>2, SignedFields
<1>5. verify_event(e).ok
  BY <1>2, SignedVerifies
<1> HIDE DEF e
<1>6. Reaches(open_inbox(w.recipient).val, e)
  <2>1. Tagged(e, "PubKey") # {} /\ HasTag(e, "p", {w.recipient})
    <3>1. 1 \in DOMAIN e.tags /\ e.tags[1] = <<"p", w.recipient>>
      BY <1>1, <1>4 DEF Opens
    <3>2. Tagged(e, "PubKey") # {}
      BY <1>1, <1>4, OpeningIsFound
    <3>3. Len(e.tags[1]) = 2 /\ e.tags[1][1] = "p" /\ e.tags[1][2] = w.recipient
      BY <3>1
    <3> QED
      BY <3>1, <3>2, <3>3 DEF HasTag
  <2>2. open_inbox(w.recipient).ok
    BY <1>1 DEF open_inbox, Ok
  <2> QED
    BY <1>4, <2>1, <2>2, InboxReached
<1>7. ASSUME ReadsBack(e.content)
      PROVE  unwrap_commerce(decode(e.content).val) = {inner}
  BY <1>3, <1>4, <1>7 DEF unwrap_commerce, encode, ReadsBack, Gives
<1>8. ASSUME HeadKept(e.content)
      PROVE  process(e, Carries(e)) = Err("Mismatch")
  <2>1. decode(e.content).ok /\ decode(e.content).val.head = "lang"
    BY <1>4, <1>8 DEF HeadKept, encode
  <2>2. Tagged(e, "Performative") # {} /\ FindTag(e, "Performative") = "tell"
    BY <1>1, <1>4, OpeningIsFound
  <2>3. validate_performative(e) = Err("Mismatch")
    BY <2>1, <2>2 DEF validate_performative, extract_performative, None
  <2> QED
    BY <1>4, <1>5, <2>1, <2>3 DEF process, Err
<1>9. ASSUME ~decode(e.content).ok
      PROVE  process(e, Carries(e)) = Err("Parse")
  <2>1. decode(e.content) = Err("Parse")
    BY <1>4, <1>9 DEF decode, encode, Ok
  <2>2. process(e, Carries(e)) = decode(e.content)
    BY <1>4, <1>5, <1>9 DEF process
  <2> QED
    BY <2>1, <2>2
<1>10. CommerceArrives(w, e)
  BY <1>6, <1>7, <1>8, <1>9 DEF CommerceArrives, inner
<1> QED
  BY <1>10 DEF e, made

-----------------------------------------------------------------------------
(* Dialects.                                                               *)

\* A signed event: its builder's fields, its author and its time, under an id
\* of all of them and a signature of that id.
LEMMA SignsAs ==
  ASSUME NEW kind, NEW tags, NEW content, NEW key \in Keys, NEW time
  PROVE  LET id == <<key, time, kind, tags, content>>
         IN  sign_event(Unsigned(kind, tags, content), key, time)
               = Ok([id |-> id, pubkey |-> key, created_at |-> time, kind |-> kind,
                     tags |-> tags, content |-> content, sig |-> <<key, id>>])
<1> DEFINE event == Unsigned(kind, tags, content)
           dated == [event EXCEPT !.pubkey = key, !.created_at = time]
           id == <<key, time, kind, tags, content>>
           named == [dated EXCEPT !.id = id]
           signed == [named EXCEPT !.sig = <<key, id>>]
<1>1. dated = [id |-> NoId, pubkey |-> key, created_at |-> time, kind |-> kind,
               tags |-> tags, content |-> content, sig |-> NoId]
  <2>1. [Unsigned(kind, tags, content) EXCEPT !.pubkey = key, !.created_at = time]
          = AuthoredAt(kind, tags, content, key, time)
    BY AuthorIsSet
  <2> QED
    BY <2>1 DEF AuthoredAt
<1> HIDE DEF dated
<1>2. compute_event_id(dated) = id
  BY <1>1 DEF compute_event_id
<1>3. sign_event(event, key, time) = Ok(signed)
  <2>1. sign_event(event, key, time)
          = Ok([dated EXCEPT !.id = compute_event_id(dated),
                             !.sig = <<key, compute_event_id(dated)>>])
    BY DEF sign_event, dated
  <2>2. sign_event(event, key, time) = Ok([dated EXCEPT !.id = id, !.sig = <<key, id>>])
    BY <1>2, <2>1
  <2> HIDE DEF event, id
  <2> QED
    BY <2>2
<1> HIDE DEF id
<1>4. named = [id |-> id, pubkey |-> key, created_at |-> time, kind |-> kind,
               tags |-> tags, content |-> content, sig |-> NoId]
  BY <1>1
<1> HIDE DEF named
<1>5. signed = [id |-> id, pubkey |-> key, created_at |-> time, kind |-> kind,
                tags |-> tags, content |-> content, sig |-> <<key, id>>]
  BY <1>4
<1> HIDE DEF signed
<1> QED
  BY <1>3, <1>5 DEF id, event

\* What the agent signs now.
LEMMA SignedIs ==
  ASSUME NEW kind, NEW tags, NEW content
  PROVE  LET id == <<Me, now, kind, tags, content>>
         IN  Signed(Unsigned(kind, tags, content))
               = [id |-> id, pubkey |-> Me, created_at |-> now, kind |-> kind,
                  tags |-> tags, content |-> content, sig |-> <<Me, id>>]
<1> DEFINE id == <<Me, now, kind, tags, content>>
           signed == [id |-> id, pubkey |-> Me, created_at |-> now, kind |-> kind,
                      tags |-> tags, content |-> content, sig |-> <<Me, id>>]
<1>1. sign_event(Unsigned(kind, tags, content), Me, now) = Ok(signed)
  BY AgentAssumption, SignsAs
<1> HIDE DEF signed
<1>2. Signed(Unsigned(kind, tags, content)) = signed
  BY <1>1 DEF Signed, Ok
<1> QED
  BY <1>2 DEF signed

\* A filter finds an event when each of its fields matches.
LEMMA FieldsMatch ==
  ASSUME NEW e,
         NEW filter, \A name \in DOMAIN filter : FieldMatches(name, filter[name], e)
  PROVE  Matches(filter, e)
BY DEF Matches

\* The dialect as it is written: its signature is garbled.
Written(d) ==
  [name |-> d.name, author |-> IF d.author = None THEN "@anonymous" ELSE d.author,
   performatives |-> d.performatives, resources |-> d.resources,
   signature |-> IF d.signature = Unsigned_ THEN Unsigned_ ELSE Garbled]

\* A dialect is written as one definition, with its signature garbled.
LEMMA DialectIsWritten ==
  ASSUME NEW d, Typed("dialect", d)
  PROVE  serialize_dialect(d) = encode("define", Written(d))
<1> DEFINE signature == IF d.signature = Unsigned_ THEN Unsigned_ ELSE Garbled
           author == IF d.author = None THEN "@anonymous" ELSE d.author
           d1 == [d EXCEPT !.signature = signature]
           d2 == [d1 EXCEPT !.author = IF @ = None THEN "@anonymous" ELSE @]
<1>1. d = [name |-> d.name, author |-> d.author, performatives |-> d.performatives,
           resources |-> d.resources, signature |-> d.signature]
  BY DEF Typed
<1>2. serialize_dialect(d) = encode("define", d2)
  BY DEF serialize_dialect
<1> HIDE DEF signature
<1>3. d1 = [name |-> d.name, author |-> d.author, performatives |-> d.performatives,
            resources |-> d.resources, signature |-> signature]
  BY <1>1
<1> HIDE DEF d1
<1>4. d2 = [name |-> d.name, author |-> author, performatives |-> d.performatives,
            resources |-> d.resources, signature |-> signature]
  BY <1>3
<1> QED
  BY <1>2, <1>4 DEF Written, signature

\* The tags of a dialect match the filters that look for it.
LEMMA DialectTagsMatch ==
  ASSUME NEW e, NEW name, e.tags = DialectTags(name)
  PROVE  /\ HasTag(e, "L", {DialectLabel}) /\ HasTag(e, "l", {name})
         /\ Tagged(e, "Dialect") # {} /\ FindTag(e, "Dialect") = name
<1>1. /\ DOMAIN e.tags = 1..3 /\ e.tags[1] = <<"dialect", name>>
      /\ e.tags[2] = <<"L", DialectLabel>> /\ e.tags[3] = <<"l", name, DialectLabel>>
      /\ IsList(e.tags)
  BY DEF DialectTags, IsList
<1>2. HasTag(e, "L", {DialectLabel})
  <2>1. Len(e.tags[2]) = 2 /\ e.tags[2][1] = "L" /\ e.tags[2][2] = DialectLabel
    BY <1>1
  <2> QED
    BY <1>1, <2>1 DEF HasTag
<1>3. HasTag(e, "l", {name})
  <2>1. Len(e.tags[3]) = 3 /\ e.tags[3][1] = "l" /\ e.tags[3][2] = name
    BY <1>1
  <2> QED
    BY <1>1, <2>1 DEF HasTag
<1>4. Tagged(e, "Dialect") # {} /\ FindTag(e, "Dialect") = name
  <2>1. "dialect" \in SingleKeys /\ Variant["dialect"] = "Dialect"
    BY DEF SingleKeys, Variant
  <2>2. 1 \in DOMAIN e.tags /\ \A j \in DOMAIN e.tags : ~(j < 1)
    BY <1>1
  <2> QED
    BY <1>1, <2>1, <2>2, FirstIsFound
<1> QED
  BY <1>2, <1>3, <1>4

\* A dialect is found by all that look for it.
LEMMA DialectFound ==
  ASSUME NEW e, e.kind = KIND_AGENT_DIALECT, e.pubkey = Me,
         NEW name, e.tags = DialectTags(name)
  PROVE  /\ \A filter \in {dialect_filter, dialect_filter_by_name(name),
                           dialect_filter_by_author(e.pubkey)} : Finds(filter, e)
         /\ Reaches(open_dialect_listener.val, e) /\ Reaches(open_dialect_registry(Keys).val, e)
<1>1. /\ FieldMatches("kinds", {KIND_AGENT_DIALECT}, e)
      /\ FieldMatches("authors", {e.pubkey}, e) /\ FieldMatches("authors", Keys, e)
  BY AgentAssumption DEF FieldMatches
<1>2. /\ FieldMatches("label_namespace_tags", {DialectLabel}, e)
      /\ FieldMatches("label_tags", {name}, e)
  BY DialectTagsMatch DEF FieldMatches, TagOf
<1> DEFINE by_authors == [kinds |-> {KIND_AGENT_DIALECT}, authors |-> Keys,
                          label_namespace_tags |-> {DialectLabel}]
<1>3. Matches(dialect_filter, e)
  <2>1. /\ DOMAIN dialect_filter = {"kinds", "label_namespace_tags"}
        /\ dialect_filter["kinds"] = {KIND_AGENT_DIALECT}
        /\ dialect_filter["label_namespace_tags"] = {DialectLabel}
    BY DEF dialect_filter
  <2> QED
    BY <1>1, <1>2, <2>1, FieldsMatch
<1>4. Matches(dialect_filter_by_name(name), e)
  <2> DEFINE filter == dialect_filter_by_name(name)
  <2>1. /\ DOMAIN filter = {"kinds", "label_namespace_tags", "label_tags"}
        /\ filter["kinds"] = {KIND_AGENT_DIALECT}
        /\ filter["label_namespace_tags"] = {DialectLabel}
        /\ filter["label_tags"] = {name}
    BY DEF dialect_filter_by_name
  <2> HIDE DEF filter
  <2>2. Matches(filter, e)
    BY <1>1, <1>2, <2>1, FieldsMatch
  <2> QED
    BY <2>2 DEF filter
<1>5. Matches(dialect_filter_by_author(e.pubkey), e)
  <2> DEFINE filter == dialect_filter_by_author(e.pubkey)
  <2>1. /\ DOMAIN filter = {"kinds", "authors", "label_namespace_tags"}
        /\ filter["kinds"] = {KIND_AGENT_DIALECT} /\ filter["authors"] = {e.pubkey}
        /\ filter["label_namespace_tags"] = {DialectLabel}
    BY DEF dialect_filter_by_author
  <2> HIDE DEF filter
  <2>2. Matches(filter, e)
    BY <1>1, <1>2, <2>1, FieldsMatch
  <2> QED
    BY <2>2 DEF filter
<1>6. Matches(by_authors, e)
  <2>1. /\ DOMAIN by_authors = {"kinds", "authors", "label_namespace_tags"}
        /\ by_authors["kinds"] = {KIND_AGENT_DIALECT} /\ by_authors["authors"] = Keys
        /\ by_authors["label_namespace_tags"] = {DialectLabel}
    OBVIOUS
  <2> HIDE DEF by_authors
  <2> QED
    BY <1>1, <1>2, <2>1, FieldsMatch
<1>7. open_dialect_listener.val = <<dialect_filter>>
      /\ open_dialect_registry(Keys).val = <<by_authors>>
  BY AgentAssumption DEF open_dialect_listener, open_dialect_registry, Ok
<1> HIDE DEF by_authors
<1> QED
  BY <1>3, <1>4, <1>5, <1>6, <1>7, MatchFinds

\* A dialect that was sent and reads back is installed exactly when the checks
\* say so, and by the verified path only when it is not signed.
LEMMA DialectInstalls ==
  ASSUME NEW d, NEW e, e.kind = KIND_AGENT_DIALECT, e.pubkey = Me, verify_event(e).ok,
         e.tags = DialectTags(d.name), e.content = encode("define", Written(d)),
         ReadsBack(e.content)
  PROVE  /\ InstallOutcome(e).ok <=> InstallCheck(d)
         /\ VerifiedOutcome(e).ok <=> InstallCheck(d) /\ d.signature = Unsigned_
         /\ InstallCheck(d) => InstallOutcome(e).val.performatives = d.performatives
<1> DEFINE written == Written(d)
<1>1. /\ written.name = d.name /\ written.performatives = d.performatives
      /\ written.resources = d.resources
      /\ written.signature = IF d.signature = Unsigned_ THEN Unsigned_ ELSE Garbled
  BY DEF Written
<1> HIDE DEF written
<1>2. parse_dialect_event(e) = Ok(written)
  <2>1. /\ decode(e.content).ok /\ decode(e.content).val = e.content
        /\ e.content.head = "define" /\ e.content.body = written
    BY DEF ReadsBack, Gives, encode, written
  <2>2. parse_definition(e.content) = Ok(written)
    BY <2>1 DEF parse_definition
  <2>3. Tagged(e, "Dialect") # {} /\ FindTag(e, "Dialect") = written.name
    BY <1>1, DialectTagsMatch
  <2>4. decode(e.content).ok /\ decode(e.content).val = e.content
        /\ parse_definition(e.content).ok /\ parse_definition(e.content).val = written
    BY <2>1, <2>2 DEF Ok
  <2> QED
    BY <2>2, <2>3, <2>4 DEF parse_dialect_event
<1>3. verify_r1(written) = verify_r1(d) /\ verify_r2(written) = verify_r2(d)
      /\ verify_r3(written) = verify_r3(d)
  BY <1>1 DEF verify_r1, verify_r2, verify_r3
<1>4. InstallCheck(written) <=> InstallCheck(d)
  BY <1>3 DEF InstallCheck
<1>5. from_event(e, KIND_AGENT_DIALECT) = Ok(e)
  BY DEF from_event
<1>6. InstallOutcome(e) = IF InstallCheck(written) THEN Ok(written) ELSE Err("Install")
  BY <1>2, <1>5 DEF InstallOutcome, Ok
<1>7. verify_r4(e, written) = IF d.signature = Unsigned_ THEN "Unsigned" ELSE "Invalid"
  <2>1. verify_r4(e, written) = check_r4(written, Me)
    BY DEF verify_r4
  <2>2. CASE d.signature = Unsigned_
    <3>1. written.signature = Unsigned_ /\ Unsigned_ # <<Me, written.name>>
      BY <1>1, <2>2 DEF Unsigned_
    <3> QED
      BY <2>1, <2>2, <3>1 DEF check_r4
  <2>3. CASE d.signature # Unsigned_
    <3>1. written.signature = Garbled
      BY <1>1, <2>3
    <3>2. Garbled # Unsigned_
      BY DEF Garbled, Unsigned_
    <3>3. Garbled # <<Me, written.name>>
      <4>1. Me # None
        BY AgentAssumption
      <4>2. Garbled[1] = None /\ <<Me, written.name>>[1] = Me
        BY DEF Garbled
      <4> QED
        BY <4>1, <4>2
    <3>4. check_r4(written, Me) = "Invalid"
      BY <3>1, <3>2, <3>3 DEF check_r4
    <3> QED
      BY <2>1, <2>3, <3>4
  <2> QED
    BY <2>2, <2>3
<1>8. is_safe(verify_all(e, written)) <=> InstallCheck(d) /\ d.signature = Unsigned_
  <2> DEFINE Broken(r) == CASE r = "R1" -> ~verify_r1(written)
                            [] r = "R2" -> ~verify_r2(written)
                            [] r = "R3" -> ~verify_r3(written)
                            [] r = "R4" -> verify_r4(e, written) = "Invalid"
  <2>1. verify_all(e, written).violations = {r \in {"R1", "R2", "R3", "R4"} : Broken(r)}
    BY DEF verify_all
  <2>2. /\ Broken("R1") <=> ~verify_r1(written)
        /\ Broken("R2") <=> ~verify_r2(written)
        /\ Broken("R3") <=> ~verify_r3(written)
        /\ Broken("R4") <=> verify_r4(e, written) = "Invalid"
    OBVIOUS
  <2> HIDE DEF Broken
  <2>3. is_safe(verify_all(e, written)) <=> \A r \in {"R1", "R2", "R3", "R4"} : ~Broken(r)
    BY <2>1 DEF is_safe
  <2> QED
    BY <1>3, <1>7, <2>2, <2>3 DEF InstallCheck
<1>9. VerifiedOutcome(e)
        = IF is_safe(verify_all(e, written)) THEN InstallOutcome(e) ELSE Err("Safety")
  BY <1>2, <1>5 DEF VerifiedOutcome, Ok
<1>10. InstallOutcome(e).ok <=> InstallCheck(d)
  BY <1>4, <1>6 DEF Ok, Err
<1>11. VerifiedOutcome(e).ok <=> InstallCheck(d) /\ d.signature = Unsigned_
  BY <1>8, <1>9, <1>10 DEF Err
<1>12. InstallCheck(d) => InstallOutcome(e).val.performatives = d.performatives
  BY <1>1, <1>4, <1>6 DEF Ok
<1> QED
  BY <1>10, <1>11, <1>12

\* One that does not parse is not installed.
LEMMA UnreadIsRefused ==
  ASSUME NEW e, ~decode(e.content).ok
  PROVE  ~InstallOutcome(e).ok /\ ~VerifiedOutcome(e).ok
<1>1. ~parse_dialect_event(e).ok
  BY DEF parse_dialect_event, Err
<1> QED
  BY <1>1 DEF InstallOutcome, VerifiedOutcome

\* A dialect that was sent is found, and installed as the checks say.
LEMMA DialectBuiltArrives ==
  ASSUME NEW d, Typed("dialect", d)
  PROVE  DialectArrives(d, Signed(from_dialect(d)))
<1> DEFINE tags == DialectTags(d.name)
           content == encode("define", Written(d))
           made == Unsigned(KIND_AGENT_DIALECT, tags, content)
           e == Signed(made)
<1>1. from_dialect(d) = made
  BY DialectIsWritten DEF from_dialect, build_dialect
<1> HIDE DEF tags, content
<1>2. made = [id |-> NoId, pubkey |-> None, created_at |-> 0, kind |-> KIND_AGENT_DIALECT,
              tags |-> tags, content |-> content, sig |-> NoId]
  BY DEF Unsigned
<1> HIDE DEF made
<1>3. e.kind = KIND_AGENT_DIALECT /\ e.pubkey = Me /\ e.tags = tags /\ e.content = content
  BY <1>2, SignedFields
<1>4. verify_event(e).ok
  BY <1>2, SignedVerifies
<1> HIDE DEF e
<1>5. DialectArrives(d, e)
  BY <1>3, <1>4, DialectFound, DialectInstalls, UnreadIsRefused
  DEF DialectArrives, tags, content
<1> QED
  BY <1>1, <1>5 DEF e

-----------------------------------------------------------------------------
(* Zaps.                                                                   *)

\* The only tag with a key is the one at k.
OnlyAt(tags, key, k) ==
  k \in 1..Len(tags) /\ \A j \in 1..Len(tags) : tags[j][1] = key <=> j = k

Avoids(tags, key) == \A i \in 1..Len(tags) : tags[i][1] # key

\* A sequence keeps from an earlier one its first tag and its only one with a key.
Keeps(s, a, key, k) == OnlyAt(s, key, k) /\ s[k] = a[k] /\ s[1] = a[1]

\* It stays the only one when tags with other keys follow.
LEMMA OnlyKept ==
  ASSUME NEW S, NEW a \in Seq(S), NEW key, NEW k, OnlyAt(a, key, k),
         NEW b \in Seq(S), Avoids(b, key)
  PROVE  a \o b \in Seq(S) /\ Keeps(a \o b, a, key, k)
<1> DEFINE s == a \o b
<1>1. /\ s \in Seq(S) /\ Len(s) = Len(a) + Len(b)
      /\ \A i \in 1..Len(a) : s[i] = a[i]
      /\ \A i \in 1..Len(b) : s[i + Len(a)] = b[i]
  BY Joined
<1> HIDE DEF s
<1>2. Len(a) \in Nat /\ Len(b) \in Nat
  OBVIOUS
<1>3. k \in 1..Len(s) /\ s[k] = a[k] /\ s[1] = a[1]
  BY <1>1, <1>2 DEF OnlyAt
<1>4. \A j \in 1..Len(s) : s[j][1] = key <=> j = k
  <2> TAKE j \in 1..Len(s)
  <2>1. CASE j \in 1..Len(a)
    BY <1>1, <2>1 DEF OnlyAt
  <2>2. CASE j \notin 1..Len(a)
    <3>1. j - Len(a) \in 1..Len(b) /\ (j - Len(a)) + Len(a) = j
      BY <1>1, <1>2, <2>2
    <3>2. s[j] = b[j - Len(a)] /\ j # k
      BY <1>1, <2>2, <3>1 DEF OnlyAt
    <3>3. b[j - Len(a)][1] # key
      BY <3>1 DEF Avoids
    <3> QED
      BY <3>2, <3>3
  <2> QED
    BY <2>1, <2>2
<1>5. s \in Seq(S) /\ Keeps(s, a, key, k)
  BY <1>1, <1>3, <1>4 DEF OnlyAt, Keeps
<1> QED
  BY <1>5 DEF s

\* The value of the only tag with a key.
LEMMA OneValue ==
  ASSUME NEW S, NEW tags \in Seq(S), NEW key, NEW k, OnlyAt(tags, key, k),
         NEW value, tags[k] = <<key, value>>
  PROVE  Values(tags, key) = <<value>>
<1> DEFINE places == {j \in DOMAIN tags : Len(tags[j]) >= 2 /\ tags[j][1] = key}
<1>1. DOMAIN tags = 1..Len(tags) /\ k \in DOMAIN tags
  BY DEF OnlyAt
<1>2. Len(tags[k]) = 2 /\ tags[k][2] = value
  OBVIOUS
<1>3. \A j \in DOMAIN tags : j \in places <=> j = k
  BY <1>1, <1>2 DEF OnlyAt
<1> HIDE DEF places
<1>4. Picked(tags, places) = <<tags[k]>>
  BY <1>1, <1>3, OneIsPicked
<1>5. Values(tags, key)
        = [i \in DOMAIN Picked(tags, places) |-> Picked(tags, places)[i][2]]
  BY DEF Values, Filtered, places
<1>6. DOMAIN <<tags[k]>> = 1..1 /\ \A i \in 1..1 : <<tags[k]>>[i][2] = value
  BY <1>2
<1>7. [i \in DOMAIN <<tags[k]>> |-> <<tags[k]>>[i][2]] = <<value>>
  BY <1>6
<1> QED
  BY <1>4, <1>5, <1>7

\* An event that asks for a payment, with these tags.
Requests(event, recipient, amount) ==
  \E tags, content, k, S :
    /\ event = Unsigned(KIND_ZAP_REQUEST, tags, content)
    /\ tags \in Seq(S) /\ Len(tags) >= 1 /\ tags[1] = <<"p", recipient>>
    /\ OnlyAt(tags, "amount", k) /\ tags[k] = <<"amount", amount>>

\* A zap request is built with them.
LEMMA RequestTags ==
  ASSUME NEW z, zap_request(z).ok, Typed("zap", z)
  PROVE  /\ Requests(zap_request(z).val, z.recipient, z.amount_msats)
         /\ z.recipient # None /\ z.amount_msats \in 0..MaxU64
<1> DEFINE p == <<"p", z.recipient>>
           en == <<"e", z.event_id>>
           am == <<"amount", z.amount_msats>>
           rel == <<"relays">> \o z.relays
           ln == <<"lnurl", z.lnurl>>
           s1 == <<p>>
           s2 == IF z.event_id = None THEN <<>> ELSE <<en>>
           s3 == <<am>>
           s4 == IF z.relays = <<>> THEN <<>> ELSE <<rel>>
           s5 == IF z.lnurl = None THEN <<>> ELSE <<ln>>
           S == {p, en, am, rel, ln}
<1>1. z.recipient # None /\ z.amount_msats \in 0..MaxU64
  BY ReputationAssumption DEF zap_request, Err, Typed
<1>2. zap_request(z).val
        = Unsigned(KIND_ZAP_REQUEST, s1 \o s2 \o s3 \o s4 \o s5, [form |-> "text"])
  BY DEF zap_request, Err, Ok
<1>3. rel[1] = "relays"
  <2>1. z.relays \in Seq({z.relays[i] : i \in DOMAIN z.relays})
    BY ListIsSeq DEF Typed
  <2> QED
    BY <2>1
<1>4. p[1] = "p" /\ en[1] = "e" /\ am[1] = "amount" /\ ln[1] = "lnurl"
  OBVIOUS
<1>5. p \in S /\ en \in S /\ am \in S /\ rel \in S /\ ln \in S
  OBVIOUS
<1> HIDE DEF p, en, rel, ln, S
<1>6. /\ s1 \in Seq(S) /\ s2 \in Seq(S) /\ s3 \in Seq(S) /\ s4 \in Seq(S) /\ s5 \in Seq(S)
  BY <1>5
<1>7. /\ Len(s1) = 1 /\ s1[1] = p /\ Len(s3) = 1 /\ s3[1] = am
      /\ \A i \in 1..Len(s2) : s2[i] = en
      /\ \A i \in 1..Len(s4) : s4[i] = rel
      /\ \A i \in 1..Len(s5) : s5[i] = ln
  <2> HIDE DEF am
  <2>1. Len(s1) = 1 /\ s1[1] = p
    OBVIOUS
  <2>2. Len(s3) = 1 /\ s3[1] = am
    OBVIOUS
  <2>3. \A i \in 1..Len(s2) : s2[i] = en
    <3>1. CASE z.event_id = None
      BY <3>1
    <3>2. CASE z.event_id # None
      BY <3>2
    <3> QED
      BY <3>1, <3>2
  <2>4. \A i \in 1..Len(s4) : s4[i] = rel
    <3>1. CASE z.relays = <<>>
      BY <3>1
    <3>2. CASE z.relays # <<>>
      BY <3>2
    <3> QED
      BY <3>1, <3>2
  <2>5. \A i \in 1..Len(s5) : s5[i] = ln
    <3>1. CASE z.lnurl = None
      BY <3>1
    <3>2. CASE z.lnurl # None
      BY <3>2
    <3> QED
      BY <3>1, <3>2
  <2> QED
    BY <2>1, <2>2, <2>3, <2>4, <2>5
<1> HIDE DEF am, s1, s2, s3, s4, s5
<1> DEFINE a == s1 \o s2
           b == a \o s3
           c == b \o s4
           tags == c \o s5
           k == Len(a) + 1
<1>8. /\ a \in Seq(S) /\ Len(a) \in Nat /\ Len(a) >= 1 /\ a[1] = p
      /\ \A j \in 1..Len(a) : a[j] \in {p, en}
  <2>1. /\ s1 \o s2 \in Seq(S) /\ Len(s1 \o s2) = Len(s1) + Len(s2)
        /\ \A i \in 1..Len(s1) : (s1 \o s2)[i] = s1[i]
        /\ \A i \in 1..Len(s2) : (s1 \o s2)[i + Len(s1)] = s2[i]
    <3>1. s1 \in Seq(S) /\ s2 \in Seq(S)
      BY <1>6
    <3> QED
      BY ONLY <3>1, Joined
  <2>2. Len(s2) \in Nat
    BY <1>6
  <2>3. a = s1 \o s2
    OBVIOUS
  <2> HIDE DEF a
  <2>4. Len(a) = 1 + Len(s2) /\ a[1] = p
    BY <1>7, <2>1, <2>2, <2>3
  <2>5. ASSUME NEW j \in 1..Len(a) PROVE a[j] \in {p, en}
    <3>1. CASE j = 1
      BY <2>4, <3>1
    <3>2. CASE j # 1
      <4>1. j - 1 \in 1..Len(s2) /\ (j - 1) + 1 = j
        BY <2>2, <2>4, <3>2
      <4> QED
        BY <1>7, <2>1, <2>3, <4>1
    <3> QED
      BY <3>1, <3>2
  <2> QED
    BY <2>1, <2>2, <2>3, <2>4, <2>5
<1> HIDE DEF a
<1>9. /\ b \in Seq(S) /\ b[1] = p /\ OnlyAt(b, "amount", k) /\ b[k] = am
  <2>1. /\ a \o s3 \in Seq(S) /\ Len(a \o s3) = Len(a) + Len(s3)
        /\ \A i \in 1..Len(a) : (a \o s3)[i] = a[i]
        /\ \A i \in 1..Len(s3) : (a \o s3)[i + Len(a)] = s3[i]
    <3>1. a \in Seq(S) /\ s3 \in Seq(S)
      BY <1>6, <1>8
    <3> QED
      BY ONLY <3>1, Joined
  <2>2. b = a \o s3
    OBVIOUS
  <2> HIDE DEF b
  <2>3. Len(b) = k /\ k \in Nat /\ k >= 1 /\ b[1] = p
    BY <1>7, <1>8, <2>1, <2>2
  <2>4. b[k] = am
    <3>1. 1 \in 1..Len(s3) /\ 1 + Len(a) = k
      BY <1>7, <1>8
    <3> QED
      BY <1>7, <2>1, <2>2, <3>1
  <2>5. ASSUME NEW j \in 1..Len(b) PROVE b[j][1] = "amount" <=> j = k
    <3>1. CASE j = k
      BY <1>4, <2>4, <3>1
    <3>2. CASE j # k
      <4>1. j \in 1..Len(a)
        BY <1>8, <2>3, <3>2
      <4>2. b[j] \in {p, en}
        BY <1>8, <2>1, <2>2, <4>1
      <4> QED
        BY <1>4, <3>2, <4>2
    <3> QED
      BY <3>1, <3>2
  <2> HIDE DEF k
  <2> QED
    BY <2>1, <2>2, <2>3, <2>4, <2>5 DEF OnlyAt
<1> HIDE DEF b, k
<1>10. /\ c \in Seq(S) /\ c[1] = p /\ OnlyAt(c, "amount", k) /\ c[k] = am
  <2>1. s4 \in Seq(S) /\ Avoids(s4, "amount")
    BY <1>3, <1>6, <1>7 DEF Avoids
  <2>2. b \in Seq(S) /\ OnlyAt(b, "amount", k) /\ s4 \in Seq(S) /\ Avoids(s4, "amount")
    BY <1>9, <2>1
  <2>3. b \o s4 \in Seq(S) /\ Keeps(b \o s4, b, "amount", k)
    <3>1. b \o s4 \in Seq(S)
      BY ONLY <2>2, OnlyKept
    <3>2. Keeps(b \o s4, b, "amount", k)
      BY ONLY <2>2, OnlyKept
    <3> QED
      BY <3>1, <3>2
  <2>4. c = b \o s4
    OBVIOUS
  <2> HIDE DEF c
  <2>5. c \in Seq(S) /\ OnlyAt(c, "amount", k) /\ c[k] = b[k] /\ c[1] = b[1]
    <3>1. c \in Seq(S) /\ Keeps(c, b, "amount", k)
      BY ONLY <2>3, <2>4
    <3> QED
      BY ONLY <3>1 DEF Keeps
  <2> QED
    BY <1>9, <2>5
<1> HIDE DEF c
<1>11. /\ tags \in Seq(S) /\ tags[1] = p /\ OnlyAt(tags, "amount", k) /\ tags[k] = am
  <2>1. s5 \in Seq(S) /\ Avoids(s5, "amount")
    BY <1>4, <1>6, <1>7 DEF Avoids
  <2>2. c \in Seq(S) /\ OnlyAt(c, "amount", k) /\ s5 \in Seq(S) /\ Avoids(s5, "amount")
    BY <1>10, <2>1
  <2>3. c \o s5 \in Seq(S) /\ Keeps(c \o s5, c, "amount", k)
    <3>1. c \o s5 \in Seq(S)
      BY ONLY <2>2, OnlyKept
    <3>2. Keeps(c \o s5, c, "amount", k)
      BY ONLY <2>2, OnlyKept
    <3> QED
      BY <3>1, <3>2
  <2>4. tags = c \o s5
    OBVIOUS
  <2> HIDE DEF tags
  <2>5. tags \in Seq(S) /\ OnlyAt(tags, "amount", k) /\ tags[k] = c[k] /\ tags[1] = c[1]
    <3>1. tags \in Seq(S) /\ Keeps(tags, c, "amount", k)
      BY ONLY <2>3, <2>4
    <3> QED
      BY ONLY <3>1 DEF Keeps
  <2> QED
    BY <1>10, <2>5
<1>12. zap_request(z).val = Unsigned(KIND_ZAP_REQUEST, tags, [form |-> "text"])
  BY <1>2 DEF a, b, c
<1> HIDE DEF tags
<1>13. Len(tags) >= 1
  BY <1>11 DEF OnlyAt
<1> QED
  BY <1>1, <1>11, <1>12, <1>13 DEF Requests, p, am

\* The receipt of a zap is found by the one it pays, and read as the amount
\* that was asked for.
LEMMA ZapBuiltArrives ==
  ASSUME NEW z, zap_request(z).ok, Typed("zap", z)
  PROVE  ZapArrives(z, Signed(zap_request(z).val))
<1> DEFINE to == z.recipient
           amount == z.amount_msats
           e == Signed(zap_request(z).val)
           receipt == ReceiptOf(e)
<1>1. to # None /\ amount \in 0..MaxU64
  BY RequestTags
<1>2. PICK tags, content, k, S :
        /\ zap_request(z).val = Unsigned(KIND_ZAP_REQUEST, tags, content)
        /\ tags \in Seq(S) /\ Len(tags) >= 1 /\ tags[1] = <<"p", to>>
        /\ OnlyAt(tags, "amount", k) /\ tags[k] = <<"amount", amount>>
  BY RequestTags DEF Requests
<1> HIDE DEF to, amount
<1>3. e.kind = KIND_ZAP_REQUEST /\ e.tags = tags /\ "kind" \in DOMAIN e
  BY <1>2, SignedIs
<1> HIDE DEF e
<1>4. "p" \in SingleKeys /\ Variant["p"] = "PubKey"
  BY DEF SingleKeys, Variant
<1>5. FindTag(e, "PubKey") = to
  <2>1. IsList(e.tags) /\ 1 \in DOMAIN e.tags /\ \A j \in DOMAIN e.tags : ~(j < 1)
    BY <1>2, <1>3, SeqIsList
  <2> QED
    BY <1>2, <1>3, <1>4, <2>1, FirstIsFound
<1>6. receipt = Unsigned(KIND_ZAP_RECEIPT, << <<"p", to>>, <<"description", e>> >>,
                         [form |-> "blank"])
  BY <1>5 DEF ReceiptOf
<1> DEFINE paid == << <<"p", to>>, <<"description", e>> >>
           T == {<<"p", to>>, <<"description", e>>}
<1>7. /\ paid \in Seq(T) /\ IsList(paid) /\ Len(paid) = 2 /\ DOMAIN paid = 1..2
      /\ paid[1] = <<"p", to>> /\ paid[2] = <<"description", e>>
  BY DEF IsList
<1>8. receipt.kind = KIND_ZAP_RECEIPT /\ receipt.tags = paid /\ receipt.created_at = 0
  BY <1>6 DEF Unsigned
<1> HIDE DEF receipt, paid, T
<1>9. Tagged(receipt, "PubKey") # {} /\ FindTag(receipt, "PubKey") = to
  <2>1. 1 \in DOMAIN receipt.tags /\ \A j \in DOMAIN receipt.tags : ~(j < 1)
    BY <1>7, <1>8
  <2> QED
    BY <1>4, <1>7, <1>8, <2>1, FirstIsFound
<1>10. HasTag(receipt, "p", {to})
  <2>1. Len(paid[1]) = 2 /\ paid[1][1] = "p" /\ paid[1][2] = to
    BY <1>7
  <2> QED
    BY <1>7, <1>8, <2>1 DEF HasTag
<1>11. Finds(zap_receipt_filter(to), receipt)
  BY <1>8, <1>10, RecipientMatches, MatchFinds DEF zap_receipt_filter
<1>12. Finds(zap_receipt_filter_since(to, receipt.created_at), receipt)
  <2> DEFINE filter == zap_receipt_filter_since(to, receipt.created_at)
  <2>1. /\ DOMAIN filter = {"kinds", "p_tags", "since"}
        /\ filter["kinds"] = {KIND_ZAP_RECEIPT} /\ filter["p_tags"] = {to}
        /\ filter["since"] = receipt.created_at
    BY DEF zap_receipt_filter_since
  <2> HIDE DEF filter
  <2>2. /\ FieldMatches("kinds", {KIND_ZAP_RECEIPT}, receipt)
        /\ FieldMatches("p_tags", {to}, receipt)
        /\ FieldMatches("since", receipt.created_at, receipt)
    BY <1>8, <1>10 DEF FieldMatches, TagOf
  <2>3. Matches(filter, receipt)
    BY <2>1, <2>2, FieldsMatch
  <2>4. Finds(filter, receipt)
    BY <2>3, MatchFinds
  <2> QED
    BY <2>4 DEF filter
<1>13. Values(receipt.tags, "description") = <<e>>
  <2>1. paid[1][1] = "p" /\ paid[2][1] = "description"
    BY <1>7
  <2>2. OnlyAt(paid, "description", 2)
    BY <1>7, <2>1 DEF OnlyAt
  <2> QED
    BY <1>7, <1>8, <2>2, OneValue
<1>14. Values(e.tags, "amount") = <<amount>>
  BY <1>2, <1>3, OneValue
<1>15. Filtered(Values(e.tags, "amount"), LAMBDA a : a \in 0..MaxU64) = <<amount>>
  <2> DEFINE s == <<amount>>
             places == {i \in DOMAIN s : s[i] \in 0..MaxU64}
  <2>1. s \in Seq({amount}) /\ 1 \in DOMAIN s /\ s[1] = amount /\ DOMAIN s = 1..1
    OBVIOUS
  <2> HIDE DEF s
  <2>2. \A j \in DOMAIN s : j \in places <=> j = 1
    BY <1>1, <2>1
  <2> HIDE DEF places
  <2>3. Picked(s, places) = <<s[1]>>
    BY <2>1, <2>2, OneIsPicked
  <2>4. Filtered(s, LAMBDA a : a \in 0..MaxU64) = Picked(s, places)
    BY DEF Filtered, places
  <2> QED
    BY <1>14, <2>1, <2>3, <2>4 DEF s
<1>16. zap_receipt(receipt).ok
       /\ zap_receipt(receipt).val.amount_msats = amount
       /\ zap_receipt(receipt).val.recipient = to
  <2>1. Values(receipt.tags, "description")[1] = e
        /\ Values(receipt.tags, "description") # <<>>
    BY <1>13
  <2>2. Filtered(Values(e.tags, "amount"), LAMBDA a : a \in 0..MaxU64)[1] = amount
        /\ Filtered(Values(e.tags, "amount"), LAMBDA a : a \in 0..MaxU64) # <<>>
    BY <1>15
  <2>3. IsEventJson(e)
    BY <1>3 DEF IsEventJson
  <2>4. zap_receipt(receipt)
          = Ok([event |-> receipt, recipient |-> FindTag(receipt, "PubKey"),
                event_id |-> FindTag(receipt, "Event"),
                bolt11 |-> FirstOf(Values(receipt.tags, "bolt11")),
                amount_msats |-> amount, zap_request |-> e])
    BY <1>3, <1>8, <1>9, <2>1, <2>2, <2>3 DEF zap_receipt
  <2> QED
    BY <1>9, <2>4 DEF Ok
<1>17. ZapArrives(z, e)
  BY <1>11, <1>12, <1>16 DEF ZapArrives, receipt, to, amount
<1> QED
  BY <1>17 DEF e

-----------------------------------------------------------------------------
(* Profiles.                                                               *)

\* The members of a profile's own fields: each that is set, once.
HasFields(p, f, h) ==
  /\ h \in [1..Len(f) -> {c \in 1..3 : p[ProfileFields[c]] # None}]
  /\ \A c \in 1..3 : p[ProfileFields[c]] # None => \E i \in 1..Len(f) : h[i] = c
  /\ \A i, j \in 1..Len(f) : h[i] = h[j] => i = j
  /\ \A i \in 1..Len(f) : f[i] = <<ProfileFields[h[i]], p[ProfileFields[h[i]]]>>

\* They come first, and the others follow.
LEMMA ProfileMembers ==
  ASSUME NEW p, IsList(p.extra)
  PROVE  \E S, f, h :
           /\ f \in Seq(S) /\ p.extra \in Seq(S) /\ HasFields(p, f, h)
           /\ ProfileJson(p) = f \o p.extra
<1> DEFINE own == [i \in 1..3 |-> <<ProfileFields[i], p[ProfileFields[i]]>>]
           places == {i \in DOMAIN own : own[i][2] # None}
           f == Picked(own, places)
           S == {own[i] : i \in 1..3} \union {p.extra[i] : i \in DOMAIN p.extra}
<1>1. own \in Seq(S) /\ Len(own) = 3 /\ DOMAIN own = 1..3
  OBVIOUS
<1>2. p.extra \in Seq(S)
  <2>1. p.extra \in Seq({p.extra[i] : i \in DOMAIN p.extra})
    BY ListIsSeq
  <2> QED
    BY <2>1
<1>3. ProfileJson(p) = f \o p.extra
  BY DEF ProfileJson, Filtered
<1>4. \A i \in 1..3 : own[i] = <<ProfileFields[i], p[ProfileFields[i]]>>
  OBVIOUS
<1>5. places = {c \in 1..3 : p[ProfileFields[c]] # None}
  BY <1>1, <1>4
<1> HIDE DEF S, own, places
<1>6. f \in Seq(S) /\ Selects(f, own, places \cap (1..Len(own)))
  BY <1>1, PickedLists
<1> HIDE DEF f
<1>7. places \cap (1..Len(own)) = places
  BY <1>1, <1>5
<1>8. PICK h : /\ Increasing(h, Len(f), places)
               /\ \A i \in 1..Len(f) : f[i] = own[h[i]]
  BY <1>6, <1>7 DEF Selects
<1>9. Len(f) \in Nat
  BY <1>6
<1>10. \A i, j \in 1..Len(f) : h[i] = h[j] => i = j
  <2> TAKE i, j \in 1..Len(f)
  <2>1. i < j => h[i] < h[j]
    BY <1>8 DEF Increasing
  <2>2. j < i => h[j] < h[i]
    BY <1>8 DEF Increasing
  <2>3. h[i] \in 1..3 /\ h[j] \in 1..3
    BY <1>5, <1>8 DEF Increasing
  <2> QED
    BY <1>9, <2>1, <2>2, <2>3
<1>11. /\ h \in [1..Len(f) -> places]
       /\ \A c \in places : \E i \in 1..Len(f) : h[i] = c
  BY <1>8 DEF Increasing
<1>12. \A i \in 1..Len(f) : f[i] = <<ProfileFields[h[i]], p[ProfileFields[h[i]]]>>
  BY <1>4, <1>5, <1>8, <1>11
<1>13. HasFields(p, f, h)
  BY <1>5, <1>10, <1>11, <1>12 DEF HasFields
<1> QED
  BY <1>2, <1>3, <1>6, <1>13

\* The names of the three fields.
LEMMA FieldNames ==
  /\ DOMAIN ProfileFields = 1..3
  /\ ProfileFields[1] = "name" /\ ProfileFields[2] = "about" /\ ProfileFields[3] = "picture"
  /\ \A b, c \in 1..3 : ProfileFields[b] = ProfileFields[c] => b = c
  /\ \A key : IsField(key) <=> \E c \in 1..3 : ProfileFields[c] = key
<1>1. DOMAIN ProfileFields = 1..3
  BY DEF ProfileFields
<1>2. ProfileFields[1] = "name" /\ ProfileFields[2] = "about" /\ ProfileFields[3] = "picture"
  BY DEF ProfileFields
<1>3. \A b, c \in 1..3 : ProfileFields[b] = ProfileFields[c] => b = c
  <2> TAKE b, c \in 1..3
  <2>1. (b = 1 \/ b = 2 \/ b = 3) /\ (c = 1 \/ c = 2 \/ c = 3)
    OBVIOUS
  <2> QED
    BY <1>2, <2>1
<1>4. \A key : IsField(key) <=> \E c \in 1..3 : ProfileFields[c] = key
  BY <1>1 DEF IsField
<1> QED
  BY <1>1, <1>2, <1>3, <1>4

\* None of the other members has the name of a field.
NoFields(extra) == \A i \in DOMAIN extra : ~IsField(extra[i][1])

\* The members by their places: those of the fields, then the others.
LEMMA MemberPlaces ==
  ASSUME NEW p, NEW S, NEW f \in Seq(S), p.extra \in Seq(S), NEW h, HasFields(p, f, h),
         NoFields(p.extra)
  PROVE  LET members == f \o p.extra
         IN  /\ members \in Seq(S) /\ DOMAIN members = 1..(Len(f) + Len(p.extra))
             /\ \A i \in 1..Len(p.extra) : members[i + Len(f)] = p.extra[i]
             /\ \A i \in DOMAIN members :
                  IF i \in 1..Len(f)
                  THEN /\ members[i] = <<ProfileFields[h[i]], p[ProfileFields[h[i]]]>>
                       /\ h[i] \in 1..3 /\ IsField(members[i][1])
                  ELSE ~IsField(members[i][1])
<1> DEFINE x == p.extra
           members == f \o x
<1>1. x \in Seq(S)
  OBVIOUS
<1>2. \A i \in 1..Len(x) : ~IsField(x[i][1])
  BY <1>1 DEF NoFields
<1> HIDE DEF x
<1>3. /\ members \in Seq(S) /\ Len(members) = Len(f) + Len(x)
      /\ \A i \in 1..Len(f) : members[i] = f[i]
      /\ \A i \in 1..Len(x) : members[i + Len(f)] = x[i]
  <2>1. f \in Seq(S) /\ x \in Seq(S)
    BY <1>1
  <2> QED
    BY ONLY <2>1, Joined
<1> HIDE DEF members
<1>4. Len(f) \in Nat /\ Len(x) \in Nat /\ DOMAIN members = 1..(Len(f) + Len(x))
  BY <1>1, <1>3
<1>5. ASSUME NEW i \in DOMAIN members, i \in 1..Len(f)
      PROVE  /\ members[i] = <<ProfileFields[h[i]], p[ProfileFields[h[i]]]>>
             /\ h[i] \in 1..3 /\ IsField(members[i][1])
  <2>1. members[i] = <<ProfileFields[h[i]], p[ProfileFields[h[i]]]>> /\ h[i] \in 1..3
    BY <1>3, <1>5 DEF HasFields
  <2>2. members[i][1] = ProfileFields[h[i]]
    BY <2>1
  <2>3. IsField(members[i][1])
    BY <2>1, <2>2, FieldNames
  <2> QED
    BY <2>1, <2>3
<1>6. ASSUME NEW i \in DOMAIN members, i \notin 1..Len(f)
      PROVE  ~IsField(members[i][1])
  <2>1. i - Len(f) \in 1..Len(x) /\ (i - Len(f)) + Len(f) = i
    BY <1>4, <1>6
  <2> QED
    BY <1>2, <1>3, <2>1
<1>7. \A i \in DOMAIN members :
        IF i \in 1..Len(f)
        THEN /\ members[i] = <<ProfileFields[h[i]], p[ProfileFields[h[i]]]>>
             /\ h[i] \in 1..3 /\ IsField(members[i][1])
        ELSE ~IsField(members[i][1])
  BY <1>5, <1>6
<1> QED
  BY <1>3, <1>4, <1>7 DEF members, x

\* What is read of a field is what was written.
LEMMA FieldIsRead ==
  ASSUME NEW p, NEW S, NEW f \in Seq(S), p.extra \in Seq(S), NEW h, HasFields(p, f, h),
         NoFields(p.extra), NEW c \in 1..3
  PROVE  FieldOf(f \o p.extra, ProfileFields[c]) = p[ProfileFields[c]]
<1> DEFINE members == f \o p.extra
           key == ProfileFields[c]
           places == {i \in DOMAIN members : members[i][1] = key}
           found == Picked(members, places)
<1>1. FieldOf(members, key) = IF found = <<>> THEN None ELSE found[1][2]
  BY DEF FieldOf, Filtered
<1>2. /\ members \in Seq(S) /\ DOMAIN members = 1..(Len(f) + Len(p.extra))
      /\ \A i \in DOMAIN members :
           IF i \in 1..Len(f)
           THEN /\ members[i] = <<ProfileFields[h[i]], p[ProfileFields[h[i]]]>>
                /\ h[i] \in 1..3 /\ IsField(members[i][1])
           ELSE ~IsField(members[i][1])
  BY MemberPlaces
<1> HIDE DEF members
<1>3. Len(f) \in Nat /\ Len(p.extra) \in Nat
  OBVIOUS
<1>4. \A i \in 1..Len(f) : i \in DOMAIN members
  BY <1>2, <1>3
<1>5. IsField(key)
  BY FieldNames
<1>6. ASSUME NEW i \in DOMAIN members, members[i][1] = key
      PROVE  i \in 1..Len(f) /\ h[i] = c
  <2>1. i \in 1..Len(f)
    BY <1>2, <1>5, <1>6
  <2>2. members[i] = <<ProfileFields[h[i]], p[ProfileFields[h[i]]]>> /\ h[i] \in 1..3
    BY <1>2, <2>1
  <2>3. ProfileFields[h[i]] = ProfileFields[c]
    BY <1>6, <2>2
  <2> QED
    BY <2>1, <2>2, <2>3, FieldNames
<1>7. CASE p[key] = None
  <2>1. \A i \in DOMAIN members : members[i][1] # key
    <3> SUFFICES ASSUME NEW i \in DOMAIN members, members[i][1] = key PROVE FALSE
      OBVIOUS
    <3>1. i \in 1..Len(f) /\ h[i] = c
      BY <1>6
    <3>2. p[ProfileFields[h[i]]] # None
      BY <3>1 DEF HasFields
    <3> QED
      BY <1>7, <3>1, <3>2
  <2>2. places = {}
    BY <2>1
  <2>3. Picked(members, {}) = <<>>
    <3>1. Picked(members, {}) \in Seq({members[i] : i \in {} \cap DOMAIN members})
      BY <1>2, PickedFrom
    <3>2. {members[i] : i \in {} \cap DOMAIN members} = {}
      OBVIOUS
    <3> QED
      BY <3>1, <3>2
  <2> HIDE DEF places
  <2>4. found = <<>>
    BY <2>2, <2>3
  <2> HIDE DEF found
  <2> QED
    BY <1>1, <1>7, <2>4 DEF members
<1>8. CASE p[key] # None
  <2>1. PICK i \in 1..Len(f) : h[i] = c
    BY <1>8 DEF HasFields
  <2>2. i \in DOMAIN members
    BY <1>4
  <2>3. members[i] = <<key, p[key]>>
    <3>1. members[i] = <<ProfileFields[h[i]], p[ProfileFields[h[i]]]>>
      BY <1>2, <2>2
    <3> QED
      BY <2>1, <3>1
  <2>4. \A j \in DOMAIN members : j \in places <=> j = i
    <3> TAKE j \in DOMAIN members
    <3>1. members[j][1] = key => j = i
      <4> SUFFICES ASSUME members[j][1] = key PROVE j = i
        OBVIOUS
      <4>1. j \in 1..Len(f) /\ h[j] = c
        BY <1>6
      <4> QED
        BY <2>1, <4>1 DEF HasFields
    <3>2. members[i][1] = key
      BY <2>3
    <3> QED
      BY <3>1, <3>2
  <2> HIDE DEF places
  <2>5. found = <<members[i]>>
    BY <1>2, <2>2, <2>4, OneIsPicked
  <2> HIDE DEF found, key
  <2>6. found # <<>> /\ found[1][2] = p[key]
    BY <2>3, <2>5
  <2> QED
    BY <1>1, <2>6 DEF members, key
<1> QED
  BY <1>7, <1>8 DEF key

\* No field is written twice.
LEMMA FieldsOnce ==
  ASSUME NEW p, NEW S, NEW f \in Seq(S), p.extra \in Seq(S), NEW h, HasFields(p, f, h),
         NoFields(p.extra)
  PROVE  LET members == f \o p.extra
         IN  ~\E i, j \in DOMAIN members :
                i # j /\ members[i][1] = members[j][1] /\ IsField(members[i][1])
<1> DEFINE members == f \o p.extra
<1>1. \A i \in DOMAIN members :
        IF i \in 1..Len(f)
        THEN /\ members[i] = <<ProfileFields[h[i]], p[ProfileFields[h[i]]]>>
             /\ h[i] \in 1..3 /\ IsField(members[i][1])
        ELSE ~IsField(members[i][1])
  BY MemberPlaces
<1> HIDE DEF members
<1>2. ASSUME NEW i \in DOMAIN members, NEW j \in DOMAIN members,
             members[i][1] = members[j][1], IsField(members[i][1])
      PROVE  i = j
  <2>1. i \in 1..Len(f) /\ j \in 1..Len(f)
    BY <1>1, <1>2
  <2>2. /\ members[i][1] = ProfileFields[h[i]] /\ h[i] \in 1..3
        /\ members[j][1] = ProfileFields[h[j]] /\ h[j] \in 1..3
    BY <1>1, <2>1
  <2>3. ProfileFields[h[i]] = ProfileFields[h[j]]
    BY <1>2, <2>2
  <2>4. h[i] = h[j]
    <3>1. h[i] \in 1..3 /\ h[j] \in 1..3
      BY <2>2
    <3> QED
      BY ONLY <2>3, <3>1, FieldNames
  <2> QED
    BY <2>1, <2>4 DEF HasFields
<1>3. ~\E i, j \in DOMAIN members :
         i # j /\ members[i][1] = members[j][1] /\ IsField(members[i][1])
  BY <1>2
<1> QED
  BY <1>3 DEF members

\* The members that are no fields are the others.
LEMMA OthersAreRead ==
  ASSUME NEW p, NEW S, NEW f \in Seq(S), p.extra \in Seq(S), NEW h, HasFields(p, f, h),
         NoFields(p.extra)
  PROVE  Filtered(f \o p.extra, LAMBDA member : ~IsField(member[1])) = p.extra
<1> DEFINE members == f \o p.extra
           places == {i \in DOMAIN members : ~IsField(members[i][1])}
           n == Len(p.extra)
           k == Len(f)
<1>1. /\ members \in Seq(S) /\ DOMAIN members = 1..(k + n)
      /\ \A i \in 1..n : members[i + k] = p.extra[i]
      /\ \A i \in DOMAIN members :
           IF i \in 1..k THEN IsField(members[i][1]) ELSE ~IsField(members[i][1])
  <2>1. /\ members \in Seq(S) /\ DOMAIN members = 1..(k + n)
        /\ \A i \in 1..n : members[i + k] = p.extra[i]
        /\ \A i \in DOMAIN members :
             IF i \in 1..k
             THEN /\ members[i] = <<ProfileFields[h[i]], p[ProfileFields[h[i]]]>>
                  /\ h[i] \in 1..3 /\ IsField(members[i][1])
             ELSE ~IsField(members[i][1])
    BY MemberPlaces
  <2> HIDE DEF members, k, n
  <2> QED
    BY <2>1
<1>2. Filtered(members, LAMBDA member : ~IsField(member[1])) = Picked(members, places)
  BY DEF Filtered
<1>3. n \in Nat /\ k \in Nat /\ p.extra = [i \in 1..n |-> p.extra[i]]
  OBVIOUS
<1> HIDE DEF members, n, k
<1>4. Len(members) = k + n
  BY <1>1, <1>3
<1>5. Run(places, members, n, k)
  <2>1. \A i \in DOMAIN members : i \in places <=> i \notin 1..k
    BY <1>1
  <2> HIDE DEF places
  <2>2. \A i \in DOMAIN members : i \in places <=> \E m \in 1..n : i = m + k
    <3> TAKE i \in DOMAIN members
    <3>1. i \in 1..(k + n)
      BY <1>1
    <3>2. CASE i \in 1..k
      BY <1>3, <2>1, <3>2
    <3>3. CASE i \notin 1..k
      <4>1. i - k \in 1..n /\ i = (i - k) + k
        BY <1>3, <3>1, <3>3
      <4> QED
        BY <2>1, <3>3, <4>1
    <3> QED
      BY <3>2, <3>3
  <2> QED
    BY <2>2 DEF Run
<1> HIDE DEF places
<1>6. n + k <= Len(members)
  BY <1>3, <1>4
<1>7. Picked(members, places) = [i \in 1..n |-> members[i + k]]
  BY <1>1, <1>3, <1>5, <1>6, RunIsPicked
<1>8. [i \in 1..n |-> members[i + k]] = [i \in 1..n |-> p.extra[i]]
  BY <1>1
<1>9. Picked(members, places) = p.extra
  BY <1>3, <1>7, <1>8
<1> QED
  BY <1>2, <1>9 DEF members

\* A profile is found by all that look for profiles or for its author's, and
\* read back as it was unless another member has the name of a field.
LEMMA ProfileBuiltArrives ==
  ASSUME NEW p, Typed("profile", p)
  PROVE  ProfileArrives(p, Signed(build_profile(p)))
<1> DEFINE members == ProfileJson(p)
           content == [form |-> "json", members |-> members]
           e == Signed(build_profile(p))
<1>1. /\ p = [name |-> p.name, about |-> p.about, picture |-> p.picture, extra |-> p.extra]
      /\ IsList(p.extra)
  BY DEF Typed
<1>2. PICK S, f, h :
        /\ f \in Seq(S) /\ p.extra \in Seq(S) /\ HasFields(p, f, h) /\ members = f \o p.extra
  BY <1>1, ProfileMembers
<1> HIDE DEF members
<1>3. e.kind = KIND_METADATA /\ e.pubkey = Me /\ e.content = content
  <2>1. build_profile(p) = Unsigned(KIND_METADATA, <<>>, content)
    BY DEF build_profile, members
  <2> HIDE DEF content
  <2> QED
    BY <2>1, SignedIs
<1>4. e.content.form = "json" /\ e.content.members = members
  BY <1>3
<1> HIDE DEF e
<1>5. Reaches(open_agent_discovery({}).val, e)
  <2>1. Matches(profile_filter, e)
    BY <1>3, KindMatches DEF profile_filter
  <2>2. open_agent_discovery({}).val = <<profile_filter>>
    BY DEF open_agent_discovery, Ok
  <2> QED
    BY <2>1, <2>2, MatchFinds
<1>6. Reaches(open_agent_discovery({e.pubkey}).val, e)
  <2> DEFINE filter == profile_filter_by_pubkeys({e.pubkey})
  <2>1. /\ DOMAIN filter = {"kinds", "authors"} /\ filter["kinds"] = {KIND_METADATA}
        /\ filter["authors"] = {e.pubkey}
    BY DEF profile_filter_by_pubkeys
  <2>2. open_agent_discovery({e.pubkey}).val = <<filter>>
    BY DEF open_agent_discovery, Ok
  <2> HIDE DEF filter
  <2>3. FieldMatches("kinds", {KIND_METADATA}, e) /\ FieldMatches("authors", {e.pubkey}, e)
    BY <1>3 DEF FieldMatches
  <2>4. Matches(filter, e)
    BY <2>1, <2>3, FieldsMatch
  <2> QED
    BY <2>2, <2>4, MatchFinds
<1> DEFINE others == Filtered(members, LAMBDA member : ~IsField(member[1]))
           read == [name |-> FieldOf(members, "name"), about |-> FieldOf(members, "about"),
                    picture |-> FieldOf(members, "picture"), extra |-> others]
           twice == \E i, j \in DOMAIN members :
                      i # j /\ members[i][1] = members[j][1] /\ IsField(members[i][1])
<1>7. parse_profile_event(e) = IF twice THEN Err("InvalidJson") ELSE Ok(read)
  BY <1>3, <1>4 DEF parse_profile_event
<1> HIDE DEF others, twice
<1>8. ASSUME NoFields(p.extra) PROVE Gives(parse_profile_event(e), p)
  <2>1. ~twice
    BY <1>2, <1>8, FieldsOnce DEF twice
  <2>2. others = p.extra
    BY <1>2, <1>8, OthersAreRead DEF others
  <2>3. \A c \in 1..3 : FieldOf(members, ProfileFields[c]) = p[ProfileFields[c]]
    BY <1>2, <1>8, FieldIsRead
  <2>4. /\ FieldOf(members, "name") = p.name /\ FieldOf(members, "about") = p.about
        /\ FieldOf(members, "picture") = p.picture
    <3>1. 1 \in 1..3 /\ 2 \in 1..3 /\ 3 \in 1..3
      OBVIOUS
    <3> QED
      BY <2>3, <3>1, FieldNames
  <2>5. read = p
    BY <1>1, <2>2, <2>4
  <2> HIDE DEF read
  <2> QED
    BY <1>7, <2>1, <2>5 DEF Gives, Ok
<1>9. ASSUME Gives(parse_profile_event(e), p) PROVE NoFields(p.extra)
  <2>1. read = p
    <3> HIDE DEF read
    <3>1. ~twice
      BY <1>7, <1>9 DEF Gives, Err
    <3> QED
      BY <1>7, <1>9, <3>1 DEF Gives, Ok
  <2>2. others = p.extra
    <3>1. read.extra = others
      OBVIOUS
    <3> HIDE DEF read
    <3> QED
      BY <2>1, <3>1
  <2> DEFINE places == {i \in DOMAIN members : ~IsField(members[i][1])}
             rest == {members[i] : i \in places \cap DOMAIN members}
  <2>3. others = Picked(members, places)
    BY DEF others, Filtered
  <2>4. \A x \in rest : ~IsField(x[1])
    OBVIOUS
  <2>5. members \in Seq(S)
    <3>1. f \in Seq(S) /\ p.extra \in Seq(S)
      BY <1>2
    <3>2. f \o p.extra \in Seq(S)
      BY ONLY <3>1, Joined
    <3> QED
      BY <1>2, <3>2
  <2> HIDE DEF places
  <2>6. p.extra \in Seq(rest)
    BY <2>2, <2>3, <2>5, PickedFrom
  <2> HIDE DEF rest
  <2>7. \A i \in DOMAIN p.extra : p.extra[i] \in rest
    BY <2>6
  <2> QED
    BY <2>4, <2>7 DEF NoFields
<1>10. Gives(parse_profile_event(e), p) <=> \A i \in DOMAIN p.extra : ~IsField(p.extra[i][1])
  BY <1>8, <1>9 DEF NoFields
<1> QED
  BY <1>5, <1>6, <1>10 DEF ProfileArrives, e

-----------------------------------------------------------------------------
(* Gifts.                                                                  *)

\* A length that can be padded, in inequalities.
LEMMA PaddableIs ==
  ASSUME NEW len \in Int
  PROVE  PaddableLen(len) <=> 1 <= len /\ len <= 65535
<1> DEFINE top == 65535
<1>1. PaddableLen(len) <=> len \in 1..top
  BY DEF PaddableLen
<1>2. top \in Nat /\ top = 65535
  OBVIOUS
<1> HIDE DEF top
<1> QED
  BY <1>1, <1>2

\* The powers to which a plaintext is padded.
LEMMA PowersAre ==
  /\ Powers \in SUBSET Nat /\ 32768 \in Powers /\ 65536 \in Powers
  /\ \A p \in Powers : p >= 32 /\ (p > 32768 => p = 65536)
<1>1. \A p \in Powers : p \in Nat /\ p >= 32 /\ (p > 32768 => p = 65536)
  BY DEF Powers
<1>2. 32768 \in Powers /\ 65536 \in Powers
  BY DEF Powers
<1> QED
  BY <1>1, <1>2

\* The padded length is the least power that holds the plaintext.
LEMMA PaddedIsLeast ==
  ASSUME NEW len \in Nat, len <= 65535
  PROVE  /\ PaddedLen(len) \in Powers /\ PaddedLen(len) >= len
         /\ \A q \in Powers : q >= len => PaddedLen(len) <= q
<1> DEFINE T == {p \in Powers : p >= len}
<1>1. 65536 >= len
  OBVIOUS
<1>2. T \in SUBSET Nat /\ T # {}
  <2>1. T \in SUBSET Nat
    <3>1. \A p \in Powers : p \in Nat
      BY PowersAre
    <3> QED
      BY <3>1
  <2>2. 65536 \in T
    BY <1>1, PowersAre
  <2> QED
    BY <2>1, <2>2
<1> HIDE DEF T
<1>3. PICK p \in T : \A q \in T : p <= q
  BY <1>2, LeastNumber
<1>4. p \in Powers /\ p >= len /\ \A q \in Powers : q >= len => p <= q
  BY <1>3 DEF T
<1> QED
  BY <1>4 DEF PaddedLen

\* The sizes of a payload in base64, by the length its plaintext is padded to.
LEMMA PayloadText ==
  ASSUME NEW padded \in Nat
  PROVE  LET text == Base64Len(1 + 32 + (2 + padded + 16) + 32)
         IN  /\ text \in Nat /\ text >= 1
             /\ padded <= 32768 => text <= 65000
             /\ padded = 65536 => text > 65535
<1> DEFINE third == (1 + 32 + (2 + padded + 16) + 32 + 2) \div 3
<1>1. third \in Int /\ 3 * third <= padded + 85 /\ padded + 85 < 3 * third + 3
  OBVIOUS
<1>2. Base64Len(1 + 32 + (2 + padded + 16) + 32) = 4 * third
  BY DEF Base64Len
<1> HIDE DEF third
<1> QED
  BY <1>1, <1>2

\* With at most 512 bytes beside its content, a seal can be padded exactly
\* when its rumor has at most 32768 bytes.
LEMMA WrappableLens ==
  ASSUME NEW len \in Nat
  PROVE  Wrappable(len, SealOverhead) <=> len \in 1..LongestRumor
<1> DEFINE padded == PaddedLen(len)
           text == Base64Len(1 + 32 + (2 + padded + 16) + 32)
<1>1. SealOverhead \in Nat /\ SealOverhead <= 512
  BY AgentAssumption
<1>2. Wrappable(len, SealOverhead) <=> PaddableLen(len) /\ PaddableLen(SealOverhead + text)
  BY DEF Wrappable, SealLen, PayloadLen
<1>3. PaddableLen(len) <=> 1 <= len /\ len <= 65535
  BY PaddableIs
<1>4. ASSUME len <= 65535
      PROVE  /\ padded \in Powers /\ padded \in Nat /\ padded >= len
             /\ len <= 32768 => padded <= 32768
             /\ padded > 32768 => padded = 65536
  <2>1. padded \in Powers /\ padded >= len /\ \A q \in Powers : q >= len => padded <= q
    BY <1>4, PaddedIsLeast
  <2> HIDE DEF padded
  <2>2. padded \in Nat /\ (padded > 32768 => padded = 65536)
    BY <2>1, PowersAre
  <2>3. len <= 32768 => padded <= 32768
    <3>1. 32768 \in Powers
      BY PowersAre
    <3> QED
      BY <2>1, <3>1
  <2> QED
    BY <2>1, <2>2, <2>3
<1> HIDE DEF padded
<1>5. ASSUME padded \in Nat
      PROVE  /\ text \in Nat /\ text >= 1
             /\ padded <= 32768 => text <= 65000
             /\ padded = 65536 => text > 65535
  BY <1>5, PayloadText
<1> HIDE DEF text
<1>6. ASSUME 1 <= len, len <= 32768 PROVE Wrappable(len, SealOverhead)
  <2>1. padded \in Nat /\ padded <= 32768
    <3>1. len <= 65535
      BY <1>6
    <3> QED
      BY <1>4, <1>6, <3>1
  <2>2. text \in Nat /\ text >= 1 /\ text <= 65000
    BY <1>5, <2>1
  <2>3. SealOverhead + text \in Int /\ 1 <= SealOverhead + text /\ SealOverhead + text <= 65535
    BY <1>1, <2>2
  <2> QED
    BY <1>2, <1>3, <1>6, <2>3, PaddableIs
<1>7. ASSUME Wrappable(len, SealOverhead) PROVE 1 <= len /\ len <= 32768
  <2> SUFFICES ASSUME len > 32768 PROVE FALSE
    BY <1>2, <1>3, <1>7
  <2>1. len <= 65535
    BY <1>2, <1>3, <1>7
  <2>2. padded \in Nat /\ padded = 65536
    BY <1>4, <2>1
  <2>3. text \in Nat /\ text > 65535
    BY <1>5, <2>2
  <2>4. SealOverhead + text \in Int /\ SealOverhead + text > 65535
    BY <1>1, <2>3
  <2> QED
    BY <1>2, <1>7, <2>4, PaddableIs
<1> QED
  <2>1. LongestRumor \in Nat /\ LongestRumor = 32768
    BY DEF LongestRumor
  <2>2. len \in 1..LongestRumor <=> 1 <= len /\ len <= LongestRumor
    BY <2>1
  <2>3. Wrappable(len, SealOverhead) <=> 1 <= len /\ len <= LongestRumor
    BY <1>6, <1>7, <2>1
  <2> QED
    BY <2>2, <2>3

\* Two keys derive a key that no third derives with the first.
LEMMA PairsDiffer ==
  ASSUME NEW a, NEW b, NEW c, {a, b} = {b, c}
  PROVE  a = c
OBVIOUS

\* What comes of opening a gift.
OpensRightly(opened, key, to) ==
  IF key = to THEN opened.ok /\ opened.val.sender_pubkey = Me ELSE ~opened.ok

\* A gift opens for its recipient, under the name of its sender, and for
\* nobody else.
LEMMA SentGiftOpens ==
  ASSUME NEW rumor, NEW to \in Keys, NEW time, NEW key \in Keys
  PROVE  OpensRightly(unwrap_gift(gift_wrap(rumor, Me, to, now, Ephemeral, time).val, key),
                      key, to)
<1> DEFINE dated == [rumor EXCEPT !.pubkey = Me, !.created_at = now, !.sig = NoId]
           plain == [dated EXCEPT !.id = compute_event_id(dated)]
           sealed == nip44_encrypt({Me, to}, plain)
           seal == Signed(Unsigned(KIND_SEAL, <<>>, sealed))
           content == nip44_encrypt({Ephemeral, to}, seal)
           tags == << <<"p", to>> >>
           e == gift_wrap(rumor, Me, to, now, Ephemeral, time).val
<1>1. Me \in Keys /\ Ephemeral \in Keys
  BY AgentAssumption
<1>2. /\ conversation_key(Me, to) = Ok({Me, to})
      /\ conversation_key(Ephemeral, to) = Ok({Ephemeral, to})
      /\ conversation_key(key, Ephemeral) = Ok({key, Ephemeral})
      /\ conversation_key(to, Me) = Ok({to, Me})
  BY <1>1 DEF conversation_key
<1>3. gift_wrap(rumor, Me, to, now, Ephemeral, time)
        = sign_event(Unsigned(KIND_GIFT_WRAP, tags, content), Ephemeral, time)
  <2> HIDE DEF tags
  <2>1. \A x : Ok(x).ok /\ Ok(x).val = x
    BY DEF Ok
  <2>2. /\ conversation_key(Me, to).ok /\ conversation_key(Me, to).val = {Me, to}
        /\ conversation_key(Ephemeral, to).val = {Ephemeral, to}
    BY <1>2, <2>1
  <2> QED
    BY <1>1, <2>2 DEF gift_wrap, Signed, tags
<1> HIDE DEF plain, content, tags
<1>4. seal.kind = KIND_SEAL /\ seal.pubkey = Me /\ seal.content = sealed
  <2> HIDE DEF sealed
  <2> QED
    BY SignedIs
<1>5. verify_event(seal).ok
  <2> HIDE DEF sealed
  <2> QED
    BY SignedVerifies DEF Unsigned
<1>6. e.kind = KIND_GIFT_WRAP /\ e.pubkey = Ephemeral /\ e.content = content
  <2> QED
    BY <1>1, <1>3, SignsAs DEF Ok
<1>7. sealed.form = "nip44" /\ sealed.key = {Me, to} /\ sealed.text = plain
  BY DEF nip44_encrypt
<1>8. content.form = "nip44" /\ content.key = {Ephemeral, to} /\ content.text = seal
  BY DEF content, nip44_encrypt
<1> HIDE DEF seal, sealed, e
<1> DEFINE outcome == unwrap_gift(e, key)
           outer == conversation_key(key, e.pubkey)
           layer == nip44_decrypt(outer.val, e.content)
<1>9. outer.ok /\ outer.val = {key, Ephemeral}
  BY <1>2, <1>6 DEF Ok
<1>10. ASSUME key = to PROVE outcome.ok /\ outcome.val.sender_pubkey = Me
  <2>1. layer = Ok(seal)
    BY <1>6, <1>8, <1>9, <1>10 DEF nip44_decrypt
  <2>2. layer.ok /\ layer.val = seal
    BY <2>1 DEF Ok
  <2> DEFINE inner == conversation_key(key, layer.val.pubkey)
             inside == nip44_decrypt(inner.val, layer.val.content)
  <2>3. inner.ok /\ inner.val = {Me, to}
    BY <1>2, <1>4, <1>10, <2>2 DEF Ok
  <2>4. inside.ok
    BY <1>4, <1>7, <2>2, <2>3 DEF nip44_decrypt, Ok
  <2>5. outcome = Ok([rumor |-> inside.val, sender_pubkey |-> layer.val.pubkey])
    BY <1>4, <1>5, <1>6, <1>9, <2>2, <2>3, <2>4 DEF unwrap_gift
  <2> HIDE DEF outcome, inside, layer
  <2> QED
    BY <1>4, <2>2, <2>5 DEF Ok
<1>11. ASSUME key # to PROVE ~outcome.ok
  <2>1. {key, Ephemeral} # {Ephemeral, to}
    BY <1>11, PairsDiffer
  <2>2. layer = Err("HmacMismatch")
    BY <1>6, <1>8, <1>9, <2>1 DEF nip44_decrypt
  <2>3. ~layer.ok
    BY <2>2 DEF Err
  <2>4. outcome = layer
    BY <1>6, <1>9, <2>3 DEF unwrap_gift
  <2> HIDE DEF outcome, layer
  <2> QED
    BY <2>3, <2>4
<1> HIDE DEF outcome
<1>12. OpensRightly(outcome, key, to)
  BY <1>10, <1>11 DEF OpensRightly
<1>13. outcome = unwrap_gift(gift_wrap(rumor, Me, to, now, Ephemeral, time).val, key)
  BY DEF outcome, e
<1> QED
  BY <1>12, <1>13

\* The lengths that can be wrapped, and who opens a gift.
RightLens == \A len \in RumorLens : Wrappable(len, SealOverhead) <=> len \in 1..LongestRumor
OpensFor(e, to) ==
  \A key \in Keys : OpensRightly(unwrap_gift(e, key), key, to)

\* The lengths are right for every rumor.
LEMMA LensAreRight == RightLens
<1>1. ASSUME NEW len \in RumorLens
      PROVE  Wrappable(len, SealOverhead) <=> len \in 1..LongestRumor
  <2>1. len \in Nat
    BY AgentAssumption
  <2> QED
    BY <2>1, WrappableLens
<1> QED
  BY <1>1 DEF RightLens

\* So a gift that was sent arrives.
LEMMA GiftSentArrives ==
  ASSUME NEW rumor, NEW to \in Keys, NEW len, NEW time
  PROVE  GiftArrives([to |-> to, len |-> len],
                     gift_wrap(rumor, Me, to, now, Ephemeral, time).val)
<1> DEFINE e == gift_wrap(rumor, Me, to, now, Ephemeral, time).val
           w == [to |-> to, len |-> len]
<1>1. OpensFor(e, to)
  BY SentGiftOpens DEF OpensFor
<1>2. w.to = to
  OBVIOUS
<1> HIDE DEF e, w
<1>3. GiftArrives(w, e) <=> RightLens /\ OpensFor(e, w.to)
  BY DEF GiftArrives, RightLens, OpensFor, OpensRightly
<1>4. GiftArrives(w, e)
  BY <1>1, <1>2, <1>3, LensAreRight
<1> QED
  BY <1>4 DEF e, w

-----------------------------------------------------------------------------
(* Whatever was sent.                                                      *)

\* What a builder makes of what it may be given is acceptable, once signed.
LEMMA BuiltIsAcceptable ==
  ASSUME NEW api \in Builders, NEW w, Typed(api, w), Built(api, w).ok
  PROVE  Acceptable([api |-> api, what |-> w, event |-> Signed(Built(api, w).val)])
<1> DEFINE e == Signed(Built(api, w).val)
           s == [api |-> api, what |-> w, event |-> e]
<1>1. s.api = api /\ s.what = w /\ s.event = e
  OBVIOUS
<1>2. CASE api = "message"
  <2>1. Built(api, w) = build(w) /\ IsList(w.extra_tags)
    BY <1>2 DEF Built, Typed
  <2>2. MessageArrives(e)
    BY <2>1, MessageBuiltArrives
  <2> HIDE DEF e, s
  <2>3. Acceptable(s)
    BY <1>1, <1>2, <2>2 DEF Acceptable
  <2> QED
    BY <2>3 DEF s, e
<1>3. CASE api = "commerce"
  <2>1. Built(api, w) = build_commerce(w) /\ Typed("commerce", w)
    BY <1>3 DEF Built
  <2>2. CommerceArrives(w, e)
    BY <2>1, CommerceBuiltArrives
  <2> HIDE DEF e, s
  <2>3. Acceptable(s)
    BY <1>1, <1>3, <2>2 DEF Acceptable
  <2> QED
    BY <2>3 DEF s, e
<1>4. CASE api = "hello"
  <2>1. Built(api, w) = build_hello(w.agent_type, w.capabilities) /\ IsList(w.capabilities)
    BY <1>4 DEF Built, Typed
  <2>2. GreetingArrives("hello", w, e)
    BY <2>1, HelloArrives
  <2> HIDE DEF e, s
  <2>3. Acceptable(s)
    BY <1>1, <1>4, <2>2 DEF Acceptable
  <2> QED
    BY <2>3 DEF s, e
<1>5. CASE api = "bye"
  <2>1. Built(api, w) = build_bye
    BY <1>5 DEF Built
  <2>2. GreetingArrives("bye", w, e)
    BY <2>1, ByeArrives
  <2> HIDE DEF e, s
  <2>3. Acceptable(s)
    BY <1>1, <1>5, <2>2 DEF Acceptable
  <2> QED
    BY <2>3 DEF s, e
<1>6. CASE api = "task"
  <2>1. Built(api, w).val = build_task(w.description, w.policy, w.amount)
    BY <1>6 DEF Built, Ok
  <2>2. TaskArrives(e)
    BY <2>1, TaskBuiltArrives
  <2> HIDE DEF e, s
  <2>3. Acceptable(s)
    BY <1>1, <1>6, <2>2 DEF Acceptable
  <2> QED
    BY <2>3 DEF s, e
<1>7. CASE api = "withdraw"
  <2>1. Built(api, w).val = build_withdraw(w.task)
    BY <1>7 DEF Built, Ok
  <2>2. TaskArrives(e)
    BY <2>1, WithdrawBuiltArrives
  <2> HIDE DEF e, s
  <2>3. Acceptable(s)
    BY <1>1, <1>7, <2>2 DEF Acceptable
  <2> QED
    BY <2>3 DEF s, e
<1>8. CASE api \in {"claim", "assign"}
  <2>1. \E verb : Built(api, w) = TaskRef(verb, w.to, w.task)
    BY <1>8 DEF Built, build_claim, build_assign
  <2>2. MessageArrives(e)
    BY <2>1, TaskRefArrives
  <2> HIDE DEF e, s
  <2>3. Acceptable(s)
    BY <1>1, <1>8, <2>2 DEF Acceptable
  <2> QED
    BY <2>3 DEF s, e
<1>9. CASE api = "dialect"
  <2>1. Built(api, w).val = from_dialect(w) /\ Typed("dialect", w)
    BY <1>9 DEF Built, Ok
  <2>2. DialectArrives(w, e)
    BY <2>1, DialectBuiltArrives
  <2> HIDE DEF e, s
  <2>3. Acceptable(s)
    BY <1>1, <1>9, <2>2 DEF Acceptable
  <2> QED
    BY <2>3 DEF s, e
<1>10. CASE api = "profile"
  <2>1. Built(api, w).val = build_profile(w) /\ Typed("profile", w)
    BY <1>10 DEF Built, Ok
  <2>2. ProfileArrives(w, e)
    BY <2>1, ProfileBuiltArrives
  <2> HIDE DEF e, s
  <2>3. Acceptable(s)
    BY <1>1, <1>10, <2>2 DEF Acceptable
  <2> QED
    BY <2>3 DEF s, e
<1>11. CASE api = "zap"
  <2>1. Built(api, w) = zap_request(w) /\ Typed("zap", w)
    BY <1>11 DEF Built
  <2>2. ZapArrives(w, e)
    BY <2>1, ZapBuiltArrives
  <2> HIDE DEF e, s
  <2>3. Acceptable(s)
    BY <1>1, <1>11, <2>2 DEF Acceptable
  <2> QED
    BY <2>3 DEF s, e
<1>12. \/ api \in {"message", "commerce", "hello", "bye", "task", "withdraw"}
       \/ api \in {"claim", "assign"} \/ api \in {"dialect", "profile", "zap"}
  BY DEF Builders
<1> HIDE DEF e, s
<1> QED
  BY <1>2, <1>3, <1>4, <1>5, <1>6, <1>7, <1>8, <1>9, <1>10, <1>11, <1>12

\* What one step sends.
Sends == \E s : Acceptable(s) /\ sent' = sent \union {s}

\* A step sends something acceptable or nothing, and the work that the filter
\* asks for stays the same.
SentMoves == (Sends \/ UNCHANGED sent) /\ UNCHANGED required_pow_bits

\* Publishing what is acceptable is such a step.
LEMMA PublishSends ==
  ASSUME NEW api, NEW w, NEW e, Publish(api, w, e),
         Acceptable([api |-> api, what |-> w, event |-> e]), UNCHANGED spamVars
  PROVE  SentMoves
BY DEF SentMoves, Sends, Publish, spamVars, filterVars

\* So are all steps.
LEMMA SentStep ==
  ASSUME [Next]_vars
  PROVE  SentMoves
<1>1. ASSUME NEW o \in Outgoing, SendBuilt(o.api, o.what) PROVE SentMoves
  <2>1. o.api \in Builders /\ Typed(o.api, o.what)
    BY OutgoingAssumption
  <2>2. /\ Built(o.api, o.what).ok /\ UNCHANGED spamVars
        /\ Publish(o.api, o.what, Signed(Built(o.api, o.what).val))
    BY <1>1 DEF SendBuilt
  <2> QED
    BY <2>1, <2>2, BuiltIsAcceptable, PublishSends
<1>2. ASSUME NEW m \in Messages, SendMined(m) PROVE SentMoves
  <2>1. build(m).ok /\ UNCHANGED spamVars
    BY <1>2 DEF SendMined
  <2>2. PICK mined \in mine_pow([build(m).val EXCEPT !.pubkey = Me, !.created_at = now],
                                required_pow_bits) :
          Publish("mined", m, Signed(mined))
    BY <1>2 DEF SendMined
  <2>3. IsList(m.extra_tags)
    <3>1. Typed("message", m)
      BY MessagesAreBuilt, OutgoingAssumption
    <3> QED
      BY <3>1 DEF Typed
  <2> DEFINE e == Signed(mined)
             s == [api |-> "mined", what |-> m, event |-> e]
  <2>4. WorkIsKept(e)
    BY <2>1, <2>3, MinedArrives
  <2>5. s.api = "mined" /\ s.event = e
    OBVIOUS
  <2> HIDE DEF s, e
  <2>6. Acceptable(s)
    BY <2>4, <2>5 DEF Acceptable
  <2>7. Acceptable([api |-> "mined", what |-> m, event |-> Signed(mined)])
    BY <2>6 DEF s, e
  <2> QED
    BY <2>1, <2>2, <2>7, PublishSends
<1>3. ASSUME NEW t \in ThreadIds, NEW verb, NEW to, Reply(t, verb, to) PROVE SentMoves
  <2> DEFINE m == [continue_thread(t, verb) EXCEPT !.recipient = to]
             e == Signed(build(m).val)
             s == [api |-> "message", what |-> m, event |-> e]
  <2>1. build(m).ok /\ Publish("message", m, e) /\ UNCHANGED spamVars
    BY <1>3 DEF Reply
  <2>2. MessageArrives(e)
    BY <2>1, ReplyArrives
  <2>3. s.api = "message" /\ s.event = e
    OBVIOUS
  <2> HIDE DEF m, e, s
  <2>4. Acceptable(s)
    BY <2>2, <2>3 DEF Acceptable
  <2>5. Acceptable([api |-> "message", what |-> m, event |-> e])
    BY <2>4 DEF s
  <2> QED
    BY <2>1, <2>5, PublishSends
<1>4. ASSUME NEW m, NEW to \in Keys, NEW len, NEW time, SendGift(m, to, len, time)
      PROVE  SentMoves
  <2> DEFINE rumor == build([m EXCEPT !.recipient = to]).val
             w == [to |-> to, len |-> len]
             e == gift_wrap(rumor, Me, to, now, Ephemeral, time).val
             s == [api |-> "gift", what |-> w, event |-> e]
  <2>1. Publish("gift", w, e) /\ UNCHANGED spamVars
    BY <1>4 DEF SendGift
  <2> HIDE DEF rumor
  <2>2. GiftArrives(w, e)
    BY GiftSentArrives
  <2>3. s.api = "gift" /\ s.what = w /\ s.event = e
    OBVIOUS
  <2> HIDE DEF w, e, s
  <2>4. Acceptable(s)
    BY <2>2, <2>3 DEF Acceptable
  <2>5. Acceptable([api |-> "gift", what |-> w, event |-> e])
    BY <2>4 DEF s
  <2> QED
    BY <2>1, <2>5, PublishSends
<1>5. CASE Send
  BY <1>1, <1>2, <1>3, <1>4, <1>5 DEF Send
<1>6. CASE Receive
  <2>1. ASSUME NEW batch \in Batches, Drain(batch) PROVE SentMoves
    BY <2>1 DEF Drain, SentMoves, spamVars, filterVars
  <2>2. CASE Handle
    BY <2>2 DEF Handle, SentMoves, spamVars, filterVars
  <2>3. ASSUME NEW e \in net, Announce(e) PROVE SentMoves
    BY <2>3 DEF Announce, SentMoves, ownVars, spamVars, filterVars
  <2>4. ASSUME NEW e \in net, ReceiveDialect(e) PROVE SentMoves
    BY <2>4 DEF ReceiveDialect, SentMoves, ownVars, spamVars, filterVars
  <2>5. ASSUME NEW e \in net, NEW dialects, ReceiveReceipt(e, dialects) PROVE SentMoves
    BY <2>5 DEF ReceiveReceipt, SentMoves, ownVars, filterVars, record_zap, settings
  <2>6. ASSUME NEW e \in net, Unwrap(e) PROVE SentMoves
    BY <2>6 DEF Unwrap, SentMoves, spamVars, filterVars
  <2> QED
    BY <1>6, <2>1, <2>2, <2>3, <2>4, <2>5, <2>6 DEF Receive
<1>7. CASE Call
  <2>1. CASE ThreadCalls \/ DirectoryCalls
    BY <2>1 DEF ThreadCalls, DirectoryCalls, SentMoves, ownVars, spamVars, filterVars
  <2>2. CASE FilterCalls
    BY <2>2 DEF FilterCalls, FilterCall, SentMoves, ownVars, allow, disallow, clear, clear_all,
                settings
  <2>3. CASE Assignments
    BY <2>3 DEF Assignments, SentMoves, ownVars, spamVars, filterVars
  <2>4. CASE LimiterCalls
    BY <2>4 DEF LimiterCalls, SentMoves, ownVars, filterVars
  <2> QED
    BY <1>7, <2>1, <2>2, <2>3, <2>4 DEF Call
<1>8. CASE UNCHANGED vars
  BY <1>8 DEF vars, SentMoves, ownVars, spamVars, filterVars
<1> QED
  BY <1>5, <1>6, <1>7, <1>8 DEF Next

\* What is acceptable stays so: only the work asked for could change it.
LEMMA AcceptableStays ==
  ASSUME UNCHANGED required_pow_bits, NEW s
  PROVE  Acceptable(s) <=> Acceptable(s)'
<1>1. \A e : WorkIsKept(e)' <=> WorkIsKept(e)
  BY DEF WorkIsKept
<1> QED
  BY <1>1 DEF Acceptable

\* What the library builds, signs, mines, or wraps for an agent, its peers find
\* with the library's own filters.  Whatever the parser makes of a text, they
\* accept a message exactly when it still reads with the performative that was
\* written, and refuse it for nothing else; a dialect and a commerce message
\* that read back are as they were meant.  Of the parser only that it reads
\* (hello) and (bye) is assumed; keys, worlds, and arguments of the builders'
\* types are any.
THEOREM SentCorrect == Spec => []SentIsAcceptable
<1>1. Init => SentIsAcceptable
  BY DEF Init, SentIsAcceptable
<1>2. SentIsAcceptable /\ [Next]_vars => SentIsAcceptable'
  <2> SUFFICES ASSUME SentIsAcceptable, [Next]_vars PROVE SentIsAcceptable'
    OBVIOUS
  <2>1. SentMoves
    BY SentStep
  <2>2. \A s : Acceptable(s) <=> Acceptable(s)'
    BY <2>1, AcceptableStays DEF SentMoves
  <2>3. \A s \in sent' : Acceptable(s)
    <3>1. CASE UNCHANGED sent
      BY <3>1 DEF SentIsAcceptable
    <3>2. CASE Sends
      BY <3>2 DEF Sends, SentIsAcceptable
    <3> QED
      BY <2>1, <3>1, <3>2 DEF SentMoves
  <2> QED
    BY <2>2, <2>3 DEF SentIsAcceptable
<1> QED
  BY <1>1, <1>2, PTL DEF Spec

=============================================================================
