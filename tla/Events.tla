------------------------------- MODULE Events -------------------------------
(***************************************************************************)
(* Nostr events as the crate handles them: typed tags, the S-expression    *)
(* codec, the message builder, signing and verification.                   *)
(*                                                                         *)
(* Keys: a key pair is one model value, its secret and its public half     *)
(* alike.  Cryptography is symbolic: the id of an event is the tuple of    *)
(* the fields that are hashed, a signature is the pair of the key and the  *)
(* id it signs, so that two ids or signatures are equal exactly when what  *)
(* they cover is.  A content is a record with a field form: "blank",       *)
(* "list" (the text of an S-expression whose head symbol is head, "" when  *)
(* it has none), or a form that a module of this project adds and that is  *)
(* no S-expression.  The parser is external: it need not read a text as    *)
(* what was written, since a text may exhaust its fuel, and a head symbol  *)
(* is any string: one with a space in it is two atoms, digits are a number. *)
(***************************************************************************)
EXTENDS Naturals, Sequences

CONSTANTS
  Keys,        \* the well-formed keys: decoding any other fails
  Parses(_),   \* the texts that parse within the fuel
  Reads(_)     \* what such a text reads as

KIND_AGENT_MESSAGE == 21111
KIND_AGENT_DIALECT == 31111

\* A result as the code returns it: Ok(v) or Err(kind).
Ok(v) == [ok |-> TRUE, val |-> v]
Err(kind) == [ok |-> FALSE, val |-> kind]
Gives(result, v) == result.ok /\ result.val = v

None == ""      \* Option::None of a string

\* The elements of a sequence at some of its places, in order, as a loop that
\* keeps them pushes them one by one; and those that pass a test.
Picked(s, places) ==
    LET upto[n \in 0..Len(s)] ==
          IF n = 0 THEN <<>>
          ELSE IF n \in places THEN Append(upto[n - 1], s[n]) ELSE upto[n - 1]
    IN  upto[Len(s)]

Filtered(s, Test(_)) == Picked(s, {i \in DOMAIN s : Test(s[i])})

-----------------------------------------------------------------------------
(* Tags: a raw tag is a sequence of strings, a typed one names its variant. *)

Variant == [p |-> "PubKey", performative |-> "Performative",
            thread |-> "Thread", e |-> "Event", dialect |-> "Dialect",
            t |-> "Hashtag", amount |-> "Amount", L |-> "LabelNamespace",
            l |-> "Label"]

Arity(key) == IF key = "l" THEN 3 ELSE 2

Tag_parse(raw) ==
    IF raw # <<>> /\ raw[1] \in DOMAIN Variant /\ Len(raw) >= Arity(raw[1])
    THEN [variant |-> Variant[raw[1]], args |-> SubSeq(raw, 2, Arity(raw[1]))]
    ELSE [variant |-> "Unknown", args |-> raw]

Tag_to_raw(tag) ==
    IF tag.variant = "Unknown"
    THEN tag.args
    ELSE <<CHOOSE key \in DOMAIN Variant : Variant[key] = tag.variant>> \o tag.args

\* The places of the tags of a variant, and the value of the first, None
\* without one.
Tagged(event, variant) ==
    {i \in DOMAIN event.tags : Tag_parse(event.tags[i]).variant = variant}

FindTag(event, variant) ==
    LET places == Tagged(event, variant)
    IN  IF places = {} THEN None
        ELSE LET first == CHOOSE i \in places : \A j \in places : i <= j
             IN  Tag_parse(event.tags[first]).args[1]

-----------------------------------------------------------------------------
(* The codec, and the performative an event declares and contains.         *)

CORE_PERFORMATIVES ==
    {"tell", "ask", "reply", "ok", "error", "cancel", "hello", "bye"}

decode(content) ==
    CASE content.form = "blank" -> Err("EmptyContent")
      [] content.form = "list" /\ Parses(content) -> Ok(Reads(content))
      [] OTHER -> Err("Parse")

encode(head, body) == [form |-> "list", head |-> head, body |-> body]

\* A text that reads as it was written, or at least with its head.
ReadsBack(content) == Gives(decode(content), content)
HeadKept(content) == decode(content).ok /\ decode(content).val.head = content.head

\* The texts of a greeting, (hello) and (bye), do.
ASSUME ReadingAssumption == \A head \in {"hello", "bye"} : HeadKept(encode(head, <<>>))

extract_performative(sexpr) == sexpr.head

validate_performative(event) ==
    LET tag == FindTag(event, "Performative")
        sexpr == decode(event.content)
    IN  IF Tagged(event, "Performative") = {} THEN Err("MissingTag")
        ELSE IF ~sexpr.ok THEN sexpr
        ELSE IF extract_performative(sexpr.val) = None THEN Err("NoHeadSymbol")
        ELSE IF extract_performative(sexpr.val) # tag THEN Err("Mismatch")
        ELSE Ok(tag)

\* AgentMessage::from_event and AgentDialect::from_event: the wrapper is the
\* event itself, since its parsed tags depend on nothing else.
from_event(event, kind) ==
    IF event.kind = kind THEN Ok(event) ELSE Err("WrongKind")

-----------------------------------------------------------------------------
(* Signing.                                                                 *)

NoId == <<>>    \* an id or a signature that is the empty string

Unsigned(kind, tags, content) ==
    [id |-> NoId, pubkey |-> None, created_at |-> 0, kind |-> kind,
     tags |-> tags, content |-> content, sig |-> NoId]

compute_event_id(event) ==
    <<event.pubkey, event.created_at, event.kind, event.tags, event.content>>

sign_event(event, secret, now) ==
    IF secret \notin Keys THEN Err("Hex")
    ELSE LET dated == [event EXCEPT !.pubkey = secret, !.created_at = now]
             id == compute_event_id(dated)
         IN  Ok([dated EXCEPT !.id = id, !.sig = <<secret, id>>])

\* Mutant: the id is not computed again.
VerifyStatedId(event) ==
    IF event.pubkey \notin Keys THEN Err("Hex")
    ELSE IF event.sig # <<event.pubkey, event.id>> THEN Err("Crypto")
    ELSE Ok(event)

verify_event(event) ==
    IF event.id # compute_event_id(event) THEN Err("IdMismatch")
    ELSE IF event.pubkey \notin Keys THEN Err("Hex")
    ELSE IF event.sig # <<event.pubkey, event.id>> THEN Err("Crypto")
    ELSE Ok(event)

-----------------------------------------------------------------------------
(* The message builder.  A message to build: its performative, its          *)
(* recipient, thread and dialect (None when not set), its body and the      *)
(* typed tags added to it.                                                  *)

BROADCAST_PERFORMATIVES == {"hello", "bye"}

Message(performative) ==
    [performative |-> performative, recipient |-> None, body |-> <<>>,
     thread |-> None, dialect |-> None, extra_tags |-> <<>>]

OptionTag(variant, value) ==
    IF value = None THEN <<>> ELSE <<[variant |-> variant, args |-> <<value>>]>>

build(m) ==
    LET broadcast == m.performative \in BROADCAST_PERFORMATIVES
        tags == OptionTag("PubKey", m.recipient)
                \o OptionTag("Performative", m.performative)
                \o OptionTag("Thread", m.thread)
                \o OptionTag("Dialect", m.dialect)
                \o m.extra_tags
    IN  IF m.performative = None THEN Err("EmptyPerformative")
        ELSE IF ~broadcast /\ m.recipient = None THEN Err("MissingRecipient")
        ELSE IF broadcast /\ m.recipient # None THEN Err("UnexpectedRecipient")
        ELSE
          Ok(Unsigned(KIND_AGENT_MESSAGE,
                      [i \in DOMAIN tags |-> Tag_to_raw(tags[i])],
                      encode(m.performative, m.body)))

=============================================================================
