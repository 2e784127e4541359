------------------------------ MODULE Dialects ------------------------------
(***************************************************************************)
(* Dialects of dialect_negotiation.rs and dialect_safety.rs, published as  *)
(* events, parsed, verified (R1 to R4) and installed into the registry     *)
(* that the inbox of inbox_handler.rs consults for every message.          *)
(*                                                                         *)
(* A dialect keeps what the checks read: its performatives (a name and the *)
(* names its template uses), its resource bounds and its signature (the    *)
(* key and the name signed, or none).  The checks R1 to R3 and the         *)
(* registry itself are cbcl-core's, external to this repository.           *)
(***************************************************************************)
EXTENDS Wire, FiniteSets

CONSTANT InstallBound   \* bound: dialects installed

ASSUME DialectAssumption == InstallBound \in Nat

VARIABLES
  registry,    \* the dialects installed, oldest first
  installs     \* history: the event each came from, and the path taken

dialectVars == <<registry, installs>>

Unsigned_ == <<>>                 \* a dialect without a signature
Garbled == <<None, None>>         \* a signature that lost its bytes

DialectLabel == "cbcl.dialect"

\* Serialisation writes the bytes of a signature as lossy UTF-8, which the
\* 64 bytes of a Schnorr signature are not, and a missing author by name.
serialize_dialect(d) ==
  encode("define",
         [d EXCEPT !.signature = IF @ = Unsigned_ THEN Unsigned_ ELSE Garbled,
                   !.author = IF @ = None THEN "@anonymous" ELSE @])

DialectTags(name) ==
  << <<"dialect", name>>, <<"L", DialectLabel>>, <<"l", name, DialectLabel>> >>

build_dialect(name, content) == Unsigned(KIND_AGENT_DIALECT, DialectTags(name), content)

from_dialect(d) == build_dialect(d.name, serialize_dialect(d))

dialect_filter == [kinds |-> {KIND_AGENT_DIALECT}, label_namespace_tags |-> {DialectLabel}]
\* Mutant: the name and its namespace are exchanged.
FilterSwapped(name) ==
  [kinds |-> {KIND_AGENT_DIALECT}, label_namespace_tags |-> {name},
   label_tags |-> {DialectLabel}]

dialect_filter_by_name(name) ==
  [kinds |-> {KIND_AGENT_DIALECT}, label_namespace_tags |-> {DialectLabel},
   label_tags |-> {name}]
dialect_filter_by_author(author) ==
  [kinds |-> {KIND_AGENT_DIALECT}, authors |-> {author},
   label_namespace_tags |-> {DialectLabel}]

\* cbcl-parser reads (define ...), and (meta (define ...)) when the head
\* says so; any other head is no dialect.
is_meta_form(sexpr) == sexpr.head = "meta"
parse_definition(sexpr) ==
  IF sexpr.head = "define" \/ is_meta_form(sexpr) THEN Ok(sexpr.body) ELSE Err("DialectParse")

parse_dialect_event(event) ==
  LET sexpr == decode(event.content)
      dialect == parse_definition(sexpr.val)
  IN  IF Tagged(event, "Dialect") = {} THEN Err("MissingDialectTag")
      ELSE IF ~sexpr.ok THEN sexpr
      ELSE IF ~dialect.ok THEN dialect
      ELSE IF dialect.val.name # FindTag(event, "Dialect") THEN Err("NameMismatch")
      ELSE dialect

-----------------------------------------------------------------------------
(* The safety constraints.                                                 *)

verify_r1(d) == \A p \in d.performatives : p.name \notin p.uses

verify_r2(d) ==
  /\ d.resources.max_depth \in 1..64
  /\ d.resources.max_expansion_size \in 1..8192
  /\ d.resources.verification_time_ms \in 1..1000

verify_r3(d) == \A p \in d.performatives : p.name \notin CORE_PERFORMATIVES

\* The signature inside a dialect is checked against the author of the event.
check_r4(d, author) ==
  CASE d.signature = Unsigned_          -> "Unsigned"
    [] d.signature = <<author, d.name>> -> "Valid"
    [] OTHER                            -> "Invalid"

\* Mutant: whoever signs the event is taken to have signed the dialect.
R4ByEnvelope(event, d) == IF verify_event(event).ok THEN "Valid" ELSE "Invalid"

verify_r4(event, d) ==
  IF verify_event(event).ok THEN check_r4(d, event.pubkey) ELSE "Invalid"

verify_all(event, d) ==
  [violations |-> {r \in {"R1", "R2", "R3", "R4"} :
                     CASE r = "R1" -> ~verify_r1(d)
                       [] r = "R2" -> ~verify_r2(d)
                       [] r = "R3" -> ~verify_r3(d)
                       [] r = "R4" -> verify_r4(event, d) = "Invalid"},
   r4_result |-> verify_r4(event, d),
   author_pubkey |-> event.pubkey]

is_safe(report) == report.violations = {}

-----------------------------------------------------------------------------
(* Installation, by either function.                                       *)

InstallCheck(d) == verify_r1(d) /\ verify_r2(d) /\ verify_r3(d)

\* What install_dialect_event answers.
InstallOutcome(event) ==
  LET wrapped == from_event(event, KIND_AGENT_DIALECT)
      dialect == parse_dialect_event(event)
  IN  IF ~wrapped.ok THEN wrapped
      ELSE IF ~dialect.ok THEN dialect
      ELSE IF ~InstallCheck(dialect.val) THEN Err("Install")
      ELSE dialect

\* What install_dialect_event_verified answers: the signature of the event
\* first, all the constraints last.
VerifiedOutcome(event) ==
  LET verdict == verify_event(event)
      wrapped == from_event(event, KIND_AGENT_DIALECT)
      dialect == parse_dialect_event(event)
  IN  IF ~verdict.ok THEN verdict
      ELSE IF ~wrapped.ok THEN wrapped
      ELSE IF ~dialect.ok THEN dialect
      ELSE IF ~is_safe(verify_all(event, dialect.val)) THEN Err("Safety")
      ELSE InstallOutcome(event)

Install(event, path) ==
  LET outcome == IF path = "verified" THEN VerifiedOutcome(event) ELSE InstallOutcome(event)
  IN  IF ~outcome.ok THEN UNCHANGED dialectVars
      ELSE /\ Len(registry) < InstallBound
           /\ registry' = Append(registry, outcome.val)
           /\ installs' = Append(installs, [event |-> event, path |-> path])

install_dialect_event(event) == Install(event, "plain")
install_dialect_event_verified(event) == Install(event, "verified")

DialectInit == registry = <<>> /\ installs = <<>>

\* A new registry holds the base dialect, and only it.
BaseDialect == "cbcl"
InstalledNames == {BaseDialect} \union {registry[i].name : i \in DOMAIN registry}

-----------------------------------------------------------------------------
(* The inbox: an event of any origin becomes a message or an error.        *)

check_dialect(event, names) ==
  \A i \in Tagged(event, "Dialect") : event.tags[i][2] \in names

process(event, names) ==
  LET verdict == verify_event(event)
      content == decode(event.content)
      performative == validate_performative(event)
  IN  IF event.kind # KIND_AGENT_MESSAGE THEN Err("WrongKind")
      ELSE IF ~verdict.ok THEN verdict
      ELSE IF ~content.ok THEN content
      ELSE IF ~performative.ok THEN performative
      ELSE IF ~check_dialect(event, names) THEN Err("UnknownDialect")
      ELSE Ok([event |-> event, performative |-> performative.val])

\* process_batch: the messages and the events refused, each in the order of
\* the batch.
process_batch(events, names) ==
  [ok |-> Filtered(events, LAMBDA event : process(event, names).ok),
   err |-> Filtered(events, LAMBDA event : ~process(event, names).ok)]

PerformativeKind(performative) ==
  IF performative \in CORE_PERFORMATIVES THEN performative ELSE "Extended"

-----------------------------------------------------------------------------
\* Whatever path a dialect came by, what is in the registry satisfies R1 to
\* R3 and bears the name its event was tagged with; by the verified path it
\* also comes from an event that its author signed, unchanged, and it holds
\* no signature that its author did not make.
InstalledIsSafe ==
  \A i \in DOMAIN registry :
    LET d == registry[i]
        from == installs[i].event
    IN  /\ verify_r1(d) /\ verify_r2(d) /\ verify_r3(d)
        /\ d.name = FindTag(from, "Dialect")
        /\ installs[i].path = "verified" =>
             /\ from.sig = <<from.pubkey, compute_event_id(from)>>
             /\ d.signature \in {Unsigned_, <<from.pubkey, d.name>>}

=============================================================================
