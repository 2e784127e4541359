------------------------------ MODULE Exchange ------------------------------
(***************************************************************************)
(* What an agent publishes and how a peer finds it: the builders of        *)
(* commerce messages (commerce_dialect.rs) and of task messages            *)
(* (open_task_market.rs), and the filters of the subscriptions of          *)
(* subscription_manager.rs.                                                *)
(***************************************************************************)
EXTENDS Discovery, Dialects, Reputation, TLC

-----------------------------------------------------------------------------
(* Commerce.                                                               *)

COMMERCE_DIALECT_NAME == "commerce"

\* The performatives of the dialect and the effect each one's template has.
CommerceEffects ==
  [quote |-> "quote-item", counter |-> "counter-offer", invoice |-> "issue-invoice",
   paid |-> "confirm-payment"]
  @@ ("accept-quote" :> "accept-offer") @@ ("reject-quote" :> "reject-offer")

commerce_dialect ==
  [name |-> COMMERCE_DIALECT_NAME, author |-> "@commerce",
   performatives |-> {[name |-> v, uses |-> {"effect", CommerceEffects[v]}] :
                        v \in DOMAIN CommerceEffects},
   resources |-> [max_depth |-> 16, max_expansion_size |-> 1024,
                  verification_time_ms |-> 50],
   signature |-> Unsigned_]

commerce_dialect_event == from_dialect(commerce_dialect)

wrap_commerce(inner) == encode("lang", <<COMMERCE_DIALECT_NAME, inner>>)

\* unwrap_commerce: the expression inside the envelope, as a set of at most
\* one; only an envelope of this dialect has it.
unwrap_commerce(sexpr) ==
  IF sexpr.head = "lang" /\ Len(sexpr.body) = 2 /\ sexpr.body[1] = COMMERCE_DIALECT_NAME
  THEN {sexpr.body[2]} ELSE {}

\* CommerceMessageBuilder::build: a tell whose content is replaced.
build_commerce(m) ==
  LET outer == build([m EXCEPT !.performative = "tell", !.body = <<>>,
                               !.dialect = COMMERCE_DIALECT_NAME,
                               !.extra_tags = <<[variant |-> "Hashtag",
                                                 args |-> <<m.performative>>]>> \o @])
  IN  IF outer.ok
      THEN Ok([outer.val EXCEPT !.content = wrap_commerce(encode(m.performative, m.body))])
      ELSE outer

-----------------------------------------------------------------------------
(* Tasks.                                                                  *)

\* No amount is a negative one.
build_task(description, policy, amount) ==
  Unsigned(KIND_AGENT_MESSAGE,
           << <<"performative", "task">>, <<"claim-policy", policy>> >>
           \o (IF amount < 0 THEN <<>> ELSE << <<"amount", amount>> >>),
           encode("task", <<"description", description>>))

TaskRef(verb, to, task) ==
  build([Message(verb) EXCEPT !.recipient = to, !.body = <<"task-ref", task>>,
           !.extra_tags = <<[variant |-> "Event", args |-> <<task>>]>>])

build_claim(publisher, task) == TaskRef("claim", publisher, task)
build_assign(assignee, task) == TaskRef("assign", assignee, task)

build_withdraw(task) ==
  Unsigned(KIND_AGENT_MESSAGE, << <<"performative", "withdraw">>, <<"e", task>> >>,
           encode("withdraw", <<"task-ref", task>>))

-----------------------------------------------------------------------------
(* The filters of the managed subscriptions.                               *)

open_inbox(key) ==
  IF key = None THEN Err("MissingPubkey")
  ELSE Ok(<< [kinds |-> {KIND_AGENT_MESSAGE}, p_tags |-> {key}] >>)

open_dialect_listener == Ok(<< dialect_filter >>)

open_bounty_board == Ok(<< [kinds |-> {KIND_AGENT_MESSAGE}, t_tags |-> {"bounty"}] >>)

open_agent_discovery(keys) ==
  Ok(<< IF keys = {} THEN profile_filter ELSE profile_filter_by_pubkeys(keys) >>)

open_dialect_registry(authors) ==
  IF authors = {} THEN Err("EmptyPubkeys")
  ELSE Ok(<< [kinds |-> {KIND_AGENT_DIALECT}, authors |-> authors,
              label_namespace_tags |-> {DialectLabel}] >>)

\* The filters of all five subscriptions of an agent that follows some keys.
AllSubscriptions(key, keys) ==
  open_inbox(key).val \o open_dialect_listener.val \o open_bounty_board.val
    \o open_agent_discovery(keys).val \o open_dialect_registry(keys).val

=============================================================================
