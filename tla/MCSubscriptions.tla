--------------------------- MODULE MCSubscriptions ---------------------------
(***************************************************************************)
(* Instances of Subscriptions for TLC: two kinds on two relays, with one   *)
(* id more than kinds, so that a kind is opened again; and one relay that  *)
(* reconnects.                                                             *)
(***************************************************************************)
EXTENDS Subscriptions, TLC

CONSTANTS inbox_kind, registry_kind, r1, r2

OneKind == {inbox_kind}
TwoKinds == {inbox_kind, registry_kind}
OneRelay == {r1}
TwoRelays == {r1, r2}

SubscriptionSymmetry == Permutations(TwoKinds) \union Permutations(TwoRelays)

=============================================================================
