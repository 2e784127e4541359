---------------------------- MODULE MCTaskMarket ----------------------------
(***************************************************************************)
(* An instance of TaskMarket for TLC: two observers and three agents, so   *)
(* that a publisher, a claimant and a competitor or an outsider meet.      *)
(***************************************************************************)
EXTENDS TaskMarket, TLC

CONSTANTS alice, bob, carol, o1, o2

ThreeAgents == {alice, bob, carol}
TwoAgents == {alice, bob}
TwoObservers == {o1, o2}
OneObserver == {o1}

MarketSymmetry == Permutations(ThreeAgents) \union Permutations(TwoObservers)

=============================================================================
