----------------------------- MODULE MCRelayPool -----------------------------
(***************************************************************************)
(* Instances of RelayPool for TLC: two relays and two callers, and one     *)
(* relay that is removed and added again.                                  *)
(***************************************************************************)
EXTENDS RelayPool, TLC

CONSTANTS r1, r2, c1, c2, e1, e2, s1

OneUrl == {r1}
TwoUrls == {r1, r2}
OneCaller == {c1}
TwoCallers == {c1, c2}
OneEvent == {e1}
TwoEvents == {e1, e2}
OneSub == {s1}
None == {}

PoolTasks == Urls \X (1..GenBound)
PoolMsgs == Events \union {Req(s) : s \in SubIds} \union {Close(s) : s \in SubIds}

PoolSymmetry ==
  Permutations(TwoUrls) \union Permutations(TwoCallers) \union Permutations(TwoEvents)

CallerSymmetry == Permutations(TwoCallers)

=============================================================================
