----------------------------- MODULE MCRelayTask -----------------------------
(***************************************************************************)
(* Instances of RelayTask for TLC: one task, and a channel shorter than    *)
(* the messages given to it.                                               *)
(***************************************************************************)
EXTENDS RelayTask, TLC

CONSTANTS t1, m1, m2, m3

OneTask == {t1}
OneMsg == {m1}
ThreeMsgs == {m1, m2, m3}

=============================================================================
