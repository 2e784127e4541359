------------------------------ MODULE LossyFifo ------------------------------
(***************************************************************************)
(* What a relay handle promises about the messages given to it, with no    *)
(* word of connections, retries or channels: every link settles the        *)
(* messages it accepted one at a time, in the order it accepted them, and  *)
(* once each: a message is either sent or lost.  A link that is closed     *)
(* accepts and settles nothing more; what it had not settled is lost.      *)
(***************************************************************************)
EXTENDS Integers, Sequences

CONSTANTS Links, Payloads

VARIABLES
  given,    \* the messages a link accepted, in order
  outcome,  \* those it settled, in order, and whether each was sent
  closed    \* the links that have shut down

fifoVars == <<given, outcome, closed>>

FifoInit ==
  /\ given = [l \in Links |-> <<>>]
  /\ outcome = [l \in Links |-> <<>>]
  /\ closed = [l \in Links |-> FALSE]

Accept(l, m) ==
  /\ ~closed[l]
  /\ given' = [given EXCEPT ![l] = Append(@, m)]
  /\ UNCHANGED <<outcome, closed>>

Settle(l, ok) ==
  /\ ~closed[l]
  /\ Len(outcome[l]) < Len(given[l])
  /\ outcome' = [outcome EXCEPT
       ![l] = Append(@, [msg |-> given[l][Len(outcome[l]) + 1], sent |-> ok])]
  /\ UNCHANGED <<given, closed>>

Close(l) ==
  /\ ~closed[l]
  /\ closed' = [closed EXCEPT ![l] = TRUE]
  /\ UNCHANGED <<given, outcome>>

FifoNext ==
  \E l \in Links :
    \/ \E m \in Payloads : Accept(l, m)
    \/ \E ok \in BOOLEAN : Settle(l, ok)
    \/ Close(l)

FifoSpec == FifoInit /\ [][FifoNext]_fifoVars

=============================================================================
