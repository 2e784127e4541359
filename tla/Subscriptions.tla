---------------------------- MODULE Subscriptions ----------------------------
(***************************************************************************)
(* The SubscriptionManager of subscription_manager.rs, the messages its    *)
(* callers send through the relay pool, and the relays that serve them.    *)
(*                                                                         *)
(* The manager only keeps two maps; a caller sends the REQ or CLOSE to     *)
(* every relay of the pool and hands each EOSE it receives to mark_live.   *)
(* Towards each relay the pool is the FIFO link that RelayTask is shown to *)
(* implement: a message taken from the queue may be lost with the          *)
(* connection.  A relay (external) serves a subscription on the connection *)
(* that carried its REQ, and forgets it when that connection ends.  What   *)
(* it sent stays in the pool's incoming channel: an EOSE may be handled    *)
(* long after its subscription was closed and its kind opened again.       *)
(*                                                                         *)
(* The five open_* functions differ in the filters only, and refuse an     *)
(* empty key or author list without a change; filters are left out.        *)
(***************************************************************************)
EXTENDS Integers, Sequences, FiniteSets

CONSTANTS
  Kinds,    \* SubscriptionKind
  Relays,   \* the relays of the pool
  NoKind,
  IdBound,  \* bound: subscription ids generated
  LossBound \* bound: connections lost

ASSUME SubscriptionAssumption ==
  /\ NoKind \notin Kinds
  /\ Kinds \intersect Nat = {}
  /\ IdBound \in Nat
  /\ LossBound \in Nat

VARIABLES
  subscriptions, \* the id of each kind's subscription, 0 if it has none
  id_to_kind,    \* the reverse map
  sync_state,    \* Live once an EOSE was marked; Syncing where there is none
  generated,     \* ids generated so far
  outbox,        \* what the pool has still to send to each relay
  served,        \* external: the ids a relay serves on its connection
  owed,          \* external: those whose stored events it has not all sent
  inbox,         \* the EOSEs of each relay the application has to handle
  ended,         \* history: the ids an EOSE was handled for
  losses         \* history: connections lost

manager == <<subscriptions, id_to_kind, sync_state, generated>>
vars == <<manager, outbox, served, owed, inbox, ended, losses>>

Ids == 1..IdBound

Active == {k \in Kinds : subscriptions[k] # 0}

Req(i) == <<"REQ", i>>
Close(i) == <<"CLOSE", i>>

ToAll(msgs) == [r \in Relays |-> outbox[r] \o msgs]

-----------------------------------------------------------------------------
Init ==
  /\ subscriptions = [k \in Kinds |-> 0]
  /\ id_to_kind = [i \in Ids |-> NoKind]
  /\ sync_state = [k \in Kinds |-> "Syncing"]
  /\ generated = 0
  /\ outbox = [r \in Relays |-> <<>>]
  /\ served = [r \in Relays |-> {}]
  /\ owed = [r \in Relays |-> {}]
  /\ inbox = [r \in Relays |-> <<>>]
  /\ ended = {}
  /\ losses = 0

(* Mutants of register: key and value of the reverse map are confused; an  *)
(* active subscription is replaced.                                        *)
RegisterSwapped(k, i) ==
  /\ k \notin Active
  /\ subscriptions' = [subscriptions EXCEPT ![k] = i]
  /\ id_to_kind' = [id_to_kind EXCEPT ![i] = i]
  /\ sync_state' = [sync_state EXCEPT ![k] = "Syncing"]

RegisterReplaces(k, i) ==
  /\ subscriptions' = [subscriptions EXCEPT ![k] = i]
  /\ id_to_kind' = [id_to_kind EXCEPT ![i] = k]
  /\ sync_state' = [sync_state EXCEPT ![k] = "Syncing"]

(* ensure_not_active and register.                                         *)
Register(k, i) ==
  /\ k \notin Active
  /\ subscriptions' = [subscriptions EXCEPT ![k] = i]
  /\ id_to_kind' = [id_to_kind EXCEPT ![i] = k]
  /\ sync_state' = [sync_state EXCEPT ![k] = "Syncing"]

(* An open_* call, whose caller sends the REQ to every relay.              *)
OpenKind(k) ==
  /\ generated < IdBound
  /\ generated' = generated + 1
  /\ Register(k, generated + 1)
  /\ outbox' = ToAll(<<Req(generated + 1)>>)
  /\ UNCHANGED <<served, owed, inbox, ended, losses>>

(* Mutant: the id stays in the reverse map.                                *)
CloseKeepsId(k) ==
  /\ k \in Active
  /\ subscriptions' = [subscriptions EXCEPT ![k] = 0]
  /\ sync_state' = [sync_state EXCEPT ![k] = "Syncing"]
  /\ outbox' = ToAll(<<Close(subscriptions[k])>>)
  /\ UNCHANGED <<id_to_kind, generated, served, owed, inbox, ended, losses>>

(* close, whose caller sends the CLOSE.                                    *)
CloseKind(k) ==
  /\ k \in Active
  /\ subscriptions' = [subscriptions EXCEPT ![k] = 0]
  /\ id_to_kind' = [id_to_kind EXCEPT ![subscriptions[k]] = NoKind]
  /\ sync_state' = [sync_state EXCEPT ![k] = "Syncing"]
  /\ outbox' = ToAll(<<Close(subscriptions[k])>>)
  /\ UNCHANGED <<generated, served, owed, inbox, ended, losses>>

(* close_all drains the map: one CLOSE for each, in any order.             *)
ClosesOf(ids) ==
  {order \in [1..Cardinality(ids) -> {Close(i) : i \in ids}] :
     \A i \in ids : \E n \in DOMAIN order : order[n] = Close(i)}

(* Mutant: the reverse map is not cleared.                                 *)
CloseAllForgets ==
  /\ subscriptions' = [k \in Kinds |-> 0]
  /\ sync_state' = [k \in Kinds |-> "Syncing"]
  /\ \E order \in ClosesOf({subscriptions[k] : k \in Active}) : outbox' = ToAll(order)
  /\ UNCHANGED <<id_to_kind, generated, served, owed, inbox, ended, losses>>

CloseAll ==
  /\ subscriptions' = [k \in Kinds |-> 0]
  /\ id_to_kind' = [i \in Ids |-> NoKind]
  /\ sync_state' = [k \in Kinds |-> "Syncing"]
  /\ \E order \in ClosesOf({subscriptions[k] : k \in Active}) : outbox' = ToAll(order)
  /\ UNCHANGED <<generated, served, owed, inbox, ended, losses>>

(* The application takes an EOSE and calls mark_live: an unknown id and a  *)
(* subscription that is live already are left alone.                       *)
MarkLive(r) ==
  /\ inbox[r] # <<>>
  /\ LET i == Head(inbox[r])
         k == id_to_kind[i]
     IN  /\ sync_state' = IF k \in Kinds
                          THEN [sync_state EXCEPT ![k] = "Live"] ELSE sync_state
         /\ ended' = ended \union {i}
  /\ inbox' = [inbox EXCEPT ![r] = Tail(@)]
  /\ UNCHANGED <<subscriptions, id_to_kind, generated, outbox, served, owed, losses>>

-----------------------------------------------------------------------------
(* The relays and the connections to them.                                 *)

(* The next message reaches the relay.                                     *)
Transmit(r) ==
  /\ outbox[r] # <<>>
  /\ LET m == Head(outbox[r])
         i == m[2]
     IN  IF m[1] = "REQ"
         THEN /\ served' = [served EXCEPT ![r] = @ \union {i}]
              /\ owed' = [owed EXCEPT ![r] = @ \union {i}]
         ELSE /\ served' = [served EXCEPT ![r] = @ \ {i}]
              /\ owed' = [owed EXCEPT ![r] = @ \ {i}]
  /\ outbox' = [outbox EXCEPT ![r] = Tail(@)]
  /\ UNCHANGED <<manager, inbox, ended, losses>>

(* The relay has sent the stored events.                                   *)
SendEose(r, i) ==
  /\ i \in owed[r]
  /\ owed' = [owed EXCEPT ![r] = @ \ {i}]
  /\ inbox' = [inbox EXCEPT ![r] = Append(@, i)]
  /\ UNCHANGED <<manager, outbox, served, ended, losses>>

(* The connection ends, with or without the loss of a message; the next    *)
(* connection carries what is queued, and no REQ is sent again.            *)
LoseConnection(r) ==
  /\ losses < LossBound
  /\ losses' = losses + 1
  /\ served' = [served EXCEPT ![r] = {}]
  /\ owed' = [owed EXCEPT ![r] = {}]
  /\ \/ UNCHANGED outbox
     \/ outbox[r] # <<>> /\ outbox' = [outbox EXCEPT ![r] = Tail(@)]
  /\ UNCHANGED <<manager, inbox, ended>>

Next ==
  \/ \E k \in Kinds : OpenKind(k) \/ CloseKind(k)
  \/ CloseAll
  \/ \E r \in Relays :
       \/ MarkLive(r) \/ Transmit(r) \/ LoseConnection(r)
       \/ \E i \in Ids : SendEose(r, i)

Spec == Init /\ [][Next]_vars

-----------------------------------------------------------------------------
SubscriptionTypeOK ==
  /\ subscriptions \in [Kinds -> 0..IdBound]
  /\ id_to_kind \in [Ids -> Kinds \union {NoKind}]
  /\ sync_state \in [Kinds -> {"Syncing", "Live"}]
  /\ generated \in 0..IdBound
  /\ outbox \in [Relays -> Seq({"REQ", "CLOSE"} \X Ids)]
  /\ served \in [Relays -> SUBSET Ids]
  /\ owed \in [Relays -> SUBSET Ids]
  /\ inbox \in [Relays -> Seq(Ids)]
  /\ ended \in SUBSET Ids
  /\ losses \in 0..LossBound

(* The two maps are each other's inverse: an id that is closed is forgotten*)
(* and no id names two kinds.                                              *)
MapsInverse ==
  \A k \in Kinds, i \in Ids : id_to_kind[i] = k <=> subscriptions[k] = i

(* A subscription is live only because of an EOSE for that very            *)
(* subscription: a late one, for an earlier subscription of the same kind, *)
(* does not pass for it.                                                   *)
LiveIsEarned ==
  \A k \in Kinds : sync_state[k] = "Live" => subscriptions[k] \in ended

(* No relay streams for a subscription the manager has forgotten, unless   *)
(* its CLOSE is on the way: neither a lost message nor a reconnection      *)
(* leaves an orphan behind.                                                *)
NoOrphan ==
  \A r \in Relays : \A i \in served[r] :
    \/ \E k \in Kinds : subscriptions[k] = i
    \/ \E n \in 1..Len(outbox[r]) : outbox[r][n] = Close(i)

(* SyncState::Live: "EOSE received - now in real-time streaming mode".     *)
LiveIsStreaming ==
  \A k \in Kinds :
    sync_state[k] = "Live" => \E r \in Relays : subscriptions[k] \in served[r]

=============================================================================
