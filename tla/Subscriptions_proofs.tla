------------------------ MODULE Subscriptions_proofs ------------------------
(***************************************************************************)
(* Proofs about Subscriptions for any kinds and relays, and any number of  *)
(* subscriptions and lost connections.                                     *)
(***************************************************************************)
EXTENDS Subscriptions, FiniteSetTheorems, TLAPS

Messages == {"REQ", "CLOSE"} \X Ids

-----------------------------------------------------------------------------
(* Facts about queues of messages: a CLOSE that is in one, or behind its   *)
(* n-th message, survives what is appended and what is taken before it.    *)
Covered(q, i) == \E n \in 1..Len(q) : q[n] = Close(i)

ClosedAfter(q, n, i) == \E p \in 1..Len(q) : p > n /\ q[p] = Close(i)

\* Messages appended to a queue leave what it has of CLOSEs.
LEMMA AppendKeeps ==
  ASSUME NEW q \in Seq(Messages), NEW s \in Seq(Messages), NEW i
  PROVE  /\ Covered(q, i) \/ Covered(s, i) => Covered(q \o s, i)
         /\ \A n \in 1..Len(q) :
              ClosedAfter(q, n, i) \/ Covered(s, i) => ClosedAfter(q \o s, n, i)
<1>1. /\ Len(q) \in Nat /\ Len(s) \in Nat /\ Len(q \o s) = Len(q) + Len(s)
      /\ \A p \in 1..Len(q) : (q \o s)[p] = q[p]
      /\ \A p \in 1..Len(s) : (q \o s)[Len(q) + p] = s[p]
  OBVIOUS
<1>2. ASSUME NEW p \in 1..Len(q), q[p] = Close(i)
      PROVE  p \in 1..Len(q \o s) /\ (q \o s)[p] = Close(i)
  BY <1>1, <1>2
<1>3. ASSUME NEW p \in 1..Len(s), s[p] = Close(i)
      PROVE  /\ Len(q) + p \in 1..Len(q \o s) /\ Len(q) + p > Len(q)
             /\ (q \o s)[Len(q) + p] = Close(i)
  BY <1>1, <1>3
<1>4. Covered(q, i) \/ Covered(s, i) => Covered(q \o s, i)
  BY <1>2, <1>3 DEF Covered
<1>5. ASSUME NEW n \in 1..Len(q), ClosedAfter(q, n, i)
      PROVE  ClosedAfter(q \o s, n, i)
  BY <1>2, <1>5 DEF ClosedAfter
<1>6. ASSUME NEW n \in 1..Len(q), Covered(s, i)
      PROVE  ClosedAfter(q \o s, n, i)
  <2>1. PICK p \in 1..Len(s) : s[p] = Close(i)
    BY <1>6 DEF Covered
  <2>2. Len(q) + p > n
    BY <1>1
  <2> QED BY <1>3, <2>1, <2>2 DEF ClosedAfter
<1> QED BY <1>4, <1>5, <1>6

\* So does sending the first, except for the CLOSE that is sent.
LEMMA TailKeeps ==
  ASSUME NEW q \in Seq(Messages), q # <<>>, NEW i
  PROVE  /\ Head(q) = q[1] /\ Tail(q) \in Seq(Messages)
         /\ Covered(q, i) /\ Head(q) # Close(i) => Covered(Tail(q), i)
         /\ ClosedAfter(q, 1, i) => Covered(Tail(q), i)
         /\ \A n \in 1..Len(Tail(q)) :
              /\ n + 1 \in 1..Len(q) /\ Tail(q)[n] = q[n + 1]
              /\ ClosedAfter(q, n + 1, i) => ClosedAfter(Tail(q), n, i)
<1>1. /\ Head(q) = q[1] /\ Tail(q) \in Seq(Messages)
      /\ Len(q) \in Nat \ {0} /\ Len(Tail(q)) = Len(q) - 1
      /\ \A n \in 1..Len(Tail(q)) : n + 1 \in 1..Len(q) /\ Tail(q)[n] = q[n + 1]
  OBVIOUS
<1>2. ASSUME NEW p \in 1..Len(q), p > 1, q[p] = Close(i)
      PROVE  p - 1 \in 1..Len(Tail(q)) /\ Tail(q)[p - 1] = Close(i)
  BY <1>1, <1>2
<1>3. Covered(q, i) /\ Head(q) # Close(i) => Covered(Tail(q), i)
  <2> SUFFICES ASSUME Covered(q, i), Head(q) # Close(i) PROVE Covered(Tail(q), i)
    OBVIOUS
  <2>1. PICK p \in 1..Len(q) : q[p] = Close(i)
    BY DEF Covered
  <2>2. p > 1
    BY <1>1, <2>1
  <2> QED BY <1>2, <2>1, <2>2 DEF Covered
<1>4. ClosedAfter(q, 1, i) => Covered(Tail(q), i)
  BY <1>2 DEF ClosedAfter, Covered
<1>5. ASSUME NEW n \in 1..Len(Tail(q)), ClosedAfter(q, n + 1, i)
      PROVE  ClosedAfter(Tail(q), n, i)
  <2>1. PICK p \in 1..Len(q) : p > n + 1 /\ q[p] = Close(i)
    BY <1>5 DEF ClosedAfter
  <2>2. p > 1 /\ p - 1 > n
    BY <1>1, <2>1
  <2> QED BY <1>2, <2>1, <2>2 DEF ClosedAfter
<1> QED BY <1>1, <1>3, <1>4, <1>5

-----------------------------------------------------------------------------
(* The inductive invariant: ids that were not generated are unknown, and a *)
(* REQ on its way is of an open subscription or has its CLOSE behind it.   *)
Open(i) == \E k \in Kinds : subscriptions[k] = i

FreshIds ==
  /\ \A i \in Ids : i > generated => id_to_kind[i] = NoKind
  /\ \A k \in Kinds : subscriptions[k] <= generated

Accounted(r) ==
  /\ \A i \in served[r] : Open(i) \/ Covered(outbox[r], i)
  /\ \A n \in 1..Len(outbox[r]), i \in Ids :
       outbox[r][n] = Req(i) => Open(i) \/ ClosedAfter(outbox[r], n, i)

MapsInv == FreshIds /\ MapsInverse /\ LiveIsEarned

SubsInv == SubscriptionTypeOK /\ MapsInv /\ \A r \in Relays : Accounted(r)

\* The types of the manager and of what is below it.
LEMMA TypesHold ==
  SubsInv => /\ subscriptions \in [Kinds -> 0..IdBound]
             /\ id_to_kind \in [Ids -> Kinds \union {NoKind}]
             /\ sync_state \in [Kinds -> {"Syncing", "Live"}]
             /\ generated \in 0..IdBound
             /\ outbox \in [Relays -> Seq(Messages)]
             /\ served \in [Relays -> SUBSET Ids]
             /\ owed \in [Relays -> SUBSET Ids]
             /\ inbox \in [Relays -> Seq(Ids)]
             /\ ended \in SUBSET Ids
             /\ losses \in 0..LossBound
             /\ IdBound \in Nat /\ LossBound \in Nat /\ NoKind \notin Kinds
  BY SubscriptionAssumption DEF SubsInv, SubscriptionTypeOK, Messages

\* Nothing is open or queued at first.
LEMMA SubsInvInit == Init => SubsInv
<1> SUFFICES ASSUME Init PROVE SubsInv
  OBVIOUS
<1> USE SubscriptionAssumption DEF Init
<1>1. SubscriptionTypeOK
  BY DEF SubscriptionTypeOK, Ids
<1>2. MapsInv
  BY DEF MapsInv, FreshIds, MapsInverse, LiveIsEarned, Ids
<1>3. ASSUME NEW r \in Relays PROVE Accounted(r)
  BY <1>3 DEF Accounted
<1> QED BY <1>1, <1>2, <1>3 DEF SubsInv

(* A call of the manager keeps the queues accounted for if it queues a     *)
(* CLOSE for each subscription it ends, and a REQ only for an open one.    *)
LEMMA QueuedAccounts ==
  ASSUME SubsInv, NEW s \in Seq(Messages), outbox' = ToAll(s), UNCHANGED served,
         \A i \in Ids : Open(i) => Open(i)' \/ Covered(s, i),
         \A n \in 1..Len(s), i \in Ids : s[n] = Req(i) => Open(i)'
  PROVE  outbox' \in [Relays -> Seq(Messages)] /\ \A r \in Relays : Accounted(r)'
<1>1. ASSUME NEW r \in Relays PROVE outbox'[r] = outbox[r] \o s /\ outbox[r] \in Seq(Messages)
  BY TypesHold DEF ToAll
<1>2. outbox' \in [Relays -> Seq(Messages)]
  BY TypesHold DEF ToAll
<1>3. ASSUME NEW r \in Relays PROVE Accounted(r)'
  <2>1. ASSUME NEW i \in served[r] PROVE Open(i)' \/ Covered(outbox'[r], i)
    <3>1. i \in Ids /\ (Open(i) \/ Covered(outbox[r], i))
      BY TypesHold DEF SubsInv, Accounted
    <3> QED BY <1>1, <3>1, AppendKeeps
  <2>2. ASSUME NEW n \in 1..Len(outbox'[r]), NEW i \in Ids, outbox'[r][n] = Req(i)
        PROVE  Open(i)' \/ ClosedAfter(outbox'[r], n, i)
    <3> DEFINE q == outbox[r]
    <3>q. q \in Seq(Messages) /\ outbox'[r] = q \o s
      BY <1>1
    <3> HIDE DEF q
    <3>1. CASE n \in 1..Len(q)
      <4>1. q[n] = Req(i)
        BY <2>2, <3>q, <3>1
      <4>2. Open(i) \/ ClosedAfter(q, n, i)
        BY <3>1, <4>1 DEF SubsInv, Accounted, q
      <4> QED BY <3>q, <3>1, <4>2, AppendKeeps
    <3>2. CASE n \notin 1..Len(q)
      <4>1. n - Len(q) \in 1..Len(s) /\ s[n - Len(q)] = Req(i)
        BY <2>2, <3>q, <3>2
      <4> QED BY <4>1
    <3> QED BY <3>1, <3>2
  <2>3. UNCHANGED served
    OBVIOUS
  <2> QED BY <2>1, <2>2, <2>3 DEF Accounted, Covered, ClosedAfter
<1> QED BY <1>2, <1>3

\* Opening a kind queues the REQ of a fresh id.
LEMMA OpenKindKeepsInv ==
  ASSUME SubsInv, NEW k \in Kinds, OpenKind(k) PROVE SubsInv'
<1> DEFINE i == generated + 1
<1>1. /\ i \in Ids /\ i # 0 /\ subscriptions[k] = 0 /\ id_to_kind[i] = NoKind
      /\ generated' = i /\ i \in 0..IdBound
      /\ \A l \in Kinds : subscriptions[l] # i
  BY TypesHold DEF OpenKind, Register, Active, SubsInv, MapsInv, FreshIds, Ids
<1>2. /\ subscriptions' = [subscriptions EXCEPT ![k] = i]
      /\ id_to_kind' = [id_to_kind EXCEPT ![i] = k]
      /\ sync_state' = [sync_state EXCEPT ![k] = "Syncing"]
      /\ outbox' = ToAll(<<Req(i)>>)
      /\ UNCHANGED <<served, owed, inbox, ended, losses>>
  BY DEF OpenKind, Register
<1> HIDE DEF i
<1>3. /\ subscriptions'[k] = i /\ \A l \in Kinds \ {k} : subscriptions'[l] = subscriptions[l]
      /\ id_to_kind'[i] = k /\ \A j \in Ids \ {i} : id_to_kind'[j] = id_to_kind[j]
      /\ sync_state'[k] = "Syncing" /\ \A l \in Kinds \ {k} : sync_state'[l] = sync_state[l]
  BY <1>1, <1>2, TypesHold
<1>4. MapsInverse'
  BY <1>1, <1>3 DEF SubsInv, MapsInv, MapsInverse, Ids
<1>5. FreshIds'
  <2>1. generated \in Nat /\ i = generated + 1
    BY TypesHold DEF i
  <2>2. \A j \in Ids : j > generated' => id_to_kind'[j] = NoKind
    BY <1>1, <1>3, <2>1 DEF SubsInv, MapsInv, FreshIds, Ids
  <2>3. ASSUME NEW l \in Kinds PROVE subscriptions'[l] <= generated'
    <3>1. subscriptions[l] \in Nat /\ subscriptions[l] <= generated
      BY TypesHold DEF SubsInv, MapsInv, FreshIds
    <3> QED BY <1>1, <1>3, <2>1, <3>1
  <2> QED BY <2>2, <2>3 DEF FreshIds
<1>6. LiveIsEarned'
  BY <1>2, <1>3 DEF SubsInv, MapsInv, LiveIsEarned
<1>7. outbox' \in [Relays -> Seq(Messages)] /\ \A r \in Relays : Accounted(r)'
  <2>1. <<Req(i)>> \in Seq(Messages)
    BY <1>1 DEF Req, Messages
  <2>2. \A j \in Ids : Open(j) => Open(j)'
    BY <1>1, <1>3 DEF Open, Ids
  <2>3. ASSUME NEW n \in 1..Len(<<Req(i)>>), NEW j \in Ids, <<Req(i)>>[n] = Req(j)
        PROVE  Open(j)'
    <3>1. i = j
      BY <2>3 DEF Req
    <3> QED BY <1>3, <3>1 DEF Open
  <2> QED BY <1>2, <2>1, <2>2, <2>3, QueuedAccounts
<1>8. SubscriptionTypeOK'
  BY <1>1, <1>2, <1>7, TypesHold DEF SubscriptionTypeOK, Messages
<1> QED BY <1>4, <1>5, <1>6, <1>7, <1>8 DEF SubsInv, MapsInv

\* Closing a kind queues its CLOSE.
LEMMA CloseKindKeepsInv ==
  ASSUME SubsInv, NEW k \in Kinds, CloseKind(k) PROVE SubsInv'
<1> DEFINE i == subscriptions[k]
<1>1. i \in Ids /\ id_to_kind[i] = k
  BY TypesHold DEF CloseKind, Active, SubsInv, MapsInv, MapsInverse, Ids
<1>2. /\ subscriptions' = [subscriptions EXCEPT ![k] = 0]
      /\ id_to_kind' = [id_to_kind EXCEPT ![i] = NoKind]
      /\ sync_state' = [sync_state EXCEPT ![k] = "Syncing"]
      /\ outbox' = ToAll(<<Close(i)>>)
      /\ UNCHANGED <<generated, served, owed, inbox, ended, losses>>
  BY DEF CloseKind
<1>3. /\ subscriptions'[k] = 0 /\ \A l \in Kinds \ {k} : subscriptions'[l] = subscriptions[l]
      /\ id_to_kind'[i] = NoKind /\ \A j \in Ids \ {i} : id_to_kind'[j] = id_to_kind[j]
      /\ sync_state'[k] = "Syncing" /\ \A l \in Kinds \ {k} : sync_state'[l] = sync_state[l]
  BY <1>1, <1>2, TypesHold
<1>4. MapsInverse'
  BY <1>1, <1>3, TypesHold DEF SubsInv, MapsInv, MapsInverse, Ids
<1>5. FreshIds' /\ LiveIsEarned'
  BY <1>1, <1>2, <1>3, TypesHold DEF SubsInv, MapsInv, FreshIds, LiveIsEarned
<1>6. outbox' \in [Relays -> Seq(Messages)] /\ \A r \in Relays : Accounted(r)'
  <2>1. <<Close(i)>> \in Seq(Messages) /\ Covered(<<Close(i)>>, i)
    BY <1>1 DEF Close, Messages, Covered
  <2>2. \A j \in Ids : Open(j) => Open(j)' \/ Covered(<<Close(i)>>, j)
    BY <1>3, <2>1 DEF Open
  <2>3. \A n \in 1..Len(<<Close(i)>>), j \in Ids : <<Close(i)>>[n] # Req(j)
    BY DEF Close, Req
  <2> QED BY <1>2, <2>1, <2>2, <2>3, QueuedAccounts
<1>7. SubscriptionTypeOK'
  <2>1. subscriptions' \in [Kinds -> 0..IdBound]
    BY <1>2, TypesHold
  <2>2. /\ id_to_kind' \in [Ids -> Kinds \union {NoKind}]
        /\ sync_state' \in [Kinds -> {"Syncing", "Live"}]
    BY <1>2, TypesHold
  <2> QED BY <1>2, <1>6, <2>1, <2>2, TypesHold DEF SubscriptionTypeOK, Messages
<1> QED BY <1>4, <1>5, <1>6, <1>7 DEF SubsInv, MapsInv

\* Closing everything queues a CLOSE for each.
LEMMA CloseAllKeepsInv ==
  ASSUME SubsInv, CloseAll PROVE SubsInv'
<1> DEFINE ids == {subscriptions[k] : k \in Active}
<1>1. PICK order \in ClosesOf(ids) : outbox' = ToAll(order)
  BY DEF CloseAll
<1>2. /\ subscriptions' = [k \in Kinds |-> 0]
      /\ id_to_kind' = [i \in Ids |-> NoKind]
      /\ sync_state' = [k \in Kinds |-> "Syncing"]
      /\ UNCHANGED <<generated, served, owed, inbox, ended, losses>>
  BY DEF CloseAll
<1>3. /\ \A k \in Kinds : subscriptions'[k] = 0 /\ sync_state'[k] = "Syncing"
      /\ \A i \in Ids : id_to_kind'[i] = NoKind
  BY <1>2
<1>4. MapsInverse' /\ FreshIds' /\ LiveIsEarned'
  BY <1>2, <1>3, TypesHold DEF MapsInverse, FreshIds, LiveIsEarned, Ids
<1>5. /\ order \in Seq(Messages)
      /\ \A i \in ids : Covered(order, i)
      /\ \A n \in 1..Len(order), i \in Ids : order[n] # Req(i)
  <2>1. ids \in SUBSET Ids
    BY TypesHold DEF Active, Ids
  <2>2. Cardinality(ids) \in Nat
    <3> HIDE DEF ids
    <3>1. 1 \in Int /\ IdBound \in Int
      BY TypesHold
    <3>2. IsFiniteSet(Ids)
      BY <3>1, FS_Interval DEF Ids
    <3> QED BY <2>1, <3>2, FS_Subset, FS_CardinalityType
  <2>3. order \in [1..Cardinality(ids) -> {Close(i) : i \in ids}]
    BY DEF ClosesOf
  <2>4. \A i \in ids : Close(i) \in Messages
    BY <2>1 DEF Close, Messages
  <2> HIDE DEF ids
  <2>5. order \in Seq({Close(i) : i \in ids}) /\ Len(order) = Cardinality(ids)
    BY <2>2, <2>3
  <2>6. order \in Seq(Messages)
    BY <2>4, <2>5
  <2>7. \A i \in ids : \E n \in 1..Len(order) : order[n] = Close(i)
    BY <2>3, <2>5 DEF ClosesOf
  <2>8. \A n \in 1..Len(order), i \in Ids : order[n] # Req(i)
    BY <2>3, <2>5 DEF Close, Req
  <2> QED BY <2>6, <2>7, <2>8 DEF Covered
<1>6. \A i \in Ids : Open(i) => Covered(order, i)
  BY <1>5 DEF Open, Active, Ids
<1>7. outbox' \in [Relays -> Seq(Messages)] /\ \A r \in Relays : Accounted(r)'
  BY <1>1, <1>2, <1>5, <1>6, QueuedAccounts
<1>8. SubscriptionTypeOK'
  <2>1. subscriptions' \in [Kinds -> 0..IdBound]
    BY <1>2, TypesHold
  <2> QED BY <1>2, <1>7, <2>1, TypesHold DEF SubscriptionTypeOK, Messages
<1> QED BY <1>4, <1>7, <1>8 DEF SubsInv, MapsInv

(* An EOSE of a closed subscription is of an id that names no kind.        *)
LEMMA MarkLiveKeepsInv ==
  ASSUME SubsInv, NEW r \in Relays, MarkLive(r) PROVE SubsInv'
<1> DEFINE i == Head(inbox[r])
           k == id_to_kind[i]
<1>1. i \in Ids /\ Tail(inbox[r]) \in Seq(Ids)
  BY TypesHold DEF MarkLive
<1>2. /\ sync_state' = IF k \in Kinds THEN [sync_state EXCEPT ![k] = "Live"] ELSE sync_state
      /\ ended' = ended \union {i}
      /\ inbox' = [inbox EXCEPT ![r] = Tail(@)]
      /\ UNCHANGED <<subscriptions, id_to_kind, generated, outbox, served, owed, losses>>
  BY DEF MarkLive
<1>3. \A l \in Kinds : sync_state'[l] = "Live" => sync_state[l] = "Live" \/ l = k
  BY <1>2, TypesHold
<1>4. k \in Kinds => subscriptions[k] = i
  BY <1>1 DEF SubsInv, MapsInv, MapsInverse
<1>5. SubscriptionTypeOK'
  <2>1. sync_state' \in [Kinds -> {"Syncing", "Live"}]
    BY <1>2, TypesHold
  <2>2. inbox' \in [Relays -> Seq(Ids)] /\ ended' \in SUBSET Ids
    BY <1>1, <1>2, TypesHold
  <2> QED BY <1>2, <2>1, <2>2, TypesHold DEF SubscriptionTypeOK, Messages
<1>6. MapsInverse' /\ FreshIds'
  BY <1>2 DEF SubsInv, MapsInv, MapsInverse, FreshIds
<1>7. LiveIsEarned'
  BY <1>2, <1>3, <1>4 DEF SubsInv, MapsInv, LiveIsEarned
<1>8. \A q \in Relays : Accounted(q)'
  BY <1>2 DEF SubsInv, Accounted, Open
<1> QED BY <1>5, <1>6, <1>7, <1>8 DEF SubsInv, MapsInv

-----------------------------------------------------------------------------
(* The connections and the relays leave the manager alone.                 *)
LEMMA ManagerAlone ==
  ASSUME MapsInv, UNCHANGED manager, ended' = ended PROVE MapsInv'
  BY DEF MapsInv, FreshIds, MapsInverse, LiveIsEarned, manager

\* A message sent leaves what is served accounted for.
LEMMA TransmitKeepsInv ==
  ASSUME SubsInv, NEW r \in Relays, Transmit(r) PROVE SubsInv'
<1> DEFINE q == outbox[r]
           m == Head(q)
<1>1. /\ q \in Seq(Messages) /\ q # <<>> /\ m \in Messages /\ Len(q) >= 1
      /\ m[1] \in {"REQ", "CLOSE"} /\ m[2] \in Ids /\ m = <<m[1], m[2]>>
  BY TypesHold DEF Transmit, Messages
<1>2. /\ served' = [served EXCEPT ![r] = IF m[1] = "REQ" THEN @ \union {m[2]} ELSE @ \ {m[2]}]
      /\ owed' = [owed EXCEPT ![r] = IF m[1] = "REQ" THEN @ \union {m[2]} ELSE @ \ {m[2]}]
      /\ outbox' = [outbox EXCEPT ![r] = Tail(q)]
      /\ UNCHANGED <<manager, inbox, ended, losses>>
  BY TypesHold DEF Transmit
<1>3. SubscriptionTypeOK'
  <2>1. served' \in [Relays -> SUBSET Ids] /\ owed' \in [Relays -> SUBSET Ids]
    BY <1>1, <1>2, TypesHold
  <2>2. outbox' \in [Relays -> Seq(Messages)]
    BY <1>1, <1>2, TypesHold
  <2> QED BY <1>2, <2>1, <2>2, TypesHold DEF SubscriptionTypeOK, Messages, manager
<1>4. Accounted(r)'
  <2>1. outbox'[r] = Tail(q) /\ UNCHANGED subscriptions
    BY <1>2, TypesHold DEF manager
  <2>2. ASSUME NEW i \in served'[r] PROVE Open(i) \/ Covered(Tail(q), i)
    <3>1. CASE m[1] = "REQ" /\ i = m[2]
      <4>1. q[1] = Req(i) /\ i \in Ids /\ 1 \in 1..Len(q)
        BY <1>1, <3>1 DEF Req
      <4>2. Open(i) \/ ClosedAfter(q, 1, i)
        BY <4>1 DEF SubsInv, Accounted
      <4> QED BY <1>1, <4>2, TailKeeps
    <3>2. CASE i \in served[r] /\ m # Close(i)
      <4>1. Open(i) \/ Covered(q, i)
        BY <3>2 DEF SubsInv, Accounted
      <4> QED BY <1>1, <3>2, <4>1, TailKeeps
    <3>3. \/ m[1] = "REQ" /\ i = m[2]
          \/ i \in served[r] /\ m # Close(i)
      BY <1>1, <1>2, <2>2, TypesHold DEF Close
    <3> QED BY <3>1, <3>2, <3>3
  <2>3. ASSUME NEW n \in 1..Len(Tail(q)), NEW i \in Ids, Tail(q)[n] = Req(i)
        PROVE  Open(i) \/ ClosedAfter(Tail(q), n, i)
    <3>1. n + 1 \in 1..Len(q) /\ q[n + 1] = Req(i)
      BY <1>1, <2>3, TailKeeps
    <3>2. Open(i) \/ ClosedAfter(q, n + 1, i)
      BY <3>1 DEF SubsInv, Accounted
    <3> QED BY <1>1, <3>2, TailKeeps
  <2> QED BY <2>1, <2>2, <2>3 DEF Accounted, Open, Covered, ClosedAfter
<1>5. ASSUME NEW s \in Relays, s # r PROVE Accounted(s)'
  <2>1. served'[s] = served[s] /\ outbox'[s] = outbox[s] /\ UNCHANGED subscriptions
    BY <1>2, <1>5, TypesHold DEF manager
  <2> QED BY <2>1 DEF SubsInv, Accounted, Open, Covered, ClosedAfter
<1>6. MapsInv'
  BY <1>2, ManagerAlone DEF SubsInv
<1> QED BY <1>3, <1>4, <1>5, <1>6 DEF SubsInv

\* A relay answers a REQ once it has sent what it stores.
LEMMA SendEoseKeepsInv ==
  ASSUME SubsInv, NEW r \in Relays, NEW i \in Ids, SendEose(r, i) PROVE SubsInv'
<1>1. SubscriptionTypeOK'
  <2>1. owed' \in [Relays -> SUBSET Ids] /\ inbox' \in [Relays -> Seq(Ids)]
    BY TypesHold DEF SendEose
  <2> QED BY <2>1, TypesHold DEF SendEose, SubscriptionTypeOK, Messages, manager
<1>2. MapsInv'
  BY ManagerAlone DEF SendEose, SubsInv
<1>3. \A s \in Relays : Accounted(s)'
  BY DEF SendEose, manager, SubsInv, Accounted, Open
<1> QED BY <1>1, <1>2, <1>3 DEF SubsInv

(* A lost message is at the head of the queue, and nothing is served then. *)
LEMMA LoseConnectionKeepsInv ==
  ASSUME SubsInv, NEW r \in Relays, LoseConnection(r) PROVE SubsInv'
<1> DEFINE q == outbox[r]
<1>1. /\ served' = [served EXCEPT ![r] = {}] /\ owed' = [owed EXCEPT ![r] = {}]
      /\ losses' = losses + 1 /\ losses < LossBound
      /\ outbox' = outbox \/ (q # <<>> /\ outbox' = [outbox EXCEPT ![r] = Tail(q)])
      /\ UNCHANGED <<manager, inbox, ended>> /\ q \in Seq(Messages)
  BY TypesHold DEF LoseConnection
<1>2. SubscriptionTypeOK'
  <2>1. served' \in [Relays -> SUBSET Ids] /\ owed' \in [Relays -> SUBSET Ids]
    BY <1>1, TypesHold
  <2>2. outbox' \in [Relays -> Seq(Messages)]
    <3>1. q # <<>> => Tail(q) \in Seq(Messages)
      BY <1>1, TailKeeps
    <3> HIDE DEF q
    <3> QED BY <1>1, <3>1, TypesHold
  <2>3. losses' \in 0..LossBound
    BY <1>1, TypesHold
  <2> QED BY <1>1, <2>1, <2>2, <2>3, TypesHold DEF SubscriptionTypeOK, Messages, manager
<1>3. Accounted(r)'
  <2>1. served'[r] = {} /\ UNCHANGED subscriptions
    BY <1>1, TypesHold DEF manager
  <2>2. CASE outbox' = outbox
    BY <2>1, <2>2 DEF SubsInv, Accounted, Open
  <2>3. CASE q # <<>> /\ outbox' = [outbox EXCEPT ![r] = Tail(q)]
    <3>1. outbox'[r] = Tail(q)
      BY <2>3, TypesHold
    <3>2. ASSUME NEW n \in 1..Len(Tail(q)), NEW i \in Ids, Tail(q)[n] = Req(i)
          PROVE  Open(i) \/ ClosedAfter(Tail(q), n, i)
      <4>1. n + 1 \in 1..Len(q) /\ q[n + 1] = Req(i)
        BY <1>1, <2>3, <3>2, TailKeeps
      <4>2. Open(i) \/ ClosedAfter(q, n + 1, i)
        BY <4>1 DEF SubsInv, Accounted
      <4> QED BY <1>1, <2>3, <4>2, TailKeeps
    <3> QED BY <2>1, <3>1, <3>2 DEF Accounted, Open, ClosedAfter
  <2> QED BY <1>1, <2>2, <2>3
<1>4. ASSUME NEW s \in Relays, s # r PROVE Accounted(s)'
  <2>1. served'[s] = served[s] /\ outbox'[s] = outbox[s] /\ UNCHANGED subscriptions
    BY <1>1, <1>4, TypesHold DEF manager
  <2> QED BY <2>1 DEF SubsInv, Accounted, Open, Covered, ClosedAfter
<1>5. MapsInv'
  BY <1>1, ManagerAlone DEF SubsInv
<1> QED BY <1>2, <1>3, <1>4, <1>5 DEF SubsInv

-----------------------------------------------------------------------------
\* Every step of manager, queues and relays keeps the invariant.
LEMMA SubsInvStep == SubsInv /\ [Next]_vars => SubsInv'
<1> SUFFICES ASSUME SubsInv, [Next]_vars PROVE SubsInv'
  OBVIOUS
<1>1. CASE UNCHANGED vars
  BY <1>1
     DEF vars, manager, SubsInv, SubscriptionTypeOK, MapsInv, FreshIds, MapsInverse,
         LiveIsEarned, Accounted, Open
<1>2. CASE Next
  BY <1>2, OpenKindKeepsInv, CloseKindKeepsInv, CloseAllKeepsInv, MarkLiveKeepsInv,
     TransmitKeepsInv, SendEoseKeepsInv, LoseConnectionKeepsInv DEF Next
<1> QED BY <1>1, <1>2

\* The invariant of the subscriptions.
LEMMA SubsInvariant == Spec => []SubsInv
  BY SubsInvInit, SubsInvStep, PTL DEF Spec

(* Type correctness of the manager, the queues and the relays.             *)
THEOREM SubsTypeCorrect == Spec => []SubscriptionTypeOK
<1>1. SubsInv => SubscriptionTypeOK BY DEF SubsInv
<1> QED BY <1>1, SubsInvariant, PTL

(* The two maps of the manager are each other's inverse.                   *)
THEOREM SubsMapsInverse == Spec => []MapsInverse
<1>1. SubsInv => MapsInverse BY DEF SubsInv, MapsInv
<1> QED BY <1>1, SubsInvariant, PTL

(* A late EOSE never makes a later subscription live.                      *)
THEOREM SubsLiveIsEarned == Spec => []LiveIsEarned
<1>1. SubsInv => LiveIsEarned BY DEF SubsInv, MapsInv
<1> QED BY <1>1, SubsInvariant, PTL

(* No relay keeps a stream the manager has forgotten about.                *)
THEOREM SubsNoOrphan == Spec => []NoOrphan
<1>1. SubsInv => NoOrphan
  BY DEF SubsInv, Accounted, NoOrphan, Open, Covered
<1> QED BY <1>1, SubsInvariant, PTL

=============================================================================
