--------------------------- MODULE RelayPool_proofs ---------------------------
(***************************************************************************)
(* Proofs about RelayPool for any relays, callers, events and              *)
(* subscriptions.  That the pool implements RelayTask carries every        *)
(* theorem about the tasks over to it.                                     *)
(***************************************************************************)
EXTENDS RelayPool, RelayTask_proofs, FiniteSetTheorems, SequenceTheorems

-----------------------------------------------------------------------------
(* The inductive invariant: what a call in progress holds, ...             *)
CallOK(c) ==
  /\ op[c] \in {"add", "remove"} => arg[c] \in Urls
  /\ op[c] = "publish" => arg[c] \in Events
  /\ op[c] \in Broadcasts => arg[c] \in Msgs
  /\ op[c] \in {"idle", "add"} => at[c] = NoTask
  /\ op[c] \in {"remove", "shutdown"} /\ at[c] # NoTask => signalled[at[c]]
  /\ op[c] = "shutdown" => pool = "up" /\ \A d \in Callers \ {c} : op[d] = "idle"

Adders(u) == {c \in Callers : op[c] = "add" /\ arg[c] = u}

(* ... how often relays are spawned, and which handles have been signalled.*)
SpawnsOK ==
  \A u \in Urls :
    /\ spawned[u] + Cardinality(Adders(u)) <= GenBound
    /\ relays[u] <= spawned[u]
    /\ \A g \in 1..GenBound :
         signalled[<<u, g>>] => g <= spawned[u] /\ relays[u] # g

DroppedIdle == pool # "up" => AllIdle

PoolInv ==
  /\ TaskInv /\ PoolTypeOK /\ MutexOK /\ NoStaleTarget /\ MapOwnsHandles
  /\ SpawnsOK /\ DroppedIdle /\ \A c \in Callers : CallOK(c)

\* The types of the pool, its callers and the handles.
LEMMA TypesHold ==
  PoolInv => /\ relays \in [Urls -> 0..GenBound]
             /\ spawned \in [Urls -> 0..GenBound]
             /\ lockq \in Seq(Callers)
             /\ op \in [Callers -> Ops]
             /\ arg \in [Callers -> Urls \union Msgs \union {NoArg}]
             /\ at \in [Callers -> Tasks \union {NoTask}]
             /\ todo \in [Callers -> SUBSET Urls]
             /\ pool \in {"up", "dropping", "dropped"}
             /\ issued \in SUBSET Msgs
             /\ result \in [Events -> [Urls -> {"none", "ok", "err"}]]
             /\ handle \in [Tasks -> BOOLEAN] /\ signalled \in [Tasks -> BOOLEAN]
             /\ GenBound \in Nat \ {0} /\ Tasks = Urls \X (1..GenBound)
             /\ NoTask \notin Tasks /\ IsFiniteSet(Callers)
             /\ \A u \in Urls, g \in 1..GenBound : <<u, g>> \in Tasks
  BY PoolAssumption DEF PoolInv, PoolTypeOK, TaskInv, TaskTypeOK

(* A step of the composition is a step of the tasks or leaves them alone.  *)
LEMMA CurrentIsTask ==
  ASSUME PoolInv, NEW u \in Urls, relays[u] # 0
  PROVE  Current(u) \in Tasks
  BY TypesHold DEF Current

\* The task a caller works on is one.
LEMMA TargetIsTask ==
  ASSUME PoolInv, NEW c \in Callers, at[c] # NoTask
  PROVE  /\ at[c] \in Tasks /\ at[c][1] \in Urls /\ at[c][2] \in 1..GenBound
         /\ at[c] = <<at[c][1], at[c][2]>>
<1>1. at[c] \in Tasks
  BY TypesHold
<1>2. at[c] \in Urls \X (1..GenBound)
  BY <1>1, PoolAssumption
<1> QED BY <1>1, <1>2

(* Taking one entry out of a sequence.                                     *)
LEMMA RemoveAtProperties ==
  ASSUME NEW S, NEW q \in Seq(S), NEW i \in 1..Len(q)
  PROVE  /\ RemoveAt(q, i) \in Seq(S)
         /\ Len(RemoveAt(q, i)) = Len(q) - 1
         /\ \A j \in 1..Len(q) - 1 :
              RemoveAt(q, i)[j] = IF j < i THEN q[j] ELSE q[j + 1]
<1> DEFINE a == SubSeq(q, 1, i - 1)
           b == SubSeq(q, i + 1, Len(q))
<1>1. Len(q) \in Nat /\ i \in Int
  OBVIOUS
<1>2. a \in Seq(S) /\ Len(a) = i - 1 /\ \A j \in 1..i - 1 : a[j] = q[j]
  OBVIOUS
<1>3. b \in Seq(S) /\ Len(b) = Len(q) - i /\ \A j \in 1..Len(q) - i : b[j] = q[i + j]
  OBVIOUS
<1>4. RemoveAt(q, i) = a \o b
  BY DEF RemoveAt
<1> HIDE DEF a, b
<1>5. /\ a \o b \in Seq(S) /\ Len(a \o b) = Len(a) + Len(b)
      /\ \A j \in 1..Len(a) + Len(b) :
           (a \o b)[j] = IF j <= Len(a) THEN a[j] ELSE b[j - Len(a)]
  BY <1>2, <1>3, ConcatProperties
<1>6. Len(a) + Len(b) = Len(q) - 1
  BY <1>1, <1>2, <1>3
<1>7. ASSUME NEW j \in 1..Len(q) - 1
      PROVE  (a \o b)[j] = IF j < i THEN q[j] ELSE q[j + 1]
  <2>1. CASE j < i
    <3>1. j \in 1..i - 1 /\ j <= Len(a)
      BY <1>1, <1>2, <2>1
    <3>2. a[j] = q[j] /\ (a \o b)[j] = a[j]
      BY <1>2, <1>5, <1>6, <3>1
    <3> QED BY <2>1, <3>2
  <2>2. CASE ~(j < i)
    <3>1. /\ j - Len(a) \in 1..Len(q) - i /\ ~(j <= Len(a))
          /\ i + (j - Len(a)) = j + 1
      BY <1>1, <1>2, <2>2
    <3>2. b[j - Len(a)] = q[j + 1] /\ (a \o b)[j] = b[j - Len(a)]
      BY <1>3, <1>5, <1>6, <3>1
    <3> QED BY <2>2, <3>2
  <2> QED BY <2>1, <2>2
<1> QED BY <1>4, <1>5, <1>6, <1>7

-----------------------------------------------------------------------------
(* The mutex: one caller more at the end of the queue, or one out of it.   *)
LEMMA CallMutex ==
  ASSUME PoolInv, NEW c \in Callers, op[c] = "idle",
         NEW o \in Ops \ {"idle"}, op' = [op EXCEPT ![c] = o],
         lockq' = Append(lockq, c), UNCHANGED at
  PROVE  MutexOK' /\ lockq' \in Seq(Callers)
<1>1. /\ lockq' \in Seq(Callers) /\ Len(lockq') = Len(lockq) + 1 /\ Len(lockq) \in Nat
      /\ lockq'[Len(lockq) + 1] = c /\ \A i \in 1..Len(lockq) : lockq'[i] = lockq[i]
  BY TypesHold
<1>2. op'[c] = o /\ o # "idle" /\ \A d \in Callers \ {c} : op'[d] = op[d]
  BY TypesHold
<1>3. at[c] = NoTask
  BY DEF PoolInv, CallOK
<1>4. /\ \A d \in Callers : op[d] # "idle" <=> \E i \in 1..Len(lockq) : lockq[i] = d
      /\ \A d \in Callers : at[d] # NoTask => lockq[1] = d
      /\ \A i, j \in 1..Len(lockq) : lockq[i] = lockq[j] => i = j
  BY DEF PoolInv, MutexOK
<1>5. ASSUME NEW d \in Callers
      PROVE  op'[d] # "idle" <=> \E i \in 1..Len(lockq') : lockq'[i] = d
  <2>1. CASE d = c
    BY <1>1, <1>2, <2>1
  <2>2. CASE d # c
    <3>1. (\E i \in 1..Len(lockq') : lockq'[i] = d) <=> \E i \in 1..Len(lockq) : lockq[i] = d
      BY <1>1, <2>2
    <3> QED BY <1>2, <1>4, <2>2, <3>1
  <2> QED BY <2>1, <2>2
<1>6. ASSUME NEW d \in Callers, at'[d] # NoTask PROVE lockq'[1] = d
  <2>1. lockq[1] = d /\ d # c
    BY <1>3, <1>4, <1>6
  <2>2. op[d] # "idle"
    BY <1>6 DEF PoolInv, CallOK
  <2>3. 1 \in 1..Len(lockq)
    BY <1>1, <1>4, <2>2
  <2> QED BY <1>1, <2>1, <2>3
<1>7. ASSUME NEW i \in 1..Len(lockq'), NEW j \in 1..Len(lockq'), lockq'[i] = lockq'[j]
      PROVE  i = j
  <2>1. \A n \in 1..Len(lockq) : lockq[n] # c
    BY <1>4
  <2>2. \A n \in 1..Len(lockq') : n \in 1..Len(lockq) \/ n = Len(lockq) + 1
    BY <1>1
  <2> QED BY <1>1, <1>4, <1>7, <2>1, <2>2
<1> QED BY <1>1, <1>5, <1>6, <1>7 DEF MutexOK

\* A caller that returns leaves the mutex to the next in line.
LEMMA ReleaseMutex ==
  ASSUME PoolInv, NEW c \in Callers, Release(c)
  PROVE  MutexOK' /\ lockq' \in Seq(Callers)
<1>1. PICK n \in 1..Len(lockq) : lockq[n] = c /\ lockq' = RemoveAt(lockq, n)
  BY DEF Release
<1>2. /\ lockq' \in Seq(Callers) /\ Len(lockq') = Len(lockq) - 1 /\ Len(lockq) \in Nat
      /\ \A j \in 1..Len(lockq') : lockq'[j] = IF j < n THEN lockq[j] ELSE lockq[j + 1]
  <2>1. lockq \in Seq(Callers) /\ Len(lockq) \in Nat
    BY TypesHold
  <2>2. /\ RemoveAt(lockq, n) \in Seq(Callers)
        /\ Len(RemoveAt(lockq, n)) = Len(lockq) - 1
        /\ \A j \in 1..Len(lockq) - 1 :
             RemoveAt(lockq, n)[j] = IF j < n THEN lockq[j] ELSE lockq[j + 1]
    BY <2>1, RemoveAtProperties
  <2> QED BY <1>1, <2>1, <2>2
<1>3. /\ op'[c] = "idle" /\ at'[c] = NoTask
      /\ \A d \in Callers \ {c} : op'[d] = op[d] /\ at'[d] = at[d]
  BY TypesHold DEF Release, Ops
<1>4. /\ \A d \in Callers : op[d] # "idle" <=> \E i \in 1..Len(lockq) : lockq[i] = d
      /\ \A d \in Callers : at[d] # NoTask => lockq[1] = d
      /\ \A i, j \in 1..Len(lockq) : lockq[i] = lockq[j] => i = j
  BY DEF PoolInv, MutexOK
<1>5. /\ \A j \in 1..Len(lockq') : \E i \in 1..Len(lockq) \ {n} :
           lockq'[j] = lockq[i] /\ i = IF j < n THEN j ELSE j + 1
      /\ \A i \in 1..Len(lockq) \ {n} : \E j \in 1..Len(lockq') :
           lockq'[j] = lockq[i] /\ i = IF j < n THEN j ELSE j + 1
  <2>1. ASSUME NEW j \in 1..Len(lockq')
        PROVE  \E i \in 1..Len(lockq) \ {n} :
                 lockq'[j] = lockq[i] /\ i = IF j < n THEN j ELSE j + 1
    <3>1. CASE j < n
      BY <1>2, <3>1
    <3>2. CASE ~(j < n)
      BY <1>2, <3>2
    <3> QED BY <3>1, <3>2
  <2>2. ASSUME NEW i \in 1..Len(lockq) \ {n}
        PROVE  \E j \in 1..Len(lockq') :
                 lockq'[j] = lockq[i] /\ i = IF j < n THEN j ELSE j + 1
    <3>1. CASE i < n
      BY <1>2, <3>1
    <3>2. CASE ~(i < n)
      <4>1. i - 1 \in 1..Len(lockq') /\ ~(i - 1 < n) /\ (i - 1) + 1 = i
        BY <1>2, <3>2
      <4> QED BY <1>2, <4>1
    <3> QED BY <3>1, <3>2
  <2> QED BY <2>1, <2>2
<1>6. ASSUME NEW d \in Callers
      PROVE  op'[d] # "idle" <=> \E i \in 1..Len(lockq') : lockq'[i] = d
  <2>1. CASE d = c
    BY <1>1, <1>3, <1>4, <1>5, <2>1
  <2>2. CASE d # c
    <3>1. (\E i \in 1..Len(lockq') : lockq'[i] = d) <=> \E i \in 1..Len(lockq) : lockq[i] = d
      <4>1. ASSUME NEW i \in 1..Len(lockq'), lockq'[i] = d
            PROVE  \E j \in 1..Len(lockq) : lockq[j] = d
        BY <1>5, <4>1
      <4>2. ASSUME NEW i \in 1..Len(lockq), lockq[i] = d
            PROVE  \E j \in 1..Len(lockq') : lockq'[j] = d
        <5>1. i \in 1..Len(lockq) \ {n}
          BY <1>1, <2>2, <4>2
        <5> QED BY <1>5, <4>2, <5>1
      <4> QED BY <4>1, <4>2
    <3> QED BY <1>3, <1>4, <2>2, <3>1
  <2> QED BY <2>1, <2>2
<1>7. ASSUME NEW d \in Callers, at'[d] # NoTask PROVE lockq'[1] = d
  <2>1. d # c /\ lockq[1] = d /\ n # 1
    BY <1>1, <1>3, <1>4, <1>7
  <2>2. 1 \in 1..Len(lockq') /\ 1 < n
    BY <1>2, <2>1
  <2> QED BY <1>2, <2>1, <2>2
<1>8. ASSUME NEW i \in 1..Len(lockq'), NEW j \in 1..Len(lockq'), lockq'[i] = lockq'[j]
      PROVE  i = j
  <2>1. PICK k \in 1..Len(lockq) : lockq'[i] = lockq[k] /\ k = IF i < n THEN i ELSE i + 1
    BY <1>5
  <2>2. PICK l \in 1..Len(lockq) : lockq'[j] = lockq[l] /\ l = IF j < n THEN j ELSE j + 1
    BY <1>5
  <2>3. k = l
    BY <1>4, <1>8, <2>1, <2>2
  <2> QED BY <1>2, <2>1, <2>2, <2>3
<1> QED BY <1>2, <1>6, <1>7, <1>8 DEF MutexOK

-----------------------------------------------------------------------------
(* A call begins.                                                          *)
LEMMA AddersFinite ==
  ASSUME PoolInv, NEW u
  PROVE  IsFiniteSet(Adders(u)) /\ Cardinality(Adders(u)) \in Nat
<1>1. Adders(u) \in SUBSET Callers
  BY DEF Adders
<1> QED BY <1>1, TypesHold, FS_Subset, FS_CardinalityType

\* A call starts by queueing for the mutex.
LEMMA CallKeepsInv ==
  ASSUME PoolInv, NEW c \in Callers, NEW o \in Ops \ {"idle"}, NEW x,
         Call(c, o, x), x \in Urls \union Msgs \union {NoArg},
         o \in {"add", "remove"} => x \in Urls,
         o = "publish" => x \in Events,
         o \in Broadcasts => x \in Msgs,
         o = "add" => spawned[x] + Cardinality(Adders(x)) < GenBound,
         o = "shutdown" => AllIdle,
         issued' \in SUBSET Msgs
  PROVE  PoolInv'
<1>1. /\ op[c] = "idle" /\ pool = "up" /\ \A d \in Callers : op[d] # "shutdown"
      /\ op' = [op EXCEPT ![c] = o] /\ arg' = [arg EXCEPT ![c] = x]
      /\ lockq' = Append(lockq, c)
      /\ UNCHANGED <<taskVars, relays, spawned, at, todo, pool, result>>
  BY DEF Call, Shared
<1>2. /\ op'[c] = o /\ arg'[c] = x
      /\ \A d \in Callers \ {c} : op'[d] = op[d] /\ arg'[d] = arg[d]
  BY <1>1, TypesHold
<1>3. at[c] = NoTask
  BY <1>1 DEF PoolInv, CallOK
<1>4. MutexOK' /\ lockq' \in Seq(Callers)
  BY <1>1, CallMutex
<1>5. PoolTypeOK'
  <2>1. op' \in [Callers -> Ops] /\ arg' \in [Callers -> Urls \union Msgs \union {NoArg}]
    BY <1>1, TypesHold
  <2> QED BY <1>1, <1>4, <2>1, TypesHold DEF PoolTypeOK
<1>6. TaskInv'
  <2>1. UNCHANGED taskVars
    BY <1>1
  <2> QED BY <2>1, TaskInvStep DEF PoolInv
<1>7. NoStaleTarget' /\ MapOwnsHandles' /\ DroppedIdle'
  <2>1. UNCHANGED <<handle, relays, at, todo, pool>>
    BY <1>1 DEF taskVars
  <2>2. NoStaleTarget'
    BY <1>2, <1>3, <2>1 DEF PoolInv, NoStaleTarget, Current, Listed
  <2>3. MapOwnsHandles'
    <3>1. ASSUME NEW t \in Tasks, NEW d \in Callers
          PROVE  op'[d] \in {"remove", "shutdown"} /\ at'[d] = t <=>
                 op[d] \in {"remove", "shutdown"} /\ at[d] = t
      BY <1>2, <1>3, <2>1, TypesHold
    <3>2. ASSUME NEW u \in Urls, NEW g \in 1..GenBound
          PROVE  handle'[<<u, g>>] <=>
                   \/ relays'[u] = g
                   \/ \E d \in Callers : op'[d] \in {"remove", "shutdown"} /\ at'[d] = <<u, g>>
      <4>1. <<u, g>> \in Tasks
        BY TypesHold
      <4>2. handle[<<u, g>>] <=>
              \/ relays[u] = g
              \/ \E d \in Callers : op[d] \in {"remove", "shutdown"} /\ at[d] = <<u, g>>
        BY DEF PoolInv, MapOwnsHandles
      <4> QED BY <2>1, <3>1, <4>1, <4>2
    <3> QED BY <3>2 DEF MapOwnsHandles
  <2>4. DroppedIdle'
    BY <1>1, <2>1 DEF DroppedIdle
  <2> QED BY <2>2, <2>3, <2>4
<1>8. SpawnsOK'
  <2>1. UNCHANGED <<signalled, relays, spawned>>
    BY <1>1 DEF taskVars
  <2>2. ASSUME NEW u \in Urls PROVE spawned[u] + Cardinality(Adders(u)') <= GenBound
    <3>1. CASE o = "add" /\ x = u
      <4>1. Adders(u)' = Adders(u) \union {c}
        BY <1>2, <3>1 DEF Adders
      <4>2. IsFiniteSet(Adders(u)) /\ Cardinality(Adders(u)) \in Nat
        BY AddersFinite
      <4>3. Cardinality(Adders(u) \union {c}) \in {Cardinality(Adders(u)), Cardinality(Adders(u)) + 1}
        BY <4>2, FS_AddElement
      <4>4. spawned[u] \in Nat /\ spawned[u] + Cardinality(Adders(u)) < GenBound /\ GenBound \in Nat
        BY <3>1, TypesHold
      <4> QED BY <4>1, <4>2, <4>3, <4>4
    <3>2. CASE ~(o = "add" /\ x = u)
      <4>1. Adders(u)' = Adders(u)
        BY <1>1, <1>2, <3>2 DEF Adders
      <4> QED BY <4>1 DEF PoolInv, SpawnsOK
    <3> QED BY <3>1, <3>2
  <2> QED BY <2>1, <2>2 DEF PoolInv, SpawnsOK
<1>9. ASSUME NEW d \in Callers PROVE CallOK(d)'
  <2>1. UNCHANGED <<at, signalled, pool>>
    BY <1>1 DEF taskVars
  <2>2. CASE d = c
    BY <1>1, <1>2, <1>3, <2>1, <2>2 DEF CallOK, AllIdle, Broadcasts
  <2>3. CASE d # c
    BY <1>1, <1>2, <2>1, <2>3 DEF PoolInv, CallOK
  <2> QED BY <2>2, <2>3
<1> QED BY <1>4, <1>5, <1>6, <1>7, <1>8, <1>9 DEF PoolInv

\* This holds of each call of the application's.
LEMMA CallerCallKeepsInv ==
  ASSUME PoolInv, NEW c \in Callers, CallerCall(c) PROVE PoolInv'
<1> USE DEF Ops, Broadcasts
<1>1. ASSUME NEW u \in Urls, AddRelay(c, u) PROVE PoolInv'
  <2>1. spawned[u] + Cardinality(Adders(u)) < GenBound
    BY <1>1 DEF AddRelay, Adders
  <2> QED BY <1>1, <2>1, CallKeepsInv, TypesHold DEF AddRelay
<1>2. ASSUME NEW u \in Urls, RemoveRelay(c, u) PROVE PoolInv'
  BY <1>2, CallKeepsInv, TypesHold DEF RemoveRelay
<1>3. ASSUME NEW e \in Events, Publish(c, e) PROVE PoolInv'
  BY <1>3, CallKeepsInv, TypesHold, PoolAssumption DEF Publish, Issue
<1>4. ASSUME NEW s \in SubIds, Subscribe(c, s) PROVE PoolInv'
  <2>1. Req(s) \in Msgs
    BY PoolAssumption
  <2>2. Call(c, "subscribe", Req(s)) /\ issued' \in SUBSET Msgs
    BY <1>4, <2>1, TypesHold DEF Subscribe, Issue
  <2> QED BY <2>1, <2>2, CallKeepsInv
<1>5. ASSUME NEW s \in SubIds, Unsubscribe(c, s) PROVE PoolInv'
  <2>1. Close(s) \in Msgs
    BY PoolAssumption
  <2>2. Call(c, "unsubscribe", Close(s)) /\ issued' \in SUBSET Msgs
    BY <1>5, <2>1, TypesHold DEF Unsubscribe, Issue
  <2> QED BY <2>1, <2>2, CallKeepsInv
<1>6. CASE Shutdown(c)
  BY <1>6, CallKeepsInv, TypesHold DEF Shutdown
<1> QED BY <1>1, <1>2, <1>3, <1>4, <1>5, <1>6 DEF CallerCall

-----------------------------------------------------------------------------
(* A call ends, or its future is dropped.                                  *)
Evicting(t) == \E c \in Callers : op[c] \in {"remove", "shutdown"} /\ at[c] = t

Owned(u, g) == handle[<<u, g>>] <=> relays[u] = g \/ Evicting(<<u, g>>)

\* The map owns the handles, relay by relay and generation by generation.
LEMMA OwnedEverywhere ==
  MapOwnsHandles <=> \A u \in Urls, g \in 1..GenBound : Owned(u, g)
  BY DEF MapOwnsHandles, Owned, Evicting

\* It still does where neither of them changes.
LEMMA OwnersSame ==
  ASSUME PoolInv, UNCHANGED <<handle, relays>>,
         \A t \in Tasks : Evicting(t)' <=> Evicting(t)
  PROVE  MapOwnsHandles'
<1>1. ASSUME NEW u \in Urls, NEW g \in 1..GenBound PROVE Owned(u, g)'
  <2>1. <<u, g>> \in Tasks /\ Owned(u, g)
    BY OwnedEverywhere, TypesHold DEF PoolInv
  <2> QED BY <2>1 DEF Owned
<1> QED BY <1>1, OwnedEverywhere DEF MapOwnsHandles, Owned, Evicting

\* What a return changes: its caller is idle, all others are as before.
LEMMA ReleaseEffect ==
  ASSUME PoolInv, NEW c \in Callers, Release(c)
  PROVE  /\ op[c] # "idle"
         /\ op'[c] = "idle" /\ at'[c] = NoTask
         /\ \A d \in Callers \ {c} : op'[d] = op[d] /\ arg'[d] = arg[d]
                                    /\ at'[d] = at[d] /\ todo'[d] = todo[d]
         /\ op' \in [Callers -> Ops] /\ at' \in [Callers -> Tasks \union {NoTask}]
         /\ arg' \in [Callers -> Urls \union Msgs \union {NoArg}]
         /\ todo' \in [Callers -> SUBSET Urls]
         /\ MutexOK' /\ lockq' \in Seq(Callers)
         /\ \A u \in Urls :
              /\ Cardinality(Adders(u)') \in Nat
              /\ Cardinality(Adders(u)') <= Cardinality(Adders(u))
              /\ op[c] = "add" /\ arg[c] = u =>
                   Cardinality(Adders(u)') + 1 <= Cardinality(Adders(u))
<1>1. op[c] # "idle"
  BY DEF Release, PoolInv, MutexOK
<1>2. /\ op'[c] = "idle" /\ at'[c] = NoTask
      /\ \A d \in Callers \ {c} : op'[d] = op[d] /\ arg'[d] = arg[d]
                                 /\ at'[d] = at[d] /\ todo'[d] = todo[d]
  BY TypesHold DEF Release
<1>3. /\ op' \in [Callers -> Ops] /\ at' \in [Callers -> Tasks \union {NoTask}]
      /\ arg' \in [Callers -> Urls \union Msgs \union {NoArg}]
      /\ todo' \in [Callers -> SUBSET Urls]
  BY TypesHold DEF Release, Ops
<1>4. MutexOK' /\ lockq' \in Seq(Callers)
  BY ReleaseMutex
<1>5. ASSUME NEW u \in Urls
      PROVE  /\ Cardinality(Adders(u)') \in Nat
             /\ Cardinality(Adders(u)') <= Cardinality(Adders(u))
             /\ op[c] = "add" /\ arg[c] = u =>
                  Cardinality(Adders(u)') + 1 <= Cardinality(Adders(u))
  <2>1. Adders(u)' = Adders(u) \ {c}
    BY <1>2 DEF Adders
  <2>2. IsFiniteSet(Adders(u)) /\ Cardinality(Adders(u)) \in Nat
    BY AddersFinite
  <2>3. /\ IsFiniteSet(Adders(u) \ {c})
        /\ Cardinality(Adders(u) \ {c}) =
             IF c \in Adders(u) THEN Cardinality(Adders(u)) - 1 ELSE Cardinality(Adders(u))
    BY <2>2, FS_RemoveElement
  <2>4. Cardinality(Adders(u) \ {c}) \in Nat
    BY <2>3, FS_CardinalityType
  <2>5. op[c] = "add" /\ arg[c] = u => c \in Adders(u)
    BY DEF Adders
  <2> QED BY <2>1, <2>2, <2>3, <2>4, <2>5
<1> QED BY <1>1, <1>2, <1>3, <1>4, <1>5

(* If the caller that leaves was not evicting a relay, the handles that    *)
(* exist keep their owners.                                                *)
LEMMA ReleaseKeepsOwners ==
  ASSUME PoolInv, NEW c \in Callers, Release(c), UNCHANGED <<handle, relays>>,
         op[c] \in {"remove", "shutdown"} => at[c] = NoTask
  PROVE  MapOwnsHandles'
<1> USE ReleaseEffect
<1>1. ASSUME NEW t \in Tasks, NEW d \in Callers
      PROVE  op'[d] \in {"remove", "shutdown"} /\ at'[d] = t <=>
             op[d] \in {"remove", "shutdown"} /\ at[d] = t
  <2>1. CASE d = c
    <3>1. NoTask # t /\ at'[c] = NoTask
      BY TypesHold
    <3> QED BY <2>1, <3>1
  <2>2. CASE d # c
    <3>1. op'[d] = op[d] /\ at'[d] = at[d]
      BY <2>2
    <3> QED BY <3>1
  <2> QED BY <2>1, <2>2
<1>2. ASSUME NEW t \in Tasks PROVE Evicting(t)' <=> Evicting(t)
  BY <1>1 DEF Evicting
<1> QED BY <1>2, OwnersSame

(* Apart from the handles' owners, a return keeps the invariant.           *)
LEMMA ReleaseKeepsInv ==
  ASSUME PoolInv, NEW c \in Callers, Release(c), TaskInv', MapOwnsHandles',
         UNCHANGED <<signalled, relays, spawned>>,
         pool' = pool \/ (op[c] = "shutdown" /\ pool' = "dropping"),
         issued' \in SUBSET Msgs, result' \in [Events -> [Urls -> {"none", "ok", "err"}]]
  PROVE  PoolInv'
<1> USE ReleaseEffect
<1>1. PoolTypeOK'
  BY TypesHold DEF PoolTypeOK
<1>2. NoStaleTarget'
  <2> SUFFICES ASSUME NEW d \in Callers, op'[d] \in Broadcasts, at'[d] # NoTask
               PROVE  relays[at'[d][1]] = at'[d][2] /\ todo'[d] \subseteq Listed
    BY DEF NoStaleTarget, Listed
  <2>1. d # c /\ op[d] \in Broadcasts /\ at[d] # NoTask
    OBVIOUS
  <2> QED BY <2>1 DEF PoolInv, NoStaleTarget
<1>3. SpawnsOK'
  <2>1. ASSUME NEW u \in Urls PROVE spawned[u] + Cardinality(Adders(u)') <= GenBound
    <3>1. /\ spawned[u] \in Nat /\ GenBound \in Nat /\ Cardinality(Adders(u)) \in Nat
          /\ spawned[u] + Cardinality(Adders(u)) <= GenBound
      BY TypesHold, AddersFinite DEF PoolInv, SpawnsOK
    <3>2. Cardinality(Adders(u)') \in Nat /\ Cardinality(Adders(u)') <= Cardinality(Adders(u))
      OBVIOUS
    <3> QED BY <3>1, <3>2
  <2> QED BY <2>1 DEF PoolInv, SpawnsOK
<1>4. DroppedIdle'
  <2>1. pool = "up"
    BY DEF PoolInv, DroppedIdle, AllIdle
  <2> QED BY <2>1 DEF PoolInv, CallOK, DroppedIdle, AllIdle
<1>5. ASSUME NEW d \in Callers PROVE CallOK(d)'
  <2>1. CASE d = c
    BY <2>1 DEF CallOK, Broadcasts
  <2>2. CASE d # c
    <3>1. /\ op'[d] = op[d] /\ arg'[d] = arg[d] /\ at'[d] = at[d] /\ CallOK(d)
      BY <2>2 DEF PoolInv
    <3>2. op[d] # "shutdown"
      BY <2>2, <3>1 DEF CallOK
    <3> QED BY <3>1, <3>2 DEF CallOK
  <2> QED BY <2>1, <2>2
<1> QED BY ReleaseEffect, <1>1, <1>2, <1>3, <1>4, <1>5 DEF PoolInv

-----------------------------------------------------------------------------
(* The calls that hold the mutex.  Nobody else is using a handle then.     *)
LEMMA OthersWait ==
  ASSUME PoolInv, NEW c \in Callers, Holding(c)
  PROVE  \A d \in Callers \ {c} : at[d] = NoTask
<1>1. lockq[1] = c
  BY TypesHold DEF Holding
<1> QED BY <1>1 DEF PoolInv, MutexOK

\* A step of the pool that moves no task.
LEMMA IdleStep ==
  ASSUME PoolInv, UNCHANGED taskVars
  PROVE  TaskInv' /\ UNCHANGED <<handle, signalled>>
<1>1. TaskInv'
  BY TaskInvStep DEF PoolInv
<1> QED BY <1>1 DEF taskVars

\* The returns that find nothing to do.
LEMMA QuietReturnsKeepInv ==
  ASSUME PoolInv, NEW c \in Callers,
         AddDuplicate(c) \/ RemoveMissing(c) \/ Abandon(c) \/ ShutdownEnd(c)
  PROVE  PoolInv'
<1>1. /\ Release(c) /\ UNCHANGED <<taskVars, relays, spawned, issued, result>>
      /\ op[c] \in {"remove", "shutdown"} => at[c] = NoTask
      /\ pool' = pool \/ (op[c] = "shutdown" /\ pool' = "dropping")
  BY DEF AddDuplicate, RemoveMissing, Abandon, ShutdownEnd, Broadcasts
<1>2. TaskInv' /\ UNCHANGED <<handle, signalled>>
  BY <1>1, IdleStep
<1>3. MapOwnsHandles'
  BY <1>1, <1>2, ReleaseKeepsOwners
<1> QED BY <1>1, <1>2, <1>3, ReleaseKeepsInv, TypesHold

\* An add spawns the next generation of its relay and returns.
LEMMA AddSpawnOf ==
  ASSUME PoolInv, NEW c \in Callers, AddSpawn(c),
         NEW u \in Urls, NEW g \in Nat, u = arg[c], g = spawned[u] + 1
  PROVE  PoolInv'
<1>1. /\ Holding(c) /\ op[c] = "add" /\ relays[u] = 0 /\ SpawnRelay(<<u, g>>)
      /\ relays' = [relays EXCEPT ![u] = g] /\ spawned' = [spawned EXCEPT ![u] = g]
      /\ Release(c) /\ UNCHANGED <<pool, issued, result>>
  BY DEF AddSpawn
<1>2. spawned[u] \in Nat /\ relays \in [Urls -> 0..GenBound]
  BY TypesHold
<1> USE ReleaseEffect
<1>3. g \in 1..GenBound /\ g + Cardinality(Adders(u)') <= GenBound
  <2>1. /\ Cardinality(Adders(u)) \in Nat /\ Cardinality(Adders(u)') \in Nat
        /\ Cardinality(Adders(u)') + 1 <= Cardinality(Adders(u))
        /\ spawned[u] + Cardinality(Adders(u)) <= GenBound
    BY <1>1, <1>2, AddersFinite DEF PoolInv, SpawnsOK
  <2> QED BY <1>2, <2>1, TypesHold
<1>4. <<u, g>> \in Tasks
  BY <1>2, <1>3, TypesHold
<1>5. /\ relays'[u] = g /\ spawned'[u] = g
      /\ \A v \in Urls \ {u} : relays'[v] = relays[v] /\ spawned'[v] = spawned[v]
      /\ relays' \in [Urls -> 0..GenBound] /\ spawned' \in [Urls -> 0..GenBound]
  BY <1>1, <1>2, <1>3, TypesHold
<1>6. TaskInv'
  BY <1>1, <1>4, TaskInvStep DEF PoolInv, TaskNext, HandleStep
<1>7. PoolTypeOK'
  BY <1>1, <1>5, TypesHold DEF PoolTypeOK
<1>8. \A d \in Callers : at[d] = NoTask /\ at'[d] = NoTask
  BY <1>1, OthersWait DEF PoolInv, CallOK
<1>9. NoStaleTarget'
  BY <1>8 DEF NoStaleTarget
<1>10. /\ handle'[<<u, g>>] = TRUE /\ (\A t \in Tasks \ {<<u, g>>} : handle'[t] = handle[t])
       /\ UNCHANGED signalled
  <2>1. handle' = [handle EXCEPT ![<<u, g>>] = TRUE] /\ UNCHANGED signalled
    BY <1>1 DEF SpawnRelay
  <2>2. handle \in [Tasks -> BOOLEAN]
    BY TypesHold
  <2> QED BY <1>4, <2>1, <2>2
<1>11. MapOwnsHandles'
  <2>1. \A t \in Tasks : ~Evicting(t) /\ ~Evicting(t)'
    BY <1>8, TypesHold DEF Evicting
  <2>2. ASSUME NEW v \in Urls, NEW h \in 1..GenBound
        PROVE  handle'[<<v, h>>] <=> relays'[v] = h
    <3>1. <<v, h>> \in Tasks /\ (handle[<<v, h>>] <=> relays[v] = h)
      BY <2>1, OwnedEverywhere, TypesHold DEF PoolInv, Owned
    <3>2. CASE v = u /\ h = g
      BY <1>5, <1>10, <3>2
    <3>3. CASE v = u /\ h # g
      <4>1. <<v, h>> # <<u, g>> /\ relays[v] # h /\ relays'[v] # h
        BY <1>1, <1>5, <3>3
      <4> QED BY <1>10, <3>1, <4>1
    <3>4. CASE v # u
      BY <1>5, <1>10, <3>1, <3>4
    <3> QED BY <3>2, <3>3, <3>4
  <2>3. ASSUME NEW v \in Urls, NEW h \in 1..GenBound PROVE Owned(v, h)'
    <3>1. <<v, h>> \in Tasks
      BY TypesHold
    <3> QED BY <2>1, <2>2, <3>1 DEF Owned
  <2> QED BY <2>3 DEF MapOwnsHandles, Owned, Evicting
<1>12. SpawnsOK'
  <2> SUFFICES ASSUME NEW v \in Urls
               PROVE  /\ spawned'[v] + Cardinality(Adders(v)') <= GenBound
                      /\ relays'[v] <= spawned'[v]
                      /\ \A h \in 1..GenBound :
                           signalled[<<v, h>>] => h <= spawned'[v] /\ relays'[v] # h
    BY <1>10 DEF SpawnsOK
  <2>1. CASE v = u
    <3>1. \A h \in 1..GenBound : signalled[<<u, h>>] => h <= spawned[u]
      BY <1>2 DEF PoolInv, SpawnsOK
    <3>2. Cardinality(Adders(u)') \in Nat
      BY <1>1
    <3> QED BY <1>2, <1>3, <1>5, <2>1, <3>1, <3>2, TypesHold
  <2>2. CASE v # u
    <3>1. /\ spawned[v] \in Nat /\ GenBound \in Nat /\ Cardinality(Adders(v)) \in Nat
          /\ spawned[v] + Cardinality(Adders(v)) <= GenBound
      BY TypesHold, AddersFinite DEF PoolInv, SpawnsOK
    <3>2. Cardinality(Adders(v)') \in Nat /\ Cardinality(Adders(v)') <= Cardinality(Adders(v))
      BY <1>1
    <3>3. spawned'[v] = spawned[v] /\ relays'[v] = relays[v]
      BY <1>5, <2>2
    <3> QED BY <3>1, <3>2, <3>3 DEF PoolInv, SpawnsOK
  <2> QED BY <2>1, <2>2
<1>13. DroppedIdle'
  <2>1. pool = "up" /\ UNCHANGED pool
    BY <1>1 DEF PoolInv, DroppedIdle, AllIdle
  <2> QED BY <2>1 DEF DroppedIdle
<1>14. ASSUME NEW d \in Callers PROVE CallOK(d)'
  <2>1. \/ op'[d] = "idle"
        \/ op'[d] = op[d] /\ arg'[d] = arg[d] /\ CallOK(d) /\ d # c
    BY <1>1 DEF PoolInv
  <2>2. op'[d] # "shutdown"
    BY <1>1, <2>1 DEF CallOK
  <2> QED BY <1>8, <2>1, <2>2 DEF CallOK, Broadcasts
<1> QED BY <1>1, <1>6, <1>7, <1>9, <1>11, <1>12, <1>13, <1>14 DEF PoolInv

\* The same for the relay the caller asked for.
LEMMA AddSpawnKeepsInv ==
  ASSUME PoolInv, NEW c \in Callers, AddSpawn(c) PROVE PoolInv'
<1>1. arg[c] \in Urls /\ spawned[arg[c]] + 1 \in Nat
  BY TypesHold DEF AddSpawn, PoolInv, CallOK
<1> QED BY <1>1, AddSpawnOf

-----------------------------------------------------------------------------
(* A relay is taken out of the map, and its handle dropped.                *)
LEMMA SignalEffect ==
  ASSUME PoolInv, NEW t \in Tasks, SignalShutdown(t)
  PROVE  /\ TaskInv' /\ UNCHANGED handle /\ signalled' \in [Tasks -> BOOLEAN]
         /\ signalled'[t] = TRUE /\ \A v \in Tasks \ {t} : signalled'[v] = signalled[v]
<1>1. TaskInv'
  BY TaskInvStep DEF PoolInv, TaskNext, HandleStep
<1>2. signalled' = [signalled EXCEPT ![t] = TRUE] /\ UNCHANGED handle
  BY DEF SignalShutdown
<1>3. signalled \in [Tasks -> BOOLEAN]
  BY TypesHold
<1> QED BY <1>1, <1>2, <1>3

\* A handle that is dropped is gone, and no other.
LEMMA DropEffect ==
  ASSUME PoolInv, NEW t \in Tasks, DropHandle(t)
  PROVE  /\ TaskInv' /\ UNCHANGED signalled /\ handle[t]
         /\ handle'[t] = FALSE /\ \A v \in Tasks \ {t} : handle'[v] = handle[v]
<1>1. TaskInv'
  BY TaskInvStep DEF PoolInv, TaskNext, HandleStep
<1>2. handle' = [handle EXCEPT ![t] = FALSE] /\ UNCHANGED signalled /\ handle[t]
  BY DEF DropHandle
<1>3. handle \in [Tasks -> BOOLEAN]
  BY TypesHold
<1> QED BY <1>1, <1>2, <1>3

\* An eviction takes the handle out of the map and signals its task.
LEMMA EvictOf ==
  ASSUME PoolInv, NEW c \in Callers, Holding(c), op[c] \in {"remove", "shutdown"},
         NEW u \in Urls, Evict(c, u), NEW g \in 1..GenBound, g = relays[u]
  PROVE  PoolInv'
<1>1. /\ at[c] = NoTask /\ relays' = [relays EXCEPT ![u] = 0]
      /\ at' = [at EXCEPT ![c] = <<u, g>>] /\ SignalShutdown(<<u, g>>)
      /\ UNCHANGED <<spawned, lockq, op, arg, todo, pool, issued, result>>
  BY DEF Evict, Current
<1>2. <<u, g>> \in Tasks
  BY TypesHold
<1>3. /\ relays'[u] = 0 /\ at'[c] = <<u, g>>
      /\ \A v \in Urls \ {u} : relays'[v] = relays[v]
      /\ relays' \in [Urls -> 0..GenBound] /\ at' \in [Callers -> Tasks \union {NoTask}]
  BY <1>1, <1>2, TypesHold
<1>4. \A d \in Callers : at[d] = NoTask /\ (d # c => at'[d] = NoTask)
  BY <1>1, OthersWait, TypesHold
<1>5. /\ TaskInv' /\ UNCHANGED handle
      /\ signalled'[<<u, g>>] = TRUE
      /\ \A t \in Tasks \ {<<u, g>>} : signalled'[t] = signalled[t]
  BY <1>1, <1>2, SignalEffect
<1>6. PoolTypeOK'
  BY <1>1, <1>3, TypesHold DEF PoolTypeOK
<1>7. MutexOK'
  <2>1. lockq[1] = c /\ UNCHANGED <<lockq, op>>
    BY <1>1, TypesHold DEF Holding
  <2>2. \A d \in Callers : at'[d] # NoTask => lockq[1] = d
    BY <1>4, <2>1
  <2> QED BY <2>1, <2>2 DEF PoolInv, MutexOK
<1>8. NoStaleTarget'
  BY <1>1, <1>4 DEF NoStaleTarget, Broadcasts
<1>9. MapOwnsHandles'
  <2>1. \A t \in Tasks : ~Evicting(t)
    BY <1>4, TypesHold DEF Evicting
  <2>2. \A t \in Tasks : Evicting(t)' <=> t = <<u, g>>
    BY <1>1, <1>3, <1>4, TypesHold DEF Evicting
  <2>3. ASSUME NEW v \in Urls, NEW h \in 1..GenBound PROVE Owned(v, h)'
    <3>1. <<v, h>> \in Tasks /\ (handle[<<v, h>>] <=> relays[v] = h)
      BY <2>1, OwnedEverywhere, TypesHold DEF PoolInv, Owned
    <3>2. (handle'[<<v, h>>] <=> relays[v] = h)
      BY <1>5, <3>1
    <3>3. (Evicting(<<v, h>>)' <=> (v = u /\ h = g))
      BY <2>2, <3>1
    <3>4. (relays[v] = h <=> (relays'[v] = h \/ (v = u /\ h = g)))
      BY <1>3
    <3> QED BY <3>2, <3>3, <3>4 DEF Owned
  <2> QED BY <2>3 DEF MapOwnsHandles, Owned, Evicting
<1>10. SpawnsOK'
  <2> SUFFICES ASSUME NEW v \in Urls
               PROVE  /\ spawned[v] + Cardinality(Adders(v)) <= GenBound
                      /\ relays'[v] <= spawned[v]
                      /\ \A h \in 1..GenBound :
                           signalled'[<<v, h>>] => h <= spawned[v] /\ relays'[v] # h
    BY <1>1 DEF SpawnsOK, Adders
  <2>1. /\ spawned[v] + Cardinality(Adders(v)) <= GenBound /\ relays[v] <= spawned[v]
        /\ \A h \in 1..GenBound :
             signalled[<<v, h>>] => h <= spawned[v] /\ relays[v] # h
    BY DEF PoolInv, SpawnsOK
  <2>2. relays'[v] <= spawned[v]
    <3>1. spawned[v] \in Nat
      BY TypesHold
    <3> QED BY <1>3, <2>1, <3>1
  <2>3. ASSUME NEW h \in 1..GenBound, signalled'[<<v, h>>]
        PROVE  h <= spawned[v] /\ relays'[v] # h
    <3>1. CASE v = u /\ h = g
      BY <1>3, <2>1, <3>1
    <3>2. CASE ~(v = u /\ h = g)
      <4>1. signalled[<<v, h>>]
        BY <1>5, <2>3, <3>2, TypesHold
      <4> QED BY <1>3, <2>1, <4>1
    <3> QED BY <3>1, <3>2
  <2> QED BY <2>1, <2>2, <2>3
<1>11. DroppedIdle'
  BY <1>1 DEF PoolInv, DroppedIdle, AllIdle
<1>12. ASSUME NEW d \in Callers PROVE CallOK(d)'
  <2>1. UNCHANGED <<op, arg, pool>> /\ CallOK(d)
    BY <1>1 DEF PoolInv
  <2>2. CASE d = c
    BY <1>3, <1>5, <2>1, <2>2 DEF CallOK
  <2>3. CASE d # c
    BY <1>4, <2>1, <2>3 DEF CallOK
  <2> QED BY <2>2, <2>3
<1> QED BY <1>1, <1>5, <1>6, <1>7, <1>8, <1>9, <1>10, <1>11, <1>12 DEF PoolInv

\* The same for a removal and for a shutdown.
LEMMA EvictKeepsInv ==
  ASSUME PoolInv, NEW c \in Callers, RemoveEvict(c) \/ ShutdownEvict(c) PROVE PoolInv'
<1>1. PICK u \in Urls : Evict(c, u)
  BY DEF RemoveEvict, ShutdownEvict, PoolInv, CallOK
<1>2. relays[u] \in 1..GenBound
  BY <1>1, TypesHold DEF Evict
<1> QED BY <1>1, <1>2, EvictOf DEF RemoveEvict, ShutdownEvict

\* A handle that was evicted may be dropped.
LEMMA DropOwners ==
  ASSUME PoolInv, NEW c \in Callers, Holding(c), op[c] \in {"remove", "shutdown"},
         NEW u \in Urls, NEW g \in 1..GenBound, at[c] = <<u, g>>,
         DropHandle(<<u, g>>), UNCHANGED relays, \A d \in Callers : at'[d] = NoTask
  PROVE  MapOwnsHandles'
<1>1. <<u, g>> \in Tasks /\ at[c] # NoTask
  BY TypesHold
<1>2. /\ handle'[<<u, g>>] = FALSE
      /\ \A t \in Tasks \ {<<u, g>>} : handle'[t] = handle[t]
  BY <1>1, DropEffect
<1>3. relays[u] # g
  BY <1>1 DEF PoolInv, CallOK, SpawnsOK
<1>4. \A t \in Tasks : ~Evicting(t)' /\ (t # <<u, g>> => ~Evicting(t))
  BY OthersWait, TypesHold DEF Evicting
<1>5. ASSUME NEW v \in Urls, NEW h \in 1..GenBound PROVE Owned(v, h)'
  <2>1. <<v, h>> \in Tasks /\ Owned(v, h)
    BY OwnedEverywhere, TypesHold DEF PoolInv
  <2>2. CASE v = u /\ h = g
    BY <1>2, <1>3, <1>4, <2>1, <2>2 DEF Owned
  <2>3. CASE ~(v = u /\ h = g)
    BY <1>2, <1>4, <2>1, <2>3 DEF Owned
  <2> QED BY <2>2, <2>3
<1> QED BY <1>5 DEF MapOwnsHandles, Owned, Evicting

\* A removal drops the handle it evicted and returns.
LEMMA RemoveDropKeepsInv ==
  ASSUME PoolInv, NEW c \in Callers, RemoveDrop(c) PROVE PoolInv'
<1>1. /\ Holding(c) /\ op[c] = "remove" /\ at[c] # NoTask
      /\ DropHandle(at[c]) /\ Release(c)
      /\ UNCHANGED <<relays, spawned, pool, issued, result>>
  BY DEF RemoveDrop
<1>2. PICK u \in Urls, g \in 1..GenBound : at[c] = <<u, g>>
  BY <1>1, TargetIsTask
<1>3. at[c] \in Tasks
  BY <1>1, TargetIsTask
<1>4. TaskInv' /\ UNCHANGED signalled
  BY <1>1, <1>3, DropEffect
<1>5. \A d \in Callers : at'[d] = NoTask
  BY <1>1, OthersWait, ReleaseEffect
<1>6. MapOwnsHandles'
  BY <1>1, <1>2, <1>5, DropOwners
<1> QED BY <1>1, <1>4, <1>6, ReleaseKeepsInv, TypesHold

\* A shutdown drops it and goes on with the next.
LEMMA ShutdownDropKeepsInv ==
  ASSUME PoolInv, NEW c \in Callers, ShutdownDrop(c) PROVE PoolInv'
<1>1. /\ Holding(c) /\ op[c] = "shutdown" /\ at[c] # NoTask
      /\ DropHandle(at[c]) /\ at' = [at EXCEPT ![c] = NoTask]
      /\ UNCHANGED <<relays, spawned, lockq, op, arg, todo, pool, issued, result>>
  BY DEF ShutdownDrop
<1>2. PICK u \in Urls, g \in 1..GenBound : at[c] = <<u, g>>
  BY <1>1, TargetIsTask
<1>3. at[c] \in Tasks
  BY <1>1, TargetIsTask
<1>4. TaskInv' /\ UNCHANGED signalled
  BY <1>1, <1>3, DropEffect
<1>5. \A d \in Callers : at'[d] = NoTask
  BY <1>1, OthersWait, TypesHold
<1>6. MapOwnsHandles'
  BY <1>1, <1>2, <1>5, DropOwners
<1>7. PoolTypeOK' /\ MutexOK' /\ NoStaleTarget'
  BY <1>1, <1>5, TypesHold DEF PoolTypeOK, MutexOK, NoStaleTarget, PoolInv
<1>8. SpawnsOK' /\ DroppedIdle'
  BY <1>1, <1>4 DEF PoolInv, SpawnsOK, Adders, DroppedIdle, AllIdle
<1>9. \A d \in Callers : CallOK(d)'
  BY <1>1, <1>4, <1>5 DEF PoolInv, CallOK
<1> QED BY <1>4, <1>6, <1>7, <1>8, <1>9 DEF PoolInv

-----------------------------------------------------------------------------
(* A broadcast goes on to the next relay, or returns.                      *)
LEMMA AdvanceKeepsInv ==
  ASSUME PoolInv, NEW c \in Callers, Holding(c), op[c] \in Broadcasts,
         NEW rest \in SUBSET Listed, Advance(c, rest),
         TaskInv', UNCHANGED <<handle, signalled, relays, spawned, pool, issued>>,
         result' \in [Events -> [Urls -> {"none", "ok", "err"}]]
  PROVE  PoolInv'
<1>1. CASE Release(c)
  <2>1. op[c] \notin {"remove", "shutdown"}
    BY DEF Broadcasts
  <2>2. MapOwnsHandles'
    BY <1>1, <2>1, ReleaseKeepsOwners
  <2> QED BY <1>1, <2>2, ReleaseKeepsInv, TypesHold
<1>2. ASSUME NEW u \in rest, at' = [at EXCEPT ![c] = Current(u)],
             todo' = [todo EXCEPT ![c] = rest \ {u}], UNCHANGED <<lockq, op, arg>>
      PROVE  PoolInv'
  <2>1. u \in Urls /\ relays[u] # 0 /\ Current(u) \in Tasks /\ Current(u) = <<u, relays[u]>>
    BY CurrentIsTask DEF Listed, Current
  <2>2. /\ at'[c] = Current(u) /\ todo'[c] = rest \ {u}
        /\ \A d \in Callers \ {c} : at'[d] = at[d] /\ at[d] = NoTask
    BY <1>2, OthersWait, TypesHold
  <2>3. PoolTypeOK'
    <3>1. at' \in [Callers -> Tasks \union {NoTask}] /\ todo' \in [Callers -> SUBSET Urls]
      BY <1>2, <2>1, TypesHold DEF Listed
    <3> QED BY <1>2, <3>1, TypesHold DEF PoolTypeOK
  <2>4. MutexOK'
    <3>1. lockq[1] = c
      BY TypesHold DEF Holding
    <3> QED BY <1>2, <2>2, <3>1 DEF PoolInv, MutexOK
  <2>5. NoStaleTarget'
    <3>1. relays[at'[c][1]] = at'[c][2] /\ todo'[c] \subseteq Listed
      BY <2>1, <2>2
    <3> QED BY <2>2, <3>1 DEF NoStaleTarget, Listed
  <2>6. MapOwnsHandles'
    <3>1. op[c] \notin {"remove", "shutdown"}
      BY DEF Broadcasts
    <3>2. \A t \in Tasks : Evicting(t)' <=> Evicting(t)
      BY <1>2, <2>2, <3>1 DEF Evicting
    <3> QED BY <3>2, OwnersSame
  <2>7. SpawnsOK' /\ DroppedIdle'
    BY <1>2 DEF PoolInv, SpawnsOK, Adders, DroppedIdle, AllIdle
  <2>8. ASSUME NEW d \in Callers PROVE CallOK(d)'
    <3>1. CASE d = c
      BY <1>2, <2>2, <3>1 DEF PoolInv, CallOK, Broadcasts
    <3>2. CASE d # c
      BY <1>2, <2>2, <3>2 DEF PoolInv, CallOK
    <3> QED BY <3>1, <3>2
  <2> QED BY <2>3, <2>4, <2>5, <2>6, <2>7, <2>8 DEF PoolInv
<1> QED BY <1>1, <1>2 DEF Advance

\* What a publish reports of a relay is a result.
LEMMA ReportTypes ==
  ASSUME PoolInv, NEW c \in Callers, at[c] # NoTask, NEW r \in {"ok", "err"}, Report(c, r)
  PROVE  result' \in [Events -> [Urls -> {"none", "ok", "err"}]]
<1>1. result \in [Events -> [Urls -> {"none", "ok", "err"}]]
  BY TypesHold
<1>2. CASE op[c] = "publish"
  <2>1. arg[c] \in Events /\ at[c][1] \in Urls
    BY <1>2, TargetIsTask DEF PoolInv, CallOK
  <2>2. result' = [result EXCEPT ![arg[c]][at[c][1]] = r]
    BY <1>2 DEF Report
  <2> QED BY <1>1, <2>1, <2>2
<1>3. CASE op[c] # "publish"
  BY <1>1, <1>3 DEF Report
<1> QED BY <1>2, <1>3

\* The steps of a broadcast.
LEMMA BroadcastKeepsInv ==
  ASSUME PoolInv, NEW c \in Callers,
         BroadcastBegin(c) \/ BroadcastSend(c) \/ BroadcastRefused(c)
  PROVE  PoolInv'
<1>1. CASE BroadcastBegin(c)
  <2>1. /\ Holding(c) /\ op[c] \in Broadcasts /\ Advance(c, Listed)
        /\ UNCHANGED <<taskVars, relays, spawned, pool, issued, result>>
    BY <1>1 DEF BroadcastBegin
  <2>2. TaskInv' /\ UNCHANGED <<handle, signalled>>
    BY <2>1, IdleStep
  <2> QED BY <2>1, <2>2, AdvanceKeepsInv, TypesHold
<1>2. CASE BroadcastSend(c)
  <2>1. /\ Holding(c) /\ op[c] \in Broadcasts /\ Enqueue(at[c], arg[c])
        /\ Report(c, "ok") /\ Advance(c, todo[c]) /\ at[c] # NoTask
        /\ UNCHANGED <<relays, spawned, pool, issued>>
    BY <1>2 DEF BroadcastSend
  <2>2. at[c] \in Tasks /\ arg[c] \in Msgs /\ todo[c] \subseteq Listed
    BY <2>1, TargetIsTask DEF PoolInv, CallOK, NoStaleTarget
  <2>3. TaskInv'
    BY <2>1, <2>2, TaskInvStep DEF PoolInv, TaskNext, HandleStep
  <2>4. UNCHANGED <<handle, signalled>>
    BY <2>1 DEF Enqueue
  <2> QED BY <2>1, <2>2, <2>3, <2>4, AdvanceKeepsInv, ReportTypes
<1>3. CASE BroadcastRefused(c)
  <2>1. /\ Holding(c) /\ op[c] \in Broadcasts
        /\ Report(c, "err") /\ Advance(c, todo[c]) /\ at[c] # NoTask
        /\ UNCHANGED <<taskVars, relays, spawned, pool, issued>>
    BY <1>3 DEF BroadcastRefused
  <2>2. todo[c] \subseteq Listed
    BY <2>1 DEF PoolInv, NoStaleTarget
  <2>3. TaskInv' /\ UNCHANGED <<handle, signalled>>
    BY <2>1, IdleStep
  <2> QED BY <2>1, <2>2, <2>3, AdvanceKeepsInv, ReportTypes
<1> QED BY <1>1, <1>2, <1>3

-----------------------------------------------------------------------------
(* Steps that leave every call, the map and the handles as they are.       *)
LEMMA AloneKeepsInv ==
  ASSUME PoolInv, TaskInv',
         UNCHANGED <<handle, signalled, relays, spawned, lockq, op, arg, at, todo,
                     issued, result>>,
         pool' = pool \/ (AllIdle /\ pool' \in {"dropping", "dropped"})
  PROVE  PoolInv'
<1>1. PoolTypeOK' /\ MutexOK' /\ NoStaleTarget' /\ MapOwnsHandles'
  <2>1. PoolTypeOK'
    BY TypesHold DEF PoolTypeOK
  <2>2. MutexOK' /\ NoStaleTarget'
    BY DEF PoolInv, MutexOK, NoStaleTarget, Listed
  <2>3. MapOwnsHandles'
    BY OwnersSame DEF Evicting
  <2> QED BY <2>1, <2>2, <2>3
<1>2. SpawnsOK' /\ DroppedIdle'
  BY DEF PoolInv, SpawnsOK, Adders, DroppedIdle, AllIdle
<1>3. \A c \in Callers : CallOK(c)'
  BY DEF PoolInv, CallOK, AllIdle
<1> QED BY <1>1, <1>2, <1>3 DEF PoolInv

\* A pool that is dropped drops the handles in its map.
LEMMA DropListedKeepsInv ==
  ASSUME PoolInv, NEW u \in Urls, DropListed(u), NEW g \in 1..GenBound, g = relays[u]
  PROVE  PoolInv'
<1>1. /\ pool = "dropping" /\ DropHandle(<<u, g>>) /\ relays' = [relays EXCEPT ![u] = 0]
      /\ UNCHANGED <<spawned, lockq, op, arg, at, todo, pool, issued, result>>
  BY DEF DropListed, Current
<1>2. <<u, g>> \in Tasks
  BY TypesHold
<1>3. /\ TaskInv' /\ UNCHANGED signalled /\ handle'[<<u, g>>] = FALSE
      /\ \A t \in Tasks \ {<<u, g>>} : handle'[t] = handle[t]
  BY <1>1, <1>2, DropEffect
<1>4. /\ relays'[u] = 0 /\ \A v \in Urls \ {u} : relays'[v] = relays[v]
      /\ relays' \in [Urls -> 0..GenBound]
  BY <1>1, TypesHold
<1>5. \A c \in Callers : op[c] = "idle"
  BY <1>1 DEF PoolInv, DroppedIdle, AllIdle
<1>6. PoolTypeOK' /\ MutexOK' /\ DroppedIdle'
  BY <1>1, <1>4, TypesHold DEF PoolInv, PoolTypeOK, MutexOK, DroppedIdle, AllIdle
<1>7. NoStaleTarget' /\ \A c \in Callers : CallOK(c)'
  BY <1>1, <1>3, <1>5 DEF PoolInv, NoStaleTarget, CallOK, Broadcasts
<1>8. MapOwnsHandles'
  <2>1. \A t : ~Evicting(t) /\ ~Evicting(t)'
    BY <1>1, <1>5 DEF Evicting
  <2>2. ASSUME NEW v \in Urls, NEW h \in 1..GenBound PROVE Owned(v, h)'
    <3>1. <<v, h>> \in Tasks /\ Owned(v, h)
      BY OwnedEverywhere, TypesHold DEF PoolInv
    <3>2. CASE v = u /\ h = g
      BY <1>3, <1>4, <2>1, <3>2 DEF Owned
    <3>3. CASE ~(v = u /\ h = g)
      <4>1. (handle'[<<v, h>>] <=> relays[v] = h)
        BY <1>3, <2>1, <3>1, <3>3 DEF Owned
      <4>2. (relays[v] = h <=> relays'[v] = h)
        BY <1>4, <3>3
      <4> QED BY <2>1, <4>1, <4>2 DEF Owned
    <3> QED BY <3>2, <3>3
  <2> QED BY <2>2 DEF MapOwnsHandles, Owned, Evicting
<1>9. SpawnsOK'
  <2> SUFFICES ASSUME NEW v \in Urls
               PROVE  /\ spawned[v] + Cardinality(Adders(v)) <= GenBound
                      /\ relays'[v] <= spawned[v]
                      /\ \A h \in 1..GenBound :
                           signalled[<<v, h>>] => h <= spawned[v] /\ relays'[v] # h
    BY <1>1, <1>3 DEF SpawnsOK, Adders
  <2>1. spawned[v] \in Nat
    BY TypesHold
  <2> QED BY <1>4, <2>1 DEF PoolInv, SpawnsOK
<1> QED BY <1>3, <1>6, <1>7, <1>8, <1>9 DEF PoolInv

\* And it ends when there are no more.
LEMMA PoolEndKeepsInv ==
  ASSUME PoolInv, PoolEnd PROVE PoolInv'
<1>1. CASE DropPool
  <2>1. /\ AllIdle /\ pool' = "dropping"
        /\ UNCHANGED <<taskVars, relays, spawned, lockq, op, arg, at, todo, issued, result>>
    BY <1>1 DEF DropPool
  <2> QED BY <2>1, IdleStep, AloneKeepsInv
<1>2. ASSUME NEW u \in Urls, DropListed(u) PROVE PoolInv'
  <2>1. relays[u] \in 1..GenBound
    BY <1>2, TypesHold DEF DropListed
  <2> QED BY <1>2, <2>1, DropListedKeepsInv
<1>3. CASE DropEnd
  <2>1. /\ pool = "dropping" /\ pool' = "dropped" /\ (DropReceiver \/ UNCHANGED taskVars)
        /\ UNCHANGED <<relays, spawned, lockq, op, arg, at, todo, issued, result>>
    BY <1>3 DEF DropEnd
  <2>2. TaskInv' /\ UNCHANGED <<handle, signalled>>
    BY <2>1, TaskInvStep DEF PoolInv, TaskNext, ReceiverStep, DropReceiver, taskVars
  <2>3. AllIdle
    BY <2>1 DEF PoolInv, DroppedIdle
  <2> QED BY <2>1, <2>2, <2>3, AloneKeepsInv
<1> QED BY <1>1, <1>2, <1>3 DEF PoolEnd

\* No step of a task's touches its handle.
LEMMA TaskStepOwners ==
  ASSUME NEW t \in Tasks, TaskStep(t) PROVE UNCHANGED <<handle, signalled>>
BY DEF TaskStep, Start, BackoffElapsed, ShutdownInBackoff, ConnectOk, ConnectErr, SendOk,
       SendErr, WriteEnds, TakeOutgoing, ReadPing, PongEnds, SendersGone, ReadText, ForwardText, ReceiverGone,
       ConnectionLost, ShutdownWhileServing, Return, NoTraffic

-----------------------------------------------------------------------------
(* Every step of the system keeps the invariant, and is a step of the      *)
(* tasks or leaves them alone.                                             *)
LEMMA PoolInvInit == Init => PoolInv
<1> SUFFICES ASSUME Init PROVE PoolInv
  OBVIOUS
<1> USE DEF Init
<1>1. TaskInv
  BY TaskInvInit
<1>2. PoolTypeOK
  BY PoolAssumption DEF PoolTypeOK, Ops
<1>3. MutexOK /\ NoStaleTarget /\ DroppedIdle
  BY DEF MutexOK, NoStaleTarget, DroppedIdle
<1>4. MapOwnsHandles
  BY PoolAssumption DEF TaskInit, MapOwnsHandles
<1>5. SpawnsOK
  <2>1. \A u : Adders(u) = {}
    BY DEF Adders
  <2>2. Cardinality({}) = 0
    BY FS_EmptySet
  <2>3. ASSUME NEW u \in Urls
        PROVE  spawned[u] + Cardinality(Adders(u)) <= GenBound /\ relays[u] <= spawned[u]
    <3>1. spawned[u] = 0 /\ relays[u] = 0
      OBVIOUS
    <3>2. Cardinality(Adders(u)) = 0
      BY <2>1, <2>2
    <3>3. GenBound \in Nat
      BY PoolAssumption
    <3> QED BY <3>1, <3>2, <3>3
  <2>4. \A t \in Tasks : ~signalled[t]
    BY DEF TaskInit
  <2> QED BY <2>3, <2>4, PoolAssumption DEF SpawnsOK
<1>6. \A c \in Callers : CallOK(c)
  BY DEF CallOK, Broadcasts
<1> QED BY <1>1, <1>2, <1>3, <1>4, <1>5, <1>6 DEF PoolInv

\* Every step of callers, pool and tasks keeps the invariant.
LEMMA PoolInvStep == PoolInv /\ [Next]_vars => PoolInv'
<1> SUFFICES ASSUME PoolInv, [Next]_vars PROVE PoolInv'
  OBVIOUS
<1>1. ASSUME NEW c \in Callers, CallerStep(c) PROVE PoolInv'
  BY <1>1, QuietReturnsKeepInv, AddSpawnKeepsInv, EvictKeepsInv, RemoveDropKeepsInv,
     BroadcastKeepsInv, ShutdownDropKeepsInv DEF CallerStep
<1>2. ASSUME NEW c \in Callers, CallerCall(c) PROVE PoolInv'
  BY <1>2, CallerCallKeepsInv
<1>3. ASSUME NEW c \in Callers, Abandon(c) PROVE PoolInv'
  BY <1>3, QuietReturnsKeepInv
<1>4. CASE PoolEnd
  BY <1>4, PoolEndKeepsInv
<1>5. CASE EventsStep
  <2>1. ReceiverStep /\ UNCHANGED poolVars
    BY <1>5 DEF EventsStep, ReceiverStep
  <2>2. TaskInv' /\ UNCHANGED <<handle, signalled>>
    BY <2>1, TaskInvStep
       DEF PoolInv, TaskNext, ReceiverStep, TakeReceiver, Consume, DropReceiver
  <2> QED BY <2>1, <2>2, AloneKeepsInv DEF poolVars
<1>6. ASSUME NEW t \in Tasks, TaskStep(t), UNCHANGED poolVars PROVE PoolInv'
  <2>1. TaskInv' /\ UNCHANGED <<handle, signalled>>
    BY <1>6, TaskInvStep, TaskStepOwners DEF PoolInv, TaskNext
  <2> QED BY <1>6, <2>1, AloneKeepsInv DEF poolVars
<1>7. CASE UNCHANGED vars
  <2>1. UNCHANGED taskVars /\ UNCHANGED poolVars
    BY <1>7 DEF vars
  <2> QED BY <2>1, IdleStep, AloneKeepsInv DEF poolVars
<1> QED BY <1>1, <1>2, <1>3, <1>4, <1>5, <1>6, <1>7 DEF Next

\* Every step of the pool is one of its tasks' specification, or a stutter.
LEMMA PoolStepIsTaskStep == PoolInv /\ [Next]_vars => [TaskNext]_taskVars
<1> SUFFICES ASSUME PoolInv, [Next]_vars PROVE TaskNext \/ UNCHANGED taskVars
  OBVIOUS
<1>1. ASSUME NEW c \in Callers, AddSpawn(c) PROVE TaskNext
  <2>1. /\ SpawnRelay(<<arg[c], spawned[arg[c]] + 1>>)
        /\ spawned' = [spawned EXCEPT ![arg[c]] = spawned[arg[c]] + 1]
        /\ arg[c] \in Urls
    BY <1>1 DEF AddSpawn, PoolInv, CallOK
  <2>2. spawned'[arg[c]] \in 0..GenBound
    <3>1. PoolInv'
      BY <1>1, AddSpawnKeepsInv
    <3> QED BY <2>1, <3>1 DEF PoolInv, PoolTypeOK
  <2>3. spawned[arg[c]] + 1 \in 1..GenBound
    BY <2>1, <2>2, TypesHold
  <2>4. <<arg[c], spawned[arg[c]] + 1>> \in Tasks
    BY <2>1, <2>3, TypesHold
  <2> QED BY <2>1, <2>4 DEF TaskNext, HandleStep
<1>2. ASSUME NEW c \in Callers, NEW u \in Urls, Evict(c, u) PROVE TaskNext
  BY <1>2, CurrentIsTask DEF Evict, TaskNext, HandleStep
<1>3. ASSUME NEW c \in Callers, RemoveDrop(c) \/ ShutdownDrop(c) PROVE TaskNext
  BY <1>3, TargetIsTask DEF RemoveDrop, ShutdownDrop, TaskNext, HandleStep
<1>4. ASSUME NEW c \in Callers, BroadcastSend(c) PROVE TaskNext
  BY <1>4, TargetIsTask DEF BroadcastSend, PoolInv, CallOK, TaskNext, HandleStep
<1>5. ASSUME NEW u \in Urls, DropListed(u) PROVE TaskNext
  BY <1>5, CurrentIsTask DEF DropListed, TaskNext, HandleStep
<1>6. ASSUME NEW c \in Callers, CallerStep(c) PROVE TaskNext \/ UNCHANGED taskVars
  <2>1. CASE RemoveEvict(c) \/ ShutdownEvict(c)
    BY <1>2, <2>1 DEF RemoveEvict, ShutdownEvict, PoolInv, CallOK
  <2>2. CASE AddDuplicate(c) \/ RemoveMissing(c) \/ ShutdownEnd(c)
    BY <2>2 DEF AddDuplicate, RemoveMissing, ShutdownEnd
  <2>3. CASE BroadcastBegin(c) \/ BroadcastRefused(c)
    BY <2>3 DEF BroadcastBegin, BroadcastRefused
  <2> QED BY <1>1, <1>3, <1>4, <1>6, <2>1, <2>2, <2>3 DEF CallerStep
<1>7. ASSUME NEW c \in Callers, CallerCall(c) \/ Abandon(c) PROVE UNCHANGED taskVars
  BY <1>7 DEF CallerCall, AddRelay, RemoveRelay, Publish, Subscribe, Unsubscribe,
              Issue, Shutdown, Call, Abandon
<1>8. CASE PoolEnd
  BY <1>5, <1>8 DEF PoolEnd, DropPool, DropEnd, TaskNext, ReceiverStep
<1>9. CASE EventsStep \/ \E t \in Tasks : TaskStep(t)
  BY <1>9 DEF EventsStep, TaskNext, ReceiverStep
<1>10. CASE UNCHANGED vars
  BY <1>10 DEF vars
<1> QED BY <1>6, <1>7, <1>8, <1>9, <1>10 DEF Next

\* The invariant of the pool.
LEMMA PoolInvariant == Spec => []PoolInv
  BY PoolInvInit, PoolInvStep, PTL DEF Spec

(* Type correctness of the pool: in particular, a caller in a call has its *)
(* argument and its target, and results are reported for known relays.     *)
THEOREM PoolTypeCorrect == Spec => []PoolTypeOK
<1>1. PoolInv => PoolTypeOK BY DEF PoolInv
<1> QED BY <1>1, PoolInvariant, PTL

(* The asynchronous mutex: callers are queued once each while in a call,   *)
(* and only the head of the queue uses a handle, for any number of callers *)
(* that come, go and abandon their calls.                                  *)
THEOREM PoolMutex == Spec => []MutexOK
<1>1. PoolInv => MutexOK BY DEF PoolInv
<1> QED BY <1>1, PoolInvariant, PTL

(* What a broadcast read from the map when it took the mutex stays true    *)
(* until its last send, whatever other callers ask for meanwhile.          *)
THEOREM PoolNoStaleTarget == Spec => []NoStaleTarget
<1>1. PoolInv => NoStaleTarget BY DEF PoolInv
<1> QED BY <1>1, PoolInvariant, PTL

(* No handle leaks out of the map except the one being shut down, over any *)
(* sequence of additions, removals and abandoned calls.                    *)
THEOREM PoolOwnsHandles == Spec => []MapOwnsHandles
<1>1. PoolInv => MapOwnsHandles BY DEF PoolInv
<1> QED BY <1>1, PoolInvariant, PTL

(* The tasks of a pool behave as RelayTask says.                           *)
LEMMA PoolRunsTasks == Spec => TaskSpec
<1>1. Init => TaskInit BY DEF Init
<1> QED BY <1>1, PoolStepIsTaskStep, PoolInvariant, PTL DEF Spec, TaskSpec

(* So what is proved of the tasks holds in the pool: no message accepted   *)
(* by a task is reordered, repeated or skipped.                            *)
THEOREM PoolConserves == Spec => []OutboundConserved
  BY PoolRunsTasks, TaskConserves, PTL

(* A relay that is in the map keeps its connection task: nobody has told   *)
(* it to stop, so only the retry limit or a dropped receiver ends it.      *)
THEOREM PoolListedKeepsTrying == Spec => []ListedKeepsTrying
<1>1. PoolInv /\ NeverAbandoned => ListedKeepsTrying
  <2> SUFFICES ASSUME PoolInv, NeverAbandoned, NEW u \in Listed,
                      status[Current(u)] = "Terminated"
               PROVE  OutOfRetries(Current(u)) \/ receiver = "dropped"
    BY DEF ListedKeepsTrying
  <2>1. u \in Urls /\ relays[u] \in 1..GenBound /\ Current(u) = <<u, relays[u]>>
        /\ Current(u) \in Tasks
    BY TypesHold, CurrentIsTask DEF Listed, Current
  <2>2. handle[Current(u)] /\ ~signalled[Current(u)]
    BY <2>1 DEF PoolInv, MapOwnsHandles, SpawnsOK
  <2> QED BY <2>1, <2>2 DEF NeverAbandoned, ShutdownReady
<1>2. Spec => []NeverAbandoned
  BY PoolRunsTasks, TaskNeverAbandoned, PTL
<1> QED BY <1>1, <1>2, PoolInvariant, PTL

(* What relays send reaches the application of a pool once each and in     *)
(* order, while relays come and go.                                        *)
THEOREM PoolInboundConserved == Spec => []InboundConserved
  BY PoolRunsTasks, TaskInboundConserved, PTL

-----------------------------------------------------------------------------
(* Broadcasts: which relays have accepted a message that is under way.     *)
Has(t, m) == \E i \in 1..Len(accepted[t]) : accepted[t][i] = m

IsNewest(m) ==
  \A t \in Tasks : \A i \in 1..Len(accepted[t]) : accepted[t][i] = m => i = Len(accepted[t])

NowhereIn(us, m) == \A v \in us, g \in 1..GenBound : ~Has(<<v, g>>, m)

BroadcastOK(c) ==
  op[c] \in Broadcasts =>
    /\ arg[c] \in issued
    /\ arg[c] \in Events => op[c] = "publish"
    /\ at[c] = NoTask => \A t \in Tasks : ~Has(t, arg[c])
    /\ at[c] # NoTask =>
         /\ IsNewest(arg[c])
         /\ at[c][1] \notin todo[c]
         /\ NowhereIn(todo[c] \union {at[c][1]}, arg[c])

UnissuedNowhere == \A m \in Msgs \ issued, t \in Tasks : ~Has(t, m)

ArgsDiffer ==
  \A c, d \in Callers :
    c # d /\ op[c] \in Broadcasts /\ op[d] \in Broadcasts => arg[c] # arg[d]

BroadcastInv ==
  /\ \A c \in Callers : BroadcastOK(c)
  /\ UnissuedNowhere /\ ArgsDiffer /\ SameOrderEverywhere /\ ResultsExact

\* The types of what tasks accepted.
LEMMA AcceptedTypes ==
  PoolInv => accepted \in [Tasks -> Seq(Msgs)]
  BY DEF PoolInv, TaskInv, TaskTypeOK

(* A step that leaves the messages alone and moves no broadcast, ...       *)
LEMMA SameBroadcasts ==
  ASSUME PoolInv, BroadcastInv, UNCHANGED <<accepted, issued, result>>,
         \A d \in Callers : \/ op'[d] \notin Broadcasts
                            \/ /\ op'[d] = op[d] /\ arg'[d] = arg[d]
                               /\ at'[d] = at[d] /\ todo'[d] = todo[d]
  PROVE  BroadcastInv'
<1>1. UnissuedNowhere' /\ SameOrderEverywhere' /\ ResultsExact'
  BY DEF BroadcastInv, UnissuedNowhere, SameOrderEverywhere, ResultsExact, Has
<1>2. ArgsDiffer'
  BY DEF BroadcastInv, ArgsDiffer
<1>3. ASSUME NEW d \in Callers PROVE BroadcastOK(d)'
  BY DEF BroadcastInv, BroadcastOK, Has, IsNewest, NowhereIn
<1> QED BY <1>1, <1>2, <1>3 DEF BroadcastInv

(* ... one that issues a message, ...                                      *)
LEMMA IssueKeepsBroadcasts ==
  ASSUME PoolInv, BroadcastInv, NEW c \in Callers, NEW o \in Broadcasts, NEW m \in Msgs,
         Issue(c, o, m), m \in Events => o = "publish"
  PROVE  BroadcastInv'
<1>1. /\ m \notin issued /\ issued' = issued \union {m} /\ op[c] = "idle"
      /\ op' = [op EXCEPT ![c] = o] /\ arg' = [arg EXCEPT ![c] = m]
      /\ UNCHANGED <<accepted, at, todo, result>>
  BY DEF Issue, Call, taskVars
<1>2. /\ op'[c] = o /\ arg'[c] = m /\ at[c] = NoTask
      /\ \A d \in Callers \ {c} : op'[d] = op[d] /\ arg'[d] = arg[d]
  BY <1>1, TypesHold DEF PoolInv, CallOK
<1>3. \A t \in Tasks : ~Has(t, m)
  BY <1>1 DEF BroadcastInv, UnissuedNowhere
<1>4. UnissuedNowhere' /\ SameOrderEverywhere' /\ ResultsExact'
  BY <1>1 DEF BroadcastInv, UnissuedNowhere, SameOrderEverywhere, ResultsExact, Has
<1>5. \A d \in Callers \ {c} : op[d] \in Broadcasts => arg[d] # m
  BY <1>1 DEF BroadcastInv, BroadcastOK
<1>6. ArgsDiffer'
  BY <1>2, <1>5 DEF BroadcastInv, ArgsDiffer
<1>7. ASSUME NEW d \in Callers PROVE BroadcastOK(d)'
  <2>1. CASE d = c
    BY <1>1, <1>2, <1>3, <2>1 DEF BroadcastOK, Has
  <2>2. CASE d # c
    BY <1>1, <1>2, <2>2 DEF BroadcastInv, BroadcastOK, Has, IsNewest, NowhereIn
  <2> QED BY <2>1, <2>2
<1> QED BY <1>4, <1>6, <1>7 DEF BroadcastInv

(* ... and one by which a broadcast goes on to the next relay or returns.  *)
LEMMA AdvanceMoves ==
  ASSUME PoolInv, NEW c \in Callers, Holding(c), op[c] \in Broadcasts,
         NEW rest \in SUBSET Listed, Advance(c, rest)
  PROVE  /\ \A d \in Callers \ {c} :
              /\ op'[d] = op[d] /\ arg'[d] = arg[d] /\ at'[d] = at[d] /\ todo'[d] = todo[d]
              /\ at[d] = NoTask
         /\ \/ op'[c] \notin Broadcasts
            \/ /\ op'[c] = op[c] /\ arg'[c] = arg[c]
               /\ at'[c] # NoTask /\ at'[c][1] \in rest /\ todo'[c] = rest \ {at'[c][1]}
<1>1. CASE Release(c)
  BY <1>1, OthersWait, ReleaseEffect DEF Broadcasts
<1>2. ASSUME NEW u \in rest, at' = [at EXCEPT ![c] = Current(u)],
             todo' = [todo EXCEPT ![c] = rest \ {u}]
      PROVE  /\ at'[c][1] = u /\ todo'[c] = rest \ {u} /\ at'[c] # NoTask
             /\ \A d \in Callers \ {c} : at'[d] = at[d] /\ todo'[d] = todo[d]
  <2>1. u \in Urls /\ relays[u] # 0
    BY DEF Listed
  <2>2. Current(u) \in Tasks /\ Current(u)[1] = u
    BY <2>1, CurrentIsTask DEF Current
  <2> QED BY <1>2, <2>2, TypesHold
<1>3. CASE \E u \in rest : /\ at' = [at EXCEPT ![c] = Current(u)]
                           /\ todo' = [todo EXCEPT ![c] = rest \ {u}]
                           /\ UNCHANGED <<lockq, op, arg>>
  <2>1. PICK u \in rest : /\ at' = [at EXCEPT ![c] = Current(u)]
                          /\ todo' = [todo EXCEPT ![c] = rest \ {u}]
                          /\ UNCHANGED <<lockq, op, arg>>
    BY <1>3
  <2>2. /\ at'[c][1] = u /\ todo'[c] = rest \ {u} /\ at'[c] # NoTask
        /\ \A d \in Callers \ {c} : at'[d] = at[d] /\ todo'[d] = todo[d]
    BY <1>2, <2>1
  <2> QED BY <2>1, <2>2, OthersWait
<1> QED BY <1>1, <1>3 DEF Advance

\* A broadcast goes on to the next relay, or returns.
LEMMA AdvanceKeepsBroadcasts ==
  ASSUME PoolInv, BroadcastInv, NEW c \in Callers, Holding(c), op[c] \in Broadcasts,
         NEW rest \in SUBSET Listed, Advance(c, rest), UNCHANGED issued,
         NEW m, m = arg[c], \A t \in Tasks : \A x : x # m => (Has(t, x)' <=> Has(t, x)),
         IsNewest(m)', NowhereIn(rest, m)'
  PROVE  (\A d \in Callers : BroadcastOK(d)') /\ UnissuedNowhere' /\ ArgsDiffer'
<1>1. /\ \A d \in Callers \ {c} :
           /\ op'[d] = op[d] /\ arg'[d] = arg[d] /\ at'[d] = at[d] /\ todo'[d] = todo[d]
           /\ at[d] = NoTask
      /\ \/ op'[c] \notin Broadcasts
         \/ /\ op'[c] = op[c] /\ arg'[c] = arg[c]
            /\ at'[c] # NoTask /\ at'[c][1] \in rest /\ todo'[c] = rest \ {at'[c][1]}
  BY AdvanceMoves
<1>2. /\ m \in issued /\ (m \in Events => op[c] = "publish")
      /\ \A d \in Callers \ {c} : op[d] \in Broadcasts => arg[d] # m
  BY DEF BroadcastInv, BroadcastOK, ArgsDiffer
<1>3. BroadcastOK(c)'
  <2> SUFFICES ASSUME op'[c] \in Broadcasts
               PROVE  /\ m \in issued' /\ (m \in Events => op'[c] = "publish")
                      /\ IsNewest(m)' /\ at'[c][1] \notin todo'[c]
                      /\ at'[c] # NoTask /\ arg'[c] = m
                      /\ todo'[c] \union {at'[c][1]} = rest
    BY DEF BroadcastOK, IsNewest, NowhereIn, Has
  <2> QED BY <1>1, <1>2
<1>4. ASSUME NEW d \in Callers \ {c} PROVE BroadcastOK(d)'
  <2> SUFFICES ASSUME op[d] \in Broadcasts
               PROVE  /\ arg'[d] \in issued' /\ (arg'[d] \in Events => op'[d] = "publish")
                      /\ at'[d] = NoTask /\ \A t \in Tasks : ~Has(t, arg[d])'
    BY <1>1 DEF BroadcastOK, Has
  <2>1. /\ arg[d] \in issued /\ (arg[d] \in Events => op[d] = "publish")
        /\ \A t \in Tasks : ~Has(t, arg[d])
    BY <1>1 DEF BroadcastInv, BroadcastOK
  <2> QED BY <1>1, <1>2, <2>1 DEF Has
<1>5. UnissuedNowhere'
  BY <1>2 DEF BroadcastInv, UnissuedNowhere
<1>6. ArgsDiffer'
  BY <1>1 DEF BroadcastInv, ArgsDiffer
<1> QED BY <1>3, <1>4, <1>5, <1>6

\* A broadcast that has the mutex starts.
LEMMA BeginKeepsBroadcasts ==
  ASSUME PoolInv, BroadcastInv, NEW c \in Callers, BroadcastBegin(c)
  PROVE  BroadcastInv'
<1>1. /\ Holding(c) /\ op[c] \in Broadcasts /\ at[c] = NoTask /\ Advance(c, Listed)
      /\ UNCHANGED <<accepted, issued, result>>
  BY DEF BroadcastBegin, taskVars
<1>2. \A t \in Tasks : ~Has(t, arg[c])
  BY <1>1 DEF BroadcastInv, BroadcastOK
<1>3. ASSUME NEW m, m = arg[c], NEW rest \in SUBSET Listed, rest = Listed
      PROVE  /\ \A t \in Tasks : \A x : x # m => (Has(t, x)' <=> Has(t, x))
             /\ IsNewest(m)' /\ NowhereIn(rest, m)'
  <2>1. \A v \in rest, g \in 1..GenBound : <<v, g>> \in Tasks
    BY TypesHold DEF Listed
  <2> QED BY <1>1, <1>2, <1>3, <2>1 DEF Has, IsNewest, NowhereIn
<1>4. (\A d \in Callers : BroadcastOK(d)') /\ UnissuedNowhere' /\ ArgsDiffer'
  BY <1>1, <1>3, AdvanceKeepsBroadcasts
<1>5. SameOrderEverywhere' /\ ResultsExact'
  BY <1>1 DEF BroadcastInv, SameOrderEverywhere, ResultsExact
<1> QED BY <1>4, <1>5 DEF BroadcastInv

(* The relay takes the message: it is the newest wherever it is.           *)
LEMMA SendKeepsOrder ==
  ASSUME PoolInv, BroadcastInv, NEW t \in Tasks, NEW m \in Msgs, Enqueue(t, m), IsNewest(m)
  PROVE  /\ SameOrderEverywhere' /\ IsNewest(m)'
         /\ \A u \in Tasks : \A x : Has(u, x)' <=> Has(u, x) \/ (u = t /\ x = m)
<1> DEFINE n == Len(accepted[t]) + 1
<1>1. /\ accepted \in [Tasks -> Seq(Msgs)] /\ accepted[t] \in Seq(Msgs)
      /\ accepted' = [accepted EXCEPT ![t] = Append(accepted[t], m)]
      /\ \A i \in 1..Len(accepted[t]) : accepted[t][i] # m
  BY AcceptedTypes DEF Enqueue
<1>2. /\ accepted'[t] = Append(accepted[t], m) /\ Len(accepted[t]) \in Nat
      /\ \A u \in Tasks \ {t} : accepted'[u] = accepted[u]
  BY <1>1
<1>3. /\ Len(accepted'[t]) = n /\ accepted'[t][n] = m /\ n \in Nat
      /\ \A i \in 1..Len(accepted[t]) : accepted'[t][i] = accepted[t][i]
  BY <1>1, <1>2
<1>4. \A i \in 1..Len(accepted'[t]) : i \in 1..Len(accepted[t]) \/ i = n
  BY <1>2, <1>3
<1> HIDE DEF n
<1>5. IsNewest(m)'
  <2> SUFFICES ASSUME NEW u \in Tasks, NEW i \in 1..Len(accepted'[u]), accepted'[u][i] = m
               PROVE  i = Len(accepted'[u])
    BY DEF IsNewest
  <2>1. CASE u = t
    BY <1>1, <1>3, <1>4, <2>1
  <2>2. CASE u # t
    BY <1>2, <2>2 DEF IsNewest
  <2> QED BY <2>1, <2>2
<1>6. ASSUME NEW u \in Tasks, NEW x
      PROVE  Has(u, x)' <=> Has(u, x) \/ (u = t /\ x = m)
  <2>1. CASE u = t
    <3>1. n \in 1..Len(accepted'[t]) /\ 1..Len(accepted[t]) \subseteq 1..Len(accepted'[t])
      BY <1>2, <1>3 DEF n
    <3> QED BY <1>3, <1>4, <2>1, <3>1 DEF Has
  <2>2. CASE u # t
    BY <1>2, <2>2 DEF Has
  <2> QED BY <2>1, <2>2
<1>7. SameOrderEverywhere'
  <2> SUFFICES ASSUME NEW u \in Tasks, NEW v \in Tasks,
                      NEW i \in 1..Len(accepted'[u]), NEW j \in 1..Len(accepted'[u]),
                      NEW k \in 1..Len(accepted'[v]), NEW l \in 1..Len(accepted'[v]),
                      i < j, accepted'[u][i] = accepted'[v][k],
                      accepted'[u][j] = accepted'[v][l]
               PROVE  k < l
    BY DEF SameOrderEverywhere
  <2>1. /\ \A w \in Tasks : Len(accepted'[w]) \in Nat
        /\ i \in Nat /\ j \in Nat /\ k \in Nat /\ l \in Nat
    BY <1>1, <1>2, <1>3
  <2>2. i # Len(accepted'[u]) /\ i <= Len(accepted'[u]) /\ j <= Len(accepted'[u])
    BY <2>1
  <2>3. accepted'[u][i] # m
    BY <1>5, <2>2 DEF IsNewest
  <2>4. CASE accepted'[u][j] = m
    <3>1. l = Len(accepted'[v])
      BY <1>5, <2>4 DEF IsNewest
    <3>2. k # l
      BY <2>3, <2>4
    <3> QED BY <2>1, <3>1, <3>2
  <2>5. CASE accepted'[u][j] # m
    <3>1. ASSUME NEW w \in Tasks, NEW a \in 1..Len(accepted'[w]), accepted'[w][a] # m
          PROVE  a \in 1..Len(accepted[w]) /\ accepted[w][a] = accepted'[w][a]
      BY <1>2, <1>3, <1>4, <3>1
    <3>2. /\ i \in 1..Len(accepted[u]) /\ accepted[u][i] = accepted'[u][i]
          /\ j \in 1..Len(accepted[u]) /\ accepted[u][j] = accepted'[u][j]
          /\ k \in 1..Len(accepted[v]) /\ accepted[v][k] = accepted'[v][k]
          /\ l \in 1..Len(accepted[v]) /\ accepted[v][l] = accepted'[v][l]
      BY <2>3, <2>5, <3>1
    <3> QED BY <3>2 DEF BroadcastInv, SameOrderEverywhere
  <2> QED BY <2>4, <2>5
<1> QED BY <1>5, <1>6, <1>7

\* A task accepts the message of a broadcast.
LEMMA SendKeepsBroadcasts ==
  ASSUME PoolInv, BroadcastInv, NEW c \in Callers, BroadcastSend(c),
         NEW u \in Urls, NEW g \in 1..GenBound, at[c] = <<u, g>>,
         NEW m \in Msgs, m = arg[c], NEW rest \in SUBSET Listed, rest = todo[c]
  PROVE  BroadcastInv'
<1>1. /\ Holding(c) /\ op[c] \in Broadcasts /\ Enqueue(<<u, g>>, m) /\ Advance(c, rest)
      /\ UNCHANGED issued
      /\ result' = IF op[c] = "publish" THEN [result EXCEPT ![m][u] = "ok"] ELSE result
  BY DEF BroadcastSend, Report
<1>2. <<u, g>> \in Tasks /\ <<u, g>> # NoTask /\ Listed \subseteq Urls
  BY TypesHold DEF Listed
<1>3. /\ IsNewest(m) /\ u \notin rest /\ NowhereIn(rest \union {u}, m)
      /\ m \in Events => op[c] = "publish"
  BY <1>1, <1>2 DEF BroadcastInv, BroadcastOK
<1>4. /\ SameOrderEverywhere' /\ IsNewest(m)'
      /\ \A t \in Tasks : \A x : Has(t, x)' <=> Has(t, x) \/ (t = <<u, g>> /\ x = m)
  BY <1>1, <1>2, <1>3, SendKeepsOrder
<1>5. NowhereIn(rest, m)'
  <2> SUFFICES ASSUME NEW v \in rest, NEW h \in 1..GenBound PROVE ~Has(<<v, h>>, m)'
    BY DEF NowhereIn
  <2>1. <<v, h>> \in Tasks /\ <<v, h>> # <<u, g>>
    BY <1>2, <1>3, TypesHold
  <2> QED BY <1>3, <1>4, <2>1 DEF NowhereIn
<1>6. (\A d \in Callers : BroadcastOK(d)') /\ UnissuedNowhere' /\ ArgsDiffer'
  BY <1>1, <1>4, <1>5, AdvanceKeepsBroadcasts
<1>7. ResultsExact'
  <2> SUFFICES ASSUME NEW e \in Events, NEW v \in Urls
               PROVE  result'[e][v] = "ok" <=> \E h \in 1..GenBound : Has(<<v, h>>, e)'
    BY DEF ResultsExact, Has
  <2>1. result[e][v] = "ok" <=> \E h \in 1..GenBound : Has(<<v, h>>, e)
    BY DEF BroadcastInv, ResultsExact, Has
  <2>2. \A h \in 1..GenBound : <<v, h>> \in Tasks
    BY TypesHold
  <2>3. CASE e = m /\ v = u
    <3>1. result'[e][v] = "ok"
      BY <1>1, <1>3, <2>3, TypesHold
    <3> QED BY <1>2, <1>4, <2>3, <3>1
  <2>4. CASE ~(e = m /\ v = u)
    <3>1. result'[e][v] = result[e][v]
      BY <1>1, <2>4, TypesHold
    <3>2. \A h \in 1..GenBound : Has(<<v, h>>, e)' <=> Has(<<v, h>>, e)
      BY <1>4, <2>2, <2>4
    <3> QED BY <2>1, <3>1, <3>2
  <2> QED BY <2>3, <2>4
<1> QED BY <1>4, <1>6, <1>7 DEF BroadcastInv

\* A task is gone, and the broadcast goes on without it.
LEMMA RefusalKeepsBroadcasts ==
  ASSUME PoolInv, BroadcastInv, NEW c \in Callers, BroadcastRefused(c),
         NEW u \in Urls, NEW g \in 1..GenBound, at[c] = <<u, g>>,
         NEW m \in Msgs, m = arg[c], NEW rest \in SUBSET Listed, rest = todo[c]
  PROVE  BroadcastInv'
<1>1. /\ Holding(c) /\ op[c] \in Broadcasts /\ Advance(c, rest)
      /\ UNCHANGED <<accepted, issued>>
      /\ result' = IF op[c] = "publish" THEN [result EXCEPT ![m][u] = "err"] ELSE result
  BY DEF BroadcastRefused, Report, taskVars
<1>2. <<u, g>> \in Tasks /\ <<u, g>> # NoTask
  BY TypesHold
<1>3. IsNewest(m) /\ NowhereIn(rest \union {u}, m)
  BY <1>1, <1>2 DEF BroadcastInv, BroadcastOK
<1>4. /\ \A t \in Tasks : \A x : x # m => (Has(t, x)' <=> Has(t, x))
      /\ IsNewest(m)' /\ NowhereIn(rest, m)'
  BY <1>1, <1>3 DEF Has, IsNewest, NowhereIn
<1>5. (\A d \in Callers : BroadcastOK(d)') /\ UnissuedNowhere' /\ ArgsDiffer'
  BY <1>1, <1>4, AdvanceKeepsBroadcasts
<1>6. ResultsExact'
  <2> SUFFICES ASSUME NEW e \in Events, NEW v \in Urls
               PROVE  result'[e][v] = "ok" <=> \E h \in 1..GenBound : Has(<<v, h>>, e)'
    BY DEF ResultsExact, Has
  <2>0. \A h \in 1..GenBound : Has(<<v, h>>, e)' <=> Has(<<v, h>>, e)
    BY <1>1 DEF Has
  <2>1. result[e][v] = "ok" <=> \E h \in 1..GenBound : Has(<<v, h>>, e)
    BY DEF BroadcastInv, ResultsExact, Has
  <2>2. CASE e = m /\ v = u
    <3>1. result[e][v] # "ok"
      BY <1>3, <2>1, <2>2 DEF NowhereIn
    <3>2. result'[e][v] # "ok"
      BY <1>1, <2>2, <3>1, TypesHold
    <3> QED BY <2>0, <2>1, <3>1, <3>2
  <2>3. CASE ~(e = m /\ v = u)
    <3>1. result'[e][v] = result[e][v]
      BY <1>1, <2>3, TypesHold
    <3> QED BY <2>0, <2>1, <3>1
  <2> QED BY <2>2, <2>3
<1>7. SameOrderEverywhere'
  BY <1>1 DEF BroadcastInv, SameOrderEverywhere
<1> QED BY <1>5, <1>6, <1>7 DEF BroadcastInv

(* Only a broadcast gives a task a message.                                *)
LEMMA OthersAcceptNothing ==
  ASSUME [Next]_vars,
         ~\E c \in Callers : \/ BroadcastBegin(c) \/ BroadcastSend(c) \/ BroadcastRefused(c)
                             \/ \E e \in Events : Publish(c, e)
                             \/ \E s \in SubIds : Subscribe(c, s) \/ Unsubscribe(c, s)
  PROVE  /\ UNCHANGED <<accepted, issued, result>>
         /\ \/ UNCHANGED <<op, arg, at, todo>>
            \/ \E c \in Callers :
                 \/ Release(c)
                 \/ /\ op[c] \in {"remove", "shutdown"} /\ UNCHANGED <<op, arg, todo>>
                    /\ \E x : at' = [at EXCEPT ![c] = x]
                 \/ /\ UNCHANGED <<at, todo>>
                    /\ \E o \in {"add", "remove", "shutdown"} : \E x :
                         op' = [op EXCEPT ![c] = o] /\ arg' = [arg EXCEPT ![c] = x]
<1> DEFINE Others == \E c \in Callers :
             \/ Release(c)
             \/ /\ op[c] \in {"remove", "shutdown"} /\ UNCHANGED <<op, arg, todo>>
                /\ \E x : at' = [at EXCEPT ![c] = x]
             \/ /\ UNCHANGED <<at, todo>>
                /\ \E o \in {"add", "remove", "shutdown"} : \E x :
                     op' = [op EXCEPT ![c] = o] /\ arg' = [arg EXCEPT ![c] = x]
           Silent == UNCHANGED <<accepted, issued, result>>
           Same == UNCHANGED <<op, arg, at, todo>>
<1>1. ASSUME NEW c \in Callers,
             \/ AddDuplicate(c) \/ AddSpawn(c) \/ RemoveMissing(c) \/ RemoveDrop(c)
             \/ ShutdownEnd(c) \/ Abandon(c)
      PROVE  Silent /\ Release(c)
  BY <1>1 DEF AddDuplicate, AddSpawn, RemoveMissing, RemoveDrop, ShutdownEnd, Abandon,
              SpawnRelay, DropHandle, taskVars
<1>2. ASSUME NEW c \in Callers, RemoveEvict(c) \/ ShutdownEvict(c) \/ ShutdownDrop(c)
      PROVE  Silent /\ Others
  BY <1>2 DEF RemoveEvict, ShutdownEvict, ShutdownDrop, Evict, SignalShutdown, DropHandle
<1>3. ASSUME NEW c \in Callers,
             (\E u \in Urls : AddRelay(c, u) \/ RemoveRelay(c, u)) \/ Shutdown(c)
      PROVE  Silent /\ Others
  BY <1>3 DEF AddRelay, RemoveRelay, Shutdown, Call, taskVars
<1>4. PoolEnd => Silent /\ Same
  BY DEF PoolEnd, DropPool, DropListed, DropEnd, DropHandle, DropReceiver, taskVars
<1>5. EventsStep => Silent /\ Same
  BY DEF EventsStep, TakeReceiver, Consume, DropReceiver, poolVars
<1>6. ASSUME NEW t \in Tasks, TaskStep(t), UNCHANGED poolVars PROVE Silent /\ Same
  <2>1. UNCHANGED accepted
    BY <1>6 DEF TaskStep, Start, BackoffElapsed, ShutdownInBackoff, ConnectOk, ConnectErr,
       SendOk, SendErr, WriteEnds, TakeOutgoing, ReadPing, PongEnds, SendersGone, ReadText, ForwardText, ReceiverGone,
       ConnectionLost, ShutdownWhileServing, Return, NoTraffic
  <2> QED BY <1>6, <2>1 DEF poolVars
<1>7. UNCHANGED vars => Silent /\ Same
  BY DEF vars, taskVars, poolVars
<1>8. (\E c \in Callers : Release(c)) => Others
  OBVIOUS
<1> HIDE DEF Others, Silent, Same
<1>9. Silent /\ (Same \/ Others)
  BY <1>1, <1>2, <1>3, <1>4, <1>5, <1>6, <1>7, <1>8 DEF Next, CallerStep, CallerCall
<1> QED BY <1>9 DEF Silent, Same, Others

\* Every step keeps what is known of broadcasts.
LEMMA BroadcastInvStep == PoolInv /\ BroadcastInv /\ [Next]_vars => BroadcastInv'
<1> SUFFICES ASSUME PoolInv, BroadcastInv, [Next]_vars PROVE BroadcastInv'
  OBVIOUS
<1>1. ASSUME NEW c \in Callers, BroadcastBegin(c) PROVE BroadcastInv'
  BY <1>1, BeginKeepsBroadcasts
<1>2. ASSUME NEW c \in Callers, BroadcastSend(c) \/ BroadcastRefused(c) PROVE BroadcastInv'
  <2>1. /\ at[c] # NoTask /\ op[c] \in Broadcasts
        /\ arg[c] \in Msgs /\ todo[c] \in SUBSET Listed
    BY <1>2 DEF BroadcastSend, BroadcastRefused, PoolInv, CallOK, NoStaleTarget
  <2>2. PICK u \in Urls, g \in 1..GenBound : at[c] = <<u, g>>
    BY <2>1, TargetIsTask
  <2> QED BY <1>2, <2>1, <2>2, SendKeepsBroadcasts, RefusalKeepsBroadcasts
<1>3. ASSUME NEW c \in Callers,
             \/ \E e \in Events : Publish(c, e)
             \/ \E s \in SubIds : Subscribe(c, s) \/ Unsubscribe(c, s)
      PROVE  BroadcastInv'
  <2> USE PoolAssumption DEF Broadcasts
  <2>1. ASSUME NEW e \in Events, Publish(c, e) PROVE BroadcastInv'
    BY <2>1, IssueKeepsBroadcasts DEF Publish
  <2>2. ASSUME NEW s \in SubIds, Subscribe(c, s) PROVE BroadcastInv'
    <3>1. Req(s) \in Msgs /\ Req(s) \notin Events /\ Issue(c, "subscribe", Req(s))
      BY <2>2 DEF Subscribe
    <3> QED BY <3>1, IssueKeepsBroadcasts
  <2>3. ASSUME NEW s \in SubIds, Unsubscribe(c, s) PROVE BroadcastInv'
    <3>1. Close(s) \in Msgs /\ Close(s) \notin Events /\ Issue(c, "unsubscribe", Close(s))
      BY <2>3 DEF Unsubscribe
    <3> QED BY <3>1, IssueKeepsBroadcasts
  <2> QED BY <1>3, <2>1, <2>2, <2>3
<1>4. CASE ~\E c \in Callers :
             \/ BroadcastBegin(c) \/ BroadcastSend(c) \/ BroadcastRefused(c)
             \/ \E e \in Events : Publish(c, e)
             \/ \E s \in SubIds : Subscribe(c, s) \/ Unsubscribe(c, s)
  <2>1. UNCHANGED <<accepted, issued, result>>
    BY <1>4, OthersAcceptNothing
  <2>2. ASSUME NEW d \in Callers
        PROVE  \/ op'[d] \notin Broadcasts
               \/ /\ op'[d] = op[d] /\ arg'[d] = arg[d]
                  /\ at'[d] = at[d] /\ todo'[d] = todo[d]
    <3>1. CASE UNCHANGED <<op, arg, at, todo>>
      BY <3>1
    <3>2. ASSUME NEW c \in Callers, Release(c)
          PROVE  \/ op'[d] \notin Broadcasts
                 \/ /\ op'[d] = op[d] /\ arg'[d] = arg[d]
                    /\ at'[d] = at[d] /\ todo'[d] = todo[d]
      BY <3>2, ReleaseEffect DEF Broadcasts
    <3>3. ASSUME NEW c \in Callers, op[c] \in {"remove", "shutdown"},
                 UNCHANGED <<op, arg, todo>>, NEW x, at' = [at EXCEPT ![c] = x]
          PROVE  \/ op'[d] \notin Broadcasts
                 \/ /\ op'[d] = op[d] /\ arg'[d] = arg[d]
                    /\ at'[d] = at[d] /\ todo'[d] = todo[d]
      BY <3>3, TypesHold DEF Broadcasts
    <3>4. ASSUME NEW c \in Callers, UNCHANGED <<at, todo>>,
                 NEW o \in {"add", "remove", "shutdown"}, NEW x,
                 op' = [op EXCEPT ![c] = o], arg' = [arg EXCEPT ![c] = x]
          PROVE  \/ op'[d] \notin Broadcasts
                 \/ /\ op'[d] = op[d] /\ arg'[d] = arg[d]
                    /\ at'[d] = at[d] /\ todo'[d] = todo[d]
      BY <3>4, TypesHold DEF Broadcasts
    <3> QED BY <1>4, <3>1, <3>2, <3>3, <3>4, OthersAcceptNothing
  <2> QED BY <2>1, <2>2, SameBroadcasts
<1> QED BY <1>1, <1>2, <1>3, <1>4

\* There are none at first.
LEMMA BroadcastInvInit == Init => BroadcastInv
<1> SUFFICES ASSUME Init PROVE BroadcastInv
  OBVIOUS
<1>1. \A t \in Tasks : accepted[t] = <<>>
  BY DEF Init, TaskInit
<1>2. \A t \in Tasks : \A m : ~Has(t, m)
  BY <1>1 DEF Has
<1>3. \A c \in Callers : BroadcastOK(c)
  BY DEF Init, BroadcastOK, Broadcasts
<1>4. UnissuedNowhere /\ ArgsDiffer
  BY <1>2 DEF Init, UnissuedNowhere, ArgsDiffer, Broadcasts
<1>5. SameOrderEverywhere
  BY <1>1 DEF SameOrderEverywhere
<1>6. ResultsExact
  <2>1. \A u \in Urls, g \in 1..GenBound : <<u, g>> \in Tasks
    BY PoolAssumption
  <2>2. \A e \in Events, u \in Urls : result[e][u] = "none"
    BY DEF Init
  <2> QED BY <1>2, <2>1, <2>2 DEF ResultsExact, Has
<1> QED BY <1>3, <1>4, <1>5, <1>6 DEF BroadcastInv

\* The invariant of broadcasts.
LEMMA BroadcastInvariant == Spec => []BroadcastInv
  BY BroadcastInvInit, BroadcastInvStep, PoolInvariant, PTL DEF Spec

(* Two relays accept the messages of all callers in one order, however     *)
(* many callers broadcast at once and whatever order the map iterates in.  *)
THEOREM PoolSameOrder == Spec => []SameOrderEverywhere
<1>1. BroadcastInv => SameOrderEverywhere BY DEF BroadcastInv
<1> QED BY <1>1, BroadcastInvariant, PTL

(* A result says ok exactly for the relays of which some task accepted the *)
(* event, also for calls that were dropped half-way.                       *)
THEOREM PoolResultsExact == Spec => []ResultsExact
<1>1. BroadcastInv => ResultsExact BY DEF BroadcastInv
<1> QED BY <1>1, BroadcastInvariant, PTL

=============================================================================
