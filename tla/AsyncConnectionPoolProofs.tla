----------------------- MODULE AsyncConnectionPoolProofs -----------------------
(***************************************************************************)
(* The asyncio pool accounts for its permits and never makes more than     *)
(* max_size connections, for any finite set of tasks, any size and any     *)
(* bounds, with a factory that is awaited and raises, cancelled tasks and  *)
(* releases that are repeated.                                             *)
(***************************************************************************)
EXTENDS AsyncConnectionPool, FiniteSetTheorems, SequenceTheorems, TLAPS

(* The tasks that have a permit and no connection yet. *)
OnTheWay == {t \in Tasks : pc[t] \in {"lock", "factory"}}

Counters == made \in Nat /\ failures \in Nat

(* The factory is awaited with the lock held, so that the pool is still as *)
(* empty as it was found.                                                  *)
FactoryAlone == \A t \in Tasks : pc[t] = "factory" => lock = t /\ pool = << >>

IInv == TypeOK /\ Counters /\ PermitsExact /\ PooledOrInUse /\ FactoryAlone

-----------------------------------------------------------------------------
(* Sizes, as the steps change them.                                        *)
LEMMA Sizes ==
    ASSUME IInv
    PROVE  /\ IsFiniteSet(in_use) /\ Cardinality(in_use) \in Nat
           /\ IsFiniteSet(OnTheWay) /\ Cardinality(OnTheWay) \in Nat
           /\ IsFiniteSet(Made) /\ Cardinality(Made) = made
           /\ permits + Cardinality(in_use) + failures + Cardinality(OnTheWay) = max_size
           /\ permits \in Nat /\ failures \in Nat /\ made \in Nat /\ max_size \in Nat
  <1>1. made \in Nat /\ failures \in Nat /\ permits \in Nat /\ max_size \in Nat
    BY Setting DEF IInv, Counters, TypeOK
  <1>2. IsFiniteSet(Made) /\ Cardinality(Made) = made
    BY <1>1, FS_Interval DEF Made
  <1>3. IsFiniteSet(in_use) /\ IsFiniteSet(OnTheWay)
    BY <1>2, FS_Subset, Setting DEF IInv, TypeOK, OnTheWay
  <1>4. Cardinality(in_use) \in Nat /\ Cardinality(OnTheWay) \in Nat
    BY <1>3, FS_CardinalityType
  <1>5. permits + Cardinality(in_use) + failures + Cardinality(OnTheWay) = max_size
    BY DEF IInv, PermitsExact, OnTheWay
  <1>6. QED BY <1>1, <1>2, <1>3, <1>4, <1>5

LEMMA TaskGoes ==
    ASSUME IInv, NEW t \in Tasks,
           NEW p \in {"idle", "semaphore", "lock", "factory", "release"},
           pc' = [pc EXCEPT ![t] = p]
    PROVE  /\ pc' \in [Tasks -> {"idle", "semaphore", "lock", "factory", "release"}]
           /\ pc'[t] = p /\ \A u \in Tasks : u # t => pc'[u] = pc[u]
           /\ t \in OnTheWay /\ p \notin {"lock", "factory"} =>
                 Cardinality(OnTheWay') = Cardinality(OnTheWay) - 1
           /\ t \notin OnTheWay /\ p \in {"lock", "factory"} =>
                 Cardinality(OnTheWay') = Cardinality(OnTheWay) + 1
           /\ (t \in OnTheWay <=> p \in {"lock", "factory"}) => OnTheWay' = OnTheWay
  <1>1. /\ pc' \in [Tasks -> {"idle", "semaphore", "lock", "factory", "release"}]
        /\ pc'[t] = p /\ \A u \in Tasks : u # t => pc'[u] = pc[u]
    BY DEF IInv, TypeOK
  <1>2. IsFiniteSet(OnTheWay)
    BY Sizes
  <1>3. ASSUME t \in OnTheWay, p \notin {"lock", "factory"}
        PROVE  Cardinality(OnTheWay') = Cardinality(OnTheWay) - 1
    <2>1. OnTheWay' = OnTheWay \ {t}
      BY <1>1, <1>3 DEF OnTheWay
    <2>2. QED BY <1>2, <1>3, <2>1, FS_RemoveElement
  <1>4. ASSUME t \notin OnTheWay, p \in {"lock", "factory"}
        PROVE  Cardinality(OnTheWay') = Cardinality(OnTheWay) + 1
    <2>1. OnTheWay' = OnTheWay \cup {t}
      BY <1>1, <1>4 DEF OnTheWay
    <2>2. QED BY <1>2, <1>4, <2>1, FS_AddElement
  <1>5. ASSUME t \in OnTheWay <=> p \in {"lock", "factory"}
        PROVE  OnTheWay' = OnTheWay
    BY <1>1, <1>5 DEF OnTheWay
  <1>6. QED BY <1>1, <1>3, <1>4, <1>5

-----------------------------------------------------------------------------
LEMMA AcquireKeeps ==
    ASSUME IInv, NEW t \in Tasks, acquire(t)
    PROVE  IInv'
  <1>1. /\ pc[t] = "idle" /\ pc' = [pc EXCEPT ![t] = "semaphore"]
        /\ UNCHANGED <<pool, in_use, permits, lock, releasing, made, failures>>
    BY DEF acquire
  <1>2. /\ pc' \in [Tasks -> {"idle", "semaphore", "lock", "factory", "release"}]
        /\ pc'[t] = "semaphore" /\ \A u \in Tasks : u # t => pc'[u] = pc[u]
        /\ OnTheWay' = OnTheWay
    BY <1>1, TaskGoes DEF OnTheWay
  <1>3. TypeOK' /\ Counters'
    BY <1>1, <1>2 DEF IInv, TypeOK, Counters, Made
  <1>4. PermitsExact'
    BY <1>1, <1>2 DEF IInv, PermitsExact, OnTheWay
  <1>5. PooledOrInUse' /\ FactoryAlone'
    BY <1>1, <1>2 DEF IInv, PooledOrInUse, FactoryAlone, Made
  <1>6. QED BY <1>3, <1>4, <1>5 DEF IInv

LEMMA SemaphoreKeeps ==
    ASSUME IInv, NEW t \in Tasks, semaphore_acquire(t)
    PROVE  IInv'
  <1>1. /\ pc[t] = "semaphore" /\ permits > 0 /\ permits' = permits - 1
        /\ pc' = [pc EXCEPT ![t] = "lock"]
        /\ UNCHANGED <<pool, in_use, lock, releasing, made, failures>>
    BY DEF semaphore_acquire
  <1>2. /\ pc' \in [Tasks -> {"idle", "semaphore", "lock", "factory", "release"}]
        /\ pc'[t] = "lock" /\ \A u \in Tasks : u # t => pc'[u] = pc[u]
        /\ Cardinality(OnTheWay') = Cardinality(OnTheWay) + 1
    BY <1>1, TaskGoes DEF OnTheWay
  <1>3. permits' \in 0 .. max_size
    BY <1>1, Setting DEF IInv, TypeOK
  <1>4. TypeOK' /\ Counters'
    BY <1>1, <1>2, <1>3 DEF IInv, TypeOK, Counters, Made
  <1>5. PermitsExact'
    <2>1. permits' + Cardinality(in_use') + failures' + Cardinality(OnTheWay') = max_size
      BY <1>1, <1>2, Sizes
    <2>2. QED BY <2>1 DEF PermitsExact, OnTheWay
  <1>6. PooledOrInUse' /\ FactoryAlone'
    BY <1>1, <1>2 DEF IInv, PooledOrInUse, FactoryAlone, Made
  <1>7. QED BY <1>4, <1>5, <1>6 DEF IInv

LEMMA TakePooledKeeps ==
    ASSUME IInv, NEW t \in Tasks, take_pooled(t)
    PROVE  IInv'
  <1>1. /\ pc[t] = "lock" /\ lock = NoTask /\ pool # << >>
        /\ pool' = Tail(pool) /\ in_use' = in_use \cup {Head(pool)}
        /\ pc' = [pc EXCEPT ![t] = "idle"]
        /\ UNCHANGED <<permits, lock, releasing, made, failures>>
    BY DEF take_pooled, Gets
  <1>2. /\ pc' \in [Tasks -> {"idle", "semaphore", "lock", "factory", "release"}]
        /\ pc'[t] = "idle" /\ \A u \in Tasks : u # t => pc'[u] = pc[u]
        /\ Cardinality(OnTheWay') = Cardinality(OnTheWay) - 1
    BY <1>1, TaskGoes DEF OnTheWay
  <1>3. pool \in Seq(Made) /\ in_use \subseteq Made
    BY DEF IInv, TypeOK
  <1>4. /\ Head(pool) \in Made /\ Tail(pool) \in Seq(Made)
        /\ Len(Tail(pool)) = Len(pool) - 1 /\ Len(pool) \in Nat /\ Len(pool) >= 1
        /\ \A i \in 1 .. Len(Tail(pool)) : Tail(pool)[i] = pool[i + 1]
        /\ Head(pool) = pool[1]
    BY <1>1, <1>3, HeadTailProperties, EmptySeq, LenProperties
  <1>5. Head(pool) \notin in_use
    BY <1>4 DEF IInv, PooledOrInUse
  <1>6. Cardinality(in_use') = Cardinality(in_use) + 1
    BY <1>1, <1>5, Sizes, FS_AddElement
  <1>7. in_use' \subseteq Made
    BY <1>1, <1>3, <1>4
  <1>8. TypeOK' /\ Counters'
    BY <1>1, <1>2, <1>4, <1>7 DEF IInv, TypeOK, Counters, Made
  <1>9. PermitsExact'
    <2>1. permits' + Cardinality(in_use') + failures' + Cardinality(OnTheWay') = max_size
      BY <1>1, <1>2, <1>6, Sizes
    <2>2. QED BY <2>1 DEF PermitsExact, OnTheWay
  <1>10. FactoryAlone'
    BY <1>1, <1>2, Setting DEF IInv, FactoryAlone
  <1>11. PooledOrInUse'
    <2>1. Made' = Made
      BY <1>1 DEF Made
    <2>2. \A i \in 1 .. Len(pool') : i + 1 \in 1 .. Len(pool) /\ pool'[i] = pool[i + 1]
      BY <1>1, <1>4
    <2>3. ASSUME NEW conn \in Made, conn \notin in_use'
          PROVE  \E i \in 1 .. Len(pool') : pool'[i] = conn
      <3>1. PICK i \in 1 .. Len(pool) : pool[i] = conn
        BY <1>1, <2>3 DEF IInv, PooledOrInUse
      <3>2. i # 1
        BY <1>1, <1>4, <2>3, <3>1
      <3>3. i - 1 \in 1 .. Len(pool') /\ (i - 1) + 1 = i
        BY <1>1, <1>4, <3>1, <3>2
      <3>4. QED BY <2>2, <3>1, <3>3
    <2>4. ASSUME NEW i \in 1 .. Len(pool'), NEW j \in 1 .. Len(pool'), pool'[i] = pool'[j]
          PROVE  i = j
      <3>1. i + 1 = j + 1
        BY <2>2, <2>4 DEF IInv, PooledOrInUse
      <3>2. QED BY <3>1
    <2>5. ASSUME NEW i \in 1 .. Len(pool')
          PROVE  pool'[i] \notin in_use'
      <3>1. pool'[i] = pool[i + 1] /\ i + 1 \in 1 .. Len(pool) /\ i + 1 # 1 /\ 1 \in 1 .. Len(pool)
        BY <1>4, <2>2
      <3>2. pool'[i] # pool[1] /\ pool'[i] \notin in_use
        BY <3>1 DEF IInv, PooledOrInUse
      <3>3. QED BY <1>1, <1>4, <3>2
    <2>6. QED BY <2>1, <2>3, <2>4, <2>5 DEF PooledOrInUse
  <1>12. QED BY <1>8, <1>9, <1>10, <1>11 DEF IInv

LEMMA AwaitFactoryKeeps ==
    ASSUME IInv, NEW t \in Tasks, await_factory(t)
    PROVE  IInv'
  <1>1. /\ pc[t] = "lock" /\ lock = NoTask /\ pool = << >> /\ lock' = t
        /\ pc' = [pc EXCEPT ![t] = "factory"]
        /\ UNCHANGED <<pool, in_use, permits, releasing, made, failures>>
    BY DEF await_factory
  <1>2. /\ pc' \in [Tasks -> {"idle", "semaphore", "lock", "factory", "release"}]
        /\ pc'[t] = "factory" /\ \A u \in Tasks : u # t => pc'[u] = pc[u]
        /\ OnTheWay' = OnTheWay
    BY <1>1, TaskGoes DEF OnTheWay
  <1>3. TypeOK' /\ Counters'
    BY <1>1, <1>2 DEF IInv, TypeOK, Counters, Made
  <1>4. PermitsExact'
    BY <1>1, <1>2 DEF IInv, PermitsExact, OnTheWay
  <1>5. PooledOrInUse'
    BY <1>1 DEF IInv, PooledOrInUse, Made
  <1>6. FactoryAlone'
    BY <1>1, <1>2, Setting DEF IInv, FactoryAlone
  <1>7. QED BY <1>3, <1>4, <1>5, <1>6 DEF IInv

(* With the pool empty every connection is in use, and the permit of this  *)
(* task is one more: there is room for one.                                *)
LEMMA FactoryReturnsKeeps ==
    ASSUME IInv, NEW t \in Tasks, factory_returns(t)
    PROVE  IInv'
  <1> DEFINE new == made + 1
  <1>1. /\ pc[t] = "factory" /\ made' = new
        /\ in_use' = in_use \cup {new} /\ lock' = NoTask
        /\ pc' = [pc EXCEPT ![t] = "idle"]
        /\ UNCHANGED <<pool, permits, releasing, failures>>
    BY DEF factory_returns, Gets
  <1>2. /\ pc' \in [Tasks -> {"idle", "semaphore", "lock", "factory", "release"}]
        /\ pc'[t] = "idle" /\ \A u \in Tasks : u # t => pc'[u] = pc[u]
        /\ Cardinality(OnTheWay') = Cardinality(OnTheWay) - 1
    BY <1>1, TaskGoes DEF OnTheWay
  <1>3. lock = t /\ pool = << >> /\ Len(pool) = 0
    BY <1>1, EmptySeq DEF IInv, FactoryAlone
  <1>4. in_use = Made
    <2>1. in_use \subseteq Made
      BY DEF IInv, TypeOK
    <2>2. \A conn \in Made : conn \in in_use
      BY <1>3 DEF IInv, PooledOrInUse
    <2>3. QED BY <2>1, <2>2
  <1>5. made \in Nat /\ new \in Nat /\ new \notin Made
        /\ Made' = Made \cup {new} /\ Made \subseteq Made'
    <2>1. made \in Nat
      BY DEF IInv, Counters
    <2>2. QED BY <1>1, <2>1 DEF Made
  <1>6. Cardinality(in_use') = Cardinality(in_use) + 1
    BY <1>1, <1>4, <1>5, Sizes, FS_AddElement
  <1>7. new <= max_size
    <2>1. Cardinality(OnTheWay) # 0
      <3>1. t \in OnTheWay
        BY <1>1 DEF OnTheWay
      <3>2. QED BY <3>1, Sizes, FS_EmptySet
    <2>2. Cardinality(in_use) = made
      BY <1>4, Sizes
    <2>3. /\ permits \in Nat /\ made \in Nat /\ failures \in Nat /\ max_size \in Nat
          /\ Cardinality(OnTheWay) \in Nat
          /\ permits + made + failures + Cardinality(OnTheWay) = max_size
      BY <2>2, Sizes
    <2>4. QED BY <2>1, <2>3
  <1> HIDE DEF new
  <1>8. TypeOK'
    <2>1. pool' \in Seq(Made')
      BY <1>1, <1>3, EmptySeq
    <2>2. in_use' \subseteq Made' /\ made' <= max_size
      BY <1>1, <1>4, <1>5, <1>7
    <2>3. releasing' \in [Tasks -> Made' \cup {NoConnection}]
      BY <1>1, <1>5 DEF IInv, TypeOK
    <2>4. QED BY <1>1, <1>2, <2>1, <2>2, <2>3 DEF IInv, TypeOK
  <1>9. PermitsExact'
    <2>1. permits' + Cardinality(in_use') + failures' + Cardinality(OnTheWay') = max_size
      BY <1>1, <1>2, <1>6, Sizes
    <2>2. QED BY <2>1 DEF PermitsExact, OnTheWay
  <1>10. Counters' /\ PooledOrInUse'
    BY <1>1, <1>3, <1>4, <1>5 DEF IInv, Counters, PooledOrInUse
  <1>11. FactoryAlone'
    BY <1>1, <1>2, <1>3 DEF IInv, FactoryAlone
  <1>12. QED BY <1>8, <1>9, <1>10, <1>11 DEF IInv

LEMMA AcquireFailsKeeps ==
    ASSUME IInv, NEW t \in Tasks, acquire_fails(t)
    PROVE  IInv'
  <1>1. /\ pc[t] \in {"lock", "factory"} /\ failures' = failures + 1
        /\ lock' = IF lock = t THEN NoTask ELSE lock
        /\ pc' = [pc EXCEPT ![t] = "idle"]
        /\ UNCHANGED <<pool, in_use, permits, releasing, made>>
    BY DEF acquire_fails
  <1>2. /\ pc' \in [Tasks -> {"idle", "semaphore", "lock", "factory", "release"}]
        /\ pc'[t] = "idle" /\ \A u \in Tasks : u # t => pc'[u] = pc[u]
        /\ Cardinality(OnTheWay') = Cardinality(OnTheWay) - 1
    BY <1>1, TaskGoes DEF OnTheWay
  <1>3. TypeOK' /\ Counters'
    BY <1>1, <1>2 DEF IInv, TypeOK, Counters, Made
  <1>4. PermitsExact'
    <2>1. permits' + Cardinality(in_use') + failures' + Cardinality(OnTheWay') = max_size
      BY <1>1, <1>2, Sizes
    <2>2. QED BY <2>1 DEF PermitsExact, OnTheWay
  <1>5. PooledOrInUse'
    BY <1>1 DEF IInv, PooledOrInUse, Made
  <1>6. FactoryAlone'
    BY <1>1, <1>2 DEF IInv, FactoryAlone
  <1>7. QED BY <1>3, <1>4, <1>5, <1>6 DEF IInv

LEMMA ReleaseKeeps ==
    ASSUME IInv, NEW t \in Tasks, NEW conn \in Made, release(t, conn)
    PROVE  IInv'
  <1>1. /\ pc[t] = "idle" /\ releasing' = [releasing EXCEPT ![t] = conn]
        /\ pc' = [pc EXCEPT ![t] = "release"]
        /\ UNCHANGED <<pool, in_use, permits, lock, made, failures>>
    BY DEF release
  <1>2. /\ pc' \in [Tasks -> {"idle", "semaphore", "lock", "factory", "release"}]
        /\ pc'[t] = "release" /\ \A u \in Tasks : u # t => pc'[u] = pc[u]
        /\ OnTheWay' = OnTheWay
    BY <1>1, TaskGoes DEF OnTheWay
  <1>3. TypeOK' /\ Counters'
    BY <1>1, <1>2 DEF IInv, TypeOK, Counters, Made
  <1>4. PermitsExact'
    BY <1>1, <1>2 DEF IInv, PermitsExact, OnTheWay
  <1>5. PooledOrInUse' /\ FactoryAlone'
    BY <1>1, <1>2 DEF IInv, PooledOrInUse, FactoryAlone, Made
  <1>6. QED BY <1>3, <1>4, <1>5 DEF IInv

LEMMA PutBackKeeps ==
    ASSUME IInv, NEW t \in Tasks, put_back(t)
    PROVE  IInv'
  <1> DEFINE conn == releasing[t]
  <1>1. /\ pc[t] = "release" /\ lock = NoTask
        /\ pc' = [pc EXCEPT ![t] = "idle"]
        /\ releasing' = [releasing EXCEPT ![t] = NoConnection]
        /\ UNCHANGED <<lock, made, failures>>
    BY DEF put_back, Released
  <1>2. /\ pc' \in [Tasks -> {"idle", "semaphore", "lock", "factory", "release"}]
        /\ pc'[t] = "idle" /\ \A u \in Tasks : u # t => pc'[u] = pc[u]
        /\ OnTheWay' = OnTheWay
    BY <1>1, TaskGoes DEF OnTheWay
  <1>3. /\ pool \in Seq(Made) /\ in_use \subseteq Made /\ Made' = Made
        /\ releasing' \in [Tasks -> Made \cup {NoConnection}]
    BY <1>1 DEF IInv, TypeOK, Made
  <1>4. Counters' /\ FactoryAlone'
    BY <1>1, <1>2, Setting DEF IInv, Counters, FactoryAlone
  <1>5. CASE conn \notin in_use
    <2>1. UNCHANGED <<in_use, pool, permits>>
      BY <1>5 DEF put_back
    <2>2. TypeOK'
      BY <1>1, <1>2, <1>3, <2>1 DEF IInv, TypeOK
    <2>3. PermitsExact'
      BY <1>1, <1>2, <2>1 DEF IInv, PermitsExact, OnTheWay
    <2>4. PooledOrInUse'
      BY <1>3, <2>1 DEF IInv, PooledOrInUse
    <2>5. QED BY <1>4, <2>2, <2>3, <2>4 DEF IInv
  <1>6. CASE conn \in in_use
    <2>1. /\ in_use' = in_use \ {conn} /\ pool' = Append(pool, conn) /\ permits' = permits + 1
      BY <1>6 DEF put_back
    <2> HIDE DEF conn
    <2>2. Cardinality(in_use') = Cardinality(in_use) - 1
      BY <1>6, <2>1, Sizes, FS_RemoveElement
    <2>3. /\ pool' \in Seq(Made) /\ Len(pool') = Len(pool) + 1 /\ Len(pool) \in Nat
          /\ \A i \in 1 .. Len(pool) : pool'[i] = pool[i]
          /\ pool'[Len(pool) + 1] = conn
      BY <1>3, <1>6, <2>1, AppendProperties, LenProperties
    <2>4. permits' + Cardinality(in_use') + failures' + Cardinality(OnTheWay') = max_size
      BY <1>1, <1>2, <2>1, <2>2, Sizes
    <2>5. PermitsExact'
      BY <2>4 DEF PermitsExact, OnTheWay
    <2>6. permits' \in 0 .. max_size
      <3>1. Cardinality(in_use') \in Nat
        BY <2>1, Sizes, FS_RemoveElement, FS_CardinalityType
      <3>2. /\ permits \in Nat /\ failures' \in Nat /\ Cardinality(OnTheWay') \in Nat
            /\ max_size \in Nat
        BY <1>1, <1>2, Sizes
      <3>3. QED BY <2>1, <2>4, <3>1, <3>2
    <2>7. TypeOK'
      <3>1. in_use' \subseteq Made'
        BY <1>3, <2>1
      <3>2. QED BY <1>1, <1>2, <1>3, <2>3, <2>6, <3>1 DEF IInv, TypeOK
    <2>8. PooledOrInUse'
      <3>1. \A i \in 1 .. Len(pool') : i \in 1 .. Len(pool) \/ i = Len(pool) + 1
        BY <2>3
      <3>2. \A i \in 1 .. Len(pool) : pool[i] # conn
        BY <1>6 DEF IInv, PooledOrInUse
      <3>3. ASSUME NEW c \in Made, c \notin in_use'
            PROVE  \E i \in 1 .. Len(pool') : pool'[i] = c
        <4>1. CASE c = conn
          BY <2>3, <4>1
        <4>2. CASE c # conn
          <5>1. PICK i \in 1 .. Len(pool) : pool[i] = c
            BY <2>1, <3>3, <4>2 DEF IInv, PooledOrInUse
          <5>2. i \in 1 .. Len(pool')
            BY <2>3, <5>1
          <5>3. QED BY <2>3, <5>1, <5>2
        <4>3. QED BY <4>1, <4>2
      <3>4. \A i, j \in 1 .. Len(pool') : pool'[i] = pool'[j] => i = j
        BY <2>3, <3>1, <3>2 DEF IInv, PooledOrInUse
      <3>5. \A i \in 1 .. Len(pool') : pool'[i] \notin in_use'
        BY <2>1, <2>3, <3>1 DEF IInv, PooledOrInUse
      <3>6. QED BY <1>3, <3>3, <3>4, <3>5 DEF PooledOrInUse
    <2>9. QED BY <1>4, <2>5, <2>7, <2>8 DEF IInv
  <1>7. QED BY <1>5, <1>6

-----------------------------------------------------------------------------
LEMMA InvInit ==
    ASSUME Init
    PROVE  IInv
  <1>1. /\ Len(pool) = 0 /\ pool \in Seq(Made) /\ in_use = {} /\ Made = {}
    BY EmptySeq DEF Init, Made
  <1>2. TypeOK
    BY <1>1, Setting DEF Init, TypeOK
  <1>3. Counters /\ PooledOrInUse /\ FactoryAlone
    BY <1>1 DEF Init, Counters, PooledOrInUse, FactoryAlone
  <1>4. PermitsExact
    <2>1. {t \in Tasks : pc[t] \in {"lock", "factory"}} = {}
      BY DEF Init
    <2>2. permits = max_size /\ in_use = {} /\ failures = 0 /\ max_size \in Nat
      BY Setting DEF Init
    <2>3. Cardinality({}) = 0
      BY FS_EmptySet
    <2>4. max_size + 0 + 0 + 0 = max_size
      BY <2>2
    <2>5. QED BY <2>1, <2>2, <2>3, <2>4, Zenon DEF PermitsExact
  <1>5. QED BY <1>2, <1>3, <1>4 DEF IInv

LEMMA InvNext ==
    ASSUME IInv, [Next]_vars
    PROVE  IInv'
  <1>1. CASE Next
    BY <1>1, AcquireKeeps, SemaphoreKeeps, TakePooledKeeps, AwaitFactoryKeeps,
       FactoryReturnsKeeps, AcquireFailsKeeps, PutBackKeeps, ReleaseKeeps DEF Next
  <1>2. CASE UNCHANGED vars
    BY <1>2 DEF vars, IInv, TypeOK, Counters, PermitsExact, PooledOrInUse, FactoryAlone, Made
  <1>3. QED BY <1>1, <1>2

(* Every permit is free, with a connection in use, with a task on its way  *)
(* to one, or lost to an acquire that failed; the pool never makes more    *)
(* than max_size connections; and each one it made is pooled, once, or in  *)
(* use, never both (AsyncConnectionPool.acquire, release).                 *)
THEOREM PermitsAccountedFor == Spec => []PoolKeepsPermits
  <1>1. Init => IInv
    BY InvInit
  <1>2. IInv /\ [Next]_vars => IInv'
    BY InvNext
  <1>3. IInv => PoolKeepsPermits
    BY DEF IInv, PoolKeepsPermits
  <1>4. QED BY <1>1, <1>2, <1>3, PTL DEF Spec
===============================================================================
