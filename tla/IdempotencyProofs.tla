-------------------------- MODULE IdempotencyProofs --------------------------
(***************************************************************************)
(* What the idempotency middleware guarantees for any number of keys,      *)
(* requests and faults, and for either number of installed layers.         *)
(***************************************************************************)
EXTENDS Idempotency, TLAPS

\* A holder of the lock is a request between Acquire and ReleaseLock; the lock
\* is set as long as there is one, so Acquire finds it free only without one.
HolderHasLock == \A r \in Requests : Holding(r) => lock[KeyOf[r]]

\* Only a holder gets as far as deleting the lock.
StoringHolds == \A r \in Requests : pc[r] = "storing" => held[r] > 0

\* Two requests run the handler only one after the other, because without a
\* fault nobody passes the middleware without the lock.
ReadyHolds == \A r \in Requests :
    (pc[r] = "ready" /\ KeyOf[r] \notin spoilt) => held[r] > 0

\* A disconnected client has spoilt its key.
GoneSpoilt == \A r \in gone : KeyOf[r] \in spoilt

\* A request passes Layers middlewares at most.
LayerBound == \A r \in Requests :
    pc[r] \in {"waiting", "entering"} => layer[r] < Layers[KeyOf[r]]

LockInv == /\ TypeOK
           /\ LayerBound
           /\ HolderHasLock
           /\ OneHolder
           /\ StoringHolds
           /\ GoneSpoilt
           /\ ReadyHolds
           /\ NoLockLeft
           /\ ReplayIsGenuine

USE KeyOfAssumption, LayersAssumption, MaxFaultsAssumption, NobodyAssumption

\* Initially no request is inside and Redis is empty.
LEMMA LockInvInit == Init => LockInv
  BY DEF Init, LockInv, TypeOK, LayerBound, HolderHasLock, OneHolder, StoringHolds,
         GoneSpoilt, ReadyHolds, NoLockLeft, ReplayIsGenuine, Holding

\* Every step preserves the types and the bound on the layers.
LEMMA TypeStep == TypeOK /\ LayerBound /\ [Next]_vars => TypeOK' /\ LayerBound'
<1> SUFFICES ASSUME TypeOK, LayerBound, [Next]_vars
             PROVE  TypeOK' /\ LayerBound'
  OBVIOUS
<1> USE DEF TypeOK, LayerBound, Reach, Fault, Inner
<1>1. ASSUME NEW r \in Requests, Arrive(r) PROVE TypeOK' /\ LayerBound'
  BY <1>1 DEF Arrive
<1>2. ASSUME NEW r \in Requests, Acquire(r) PROVE TypeOK' /\ LayerBound'
  <2>1. layer[r] < Layers[KeyOf[r]] /\ Layers[KeyOf[r]] \in {1, 2}
    BY <1>2 DEF Acquire
  <2> QED BY <1>2, <2>1 DEF Acquire
<1>3. ASSUME NEW r \in Requests, FailOpen(r) PROVE TypeOK' /\ LayerBound'
  <2>1. layer[r] < Layers[KeyOf[r]] /\ Layers[KeyOf[r]] \in {1, 2}
    BY <1>3 DEF FailOpen
  <2>2. lock' = lock \/ lock' = [lock EXCEPT ![KeyOf[r]] = TRUE]
    BY <1>3 DEF FailOpen
  <2>3. lock' \in [Keys -> BOOLEAN]
    BY <2>2
  <2>4. spoilt' \subseteq Keys /\ faults' \in Nat
    BY <1>3 DEF FailOpen
  <2>5. /\ layer' \in [Requests -> 0 .. 2]
        /\ pc' \in [Requests -> {"waiting", "entering", "denied", "ready", "leaving", "storing", "over"}]
    BY <1>3, <2>1 DEF FailOpen
  <2>6. LayerBound'
    BY <1>3, <2>1 DEF FailOpen
  <2> QED BY <1>3, <2>3, <2>4, <2>5, <2>6 DEF FailOpen
<1>4. ASSUME NEW r \in Requests, Deny(r) PROVE TypeOK' /\ LayerBound'
  BY <1>4 DEF Deny
<1>5. ASSUME NEW r \in Requests, Replay(r) PROVE TypeOK' /\ LayerBound'
  BY <1>5 DEF Replay
<1>6. ASSUME NEW r \in Requests, Conflict(r) PROVE TypeOK' /\ LayerBound'
  BY <1>6 DEF Conflict
<1>7. ASSUME NEW r \in Requests, RunHandler(r) PROVE TypeOK' /\ LayerBound'
  BY <1>7 DEF RunHandler
<1>8. ASSUME NEW r \in Requests, Panic(r) PROVE TypeOK' /\ LayerBound'
  BY <1>8 DEF Panic
<1>9. ASSUME NEW r \in Requests, StoreResponse(r) PROVE TypeOK' /\ LayerBound'
  BY <1>9 DEF StoreResponse
<1>10. ASSUME NEW r \in Requests, ReleaseLock(r) PROVE TypeOK' /\ LayerBound'
  <2>1. lock' = lock \/ lock' = [lock EXCEPT ![KeyOf[r]] = FALSE]
    BY <1>10 DEF ReleaseLock
  <2>2. lock' \in [Keys -> BOOLEAN]
    BY <2>1
  <2>3. spoilt' \subseteq Keys /\ faults' \in Nat
    BY <1>10 DEF ReleaseLock
  <2>4. LayerBound' /\ pc' = [pc EXCEPT ![r] = "over"] /\ held' = [held EXCEPT ![r] = 0]
    BY <1>10 DEF ReleaseLock
  <2> QED BY <1>10, <2>2, <2>3, <2>4 DEF ReleaseLock
<1>11. ASSUME NEW r \in Requests, Disconnect(r) PROVE TypeOK' /\ LayerBound'
  BY <1>11 DEF Disconnect
<1>12. CASE UNCHANGED vars
  BY <1>12 DEF vars
<1> QED BY <1>1, <1>2, <1>3, <1>4, <1>5, <1>6, <1>7, <1>8, <1>9, <1>10, <1>11, <1>12
        DEF Next, Step

\* Every step preserves the lock discipline. Only the holder deletes the lock,
\* and it can be acquired only when it is free, that is, when nobody holds it.
LEMMA LockStep == LockInv /\ [Next]_vars => HolderHasLock' /\ OneHolder' /\ StoringHolds'
<1> SUFFICES ASSUME LockInv, [Next]_vars
             PROVE  HolderHasLock' /\ OneHolder' /\ StoringHolds'
  OBVIOUS
<1> USE DEF LockInv, TypeOK, HolderHasLock, OneHolder, StoringHolds, Holding, Reach, Fault
<1>1. ASSUME NEW r \in Requests, Arrive(r) \/ Deny(r) \/ Replay(r) \/ Conflict(r) \/ RunHandler(r)
                                 \/ Panic(r) \/ Disconnect(r)
      PROVE  HolderHasLock' /\ OneHolder' /\ StoringHolds'
  <2>1. lock' = lock /\ held' = held
    BY <1>1 DEF Arrive, Deny, Replay, Conflict, RunHandler, Panic, Disconnect
  <2>2. \A s \in Requests : /\ pc[s] = "over" => pc'[s] = "over"
                            /\ pc'[s] = "storing" => pc[s] = "storing"
    BY <1>1 DEF Arrive, Deny, Replay, Conflict, RunHandler, Panic, Disconnect
  <2> QED BY <2>1, <2>2
<1>2. ASSUME NEW r \in Requests, Acquire(r)
      PROVE  HolderHasLock' /\ OneHolder' /\ StoringHolds'
  <2>1. \A s \in Requests : Holding(s) => KeyOf[s] # KeyOf[r]
    BY <1>2 DEF Acquire
  <2>2. \A s \in Requests \ {r} : held'[s] = held[s] /\ pc'[s] = pc[s]
    BY <1>2 DEF Acquire
  <2>3. pc'[r] # "storing" /\ lock' = [lock EXCEPT ![KeyOf[r]] = TRUE]
    BY <1>2 DEF Acquire
  <2>4. HolderHasLock'
    BY <2>2, <2>3
  <2>5. OneHolder'
    BY <2>1, <2>2
  <2> QED BY <2>2, <2>3, <2>4, <2>5
<1>3. ASSUME NEW r \in Requests, FailOpen(r)
      PROVE  HolderHasLock' /\ OneHolder' /\ StoringHolds'
  <2>1. held' = held /\ \A k \in Keys : lock[k] => lock'[k]
    BY <1>3 DEF FailOpen
  <2>2. \A s \in Requests : /\ pc'[s] # "over" => pc[s] # "over"
                            /\ pc'[s] = "storing" => pc[s] = "storing"
    BY <1>3 DEF FailOpen
  <2> QED BY <2>1, <2>2
<1>4. ASSUME NEW r \in Requests, StoreResponse(r)
      PROVE  HolderHasLock' /\ OneHolder' /\ StoringHolds'
  <2>1. lock' = lock /\ held' = held
    BY <1>4 DEF StoreResponse
  <2>2. \A s \in Requests : /\ pc'[s] # "over" => pc[s] # "over"
                            /\ pc'[s] = "storing" => held[s] > 0
    BY <1>4 DEF StoreResponse
  <2> QED BY <2>1, <2>2
<1>5. ASSUME NEW r \in Requests, ReleaseLock(r)
      PROVE  HolderHasLock' /\ OneHolder' /\ StoringHolds'
  <2>1. Holding(r) /\ ~Holding(r)' /\ pc'[r] = "over"
    BY <1>5 DEF ReleaseLock
  <2>2. \A s \in Requests \ {r} : held'[s] = held[s] /\ pc'[s] = pc[s]
    BY <1>5 DEF ReleaseLock
  <2>3. \A s \in Requests \ {r} : Holding(s) => KeyOf[s] # KeyOf[r] /\ lock'[KeyOf[s]] = lock[KeyOf[s]]
    BY <1>5, <2>1 DEF ReleaseLock
  <2> QED BY <2>1, <2>2, <2>3
<1>6. CASE UNCHANGED vars
  BY <1>6 DEF vars
<1> QED BY <1>1, <1>2, <1>3, <1>4, <1>5, <1>6 DEF Next, Step

\* Every step preserves what holds of keys without a fault: whoever runs the
\* handler holds the lock, and a lock that is set has a holder.
LEMMA SoundKeyStep == LockInv /\ [Next]_vars => GoneSpoilt' /\ ReadyHolds' /\ NoLockLeft'
<1> SUFFICES ASSUME LockInv, [Next]_vars
             PROVE  GoneSpoilt' /\ ReadyHolds' /\ NoLockLeft'
  OBVIOUS
<1> USE DEF LockInv, TypeOK, GoneSpoilt, ReadyHolds, NoLockLeft, Holding, Reach, Fault
<1>1. ASSUME NEW r \in Requests, Arrive(r) \/ Deny(r) \/ Replay(r) \/ Conflict(r) \/ RunHandler(r)
                                 \/ Disconnect(r)
      PROVE  GoneSpoilt' /\ ReadyHolds' /\ NoLockLeft'
  <2>1. lock' = lock /\ held' = held /\ spoilt \subseteq spoilt'
    BY <1>1 DEF Arrive, Deny, Replay, Conflict, RunHandler, Disconnect
  <2>2. \A s \in Requests : /\ pc[s] # "over" => pc'[s] # "over"
                            /\ pc'[s] = "ready" => pc[s] = "ready"
    BY <1>1 DEF Arrive, Deny, Replay, Conflict, RunHandler, Disconnect
  <2>3. GoneSpoilt'
    BY <1>1 DEF Arrive, Deny, Replay, Conflict, RunHandler, Disconnect
  <2>4. ReadyHolds'
    BY <2>1, <2>2
  <2>5. NoLockLeft'
    BY <2>1, <2>2
  <2> QED BY <2>3, <2>4, <2>5
<1>2. ASSUME NEW r \in Requests, Acquire(r)
      PROVE  GoneSpoilt' /\ ReadyHolds' /\ NoLockLeft'
  <2>1. Holding(r)' /\ spoilt' = spoilt /\ gone' = gone
    BY <1>2 DEF Acquire
  <2>2. \A s \in Requests \ {r} : held'[s] = held[s] /\ pc'[s] = pc[s]
    BY <1>2 DEF Acquire
  <2>3. \A k \in Keys : lock'[k] => lock[k] \/ k = KeyOf[r]
    BY <1>2 DEF Acquire
  <2>4. \A s \in Requests : Holding(s) => Holding(s)'
    BY <2>1, <2>2
  <2> QED BY <2>1, <2>2, <2>3, <2>4
<1>3. ASSUME NEW r \in Requests, FailOpen(r)
      PROVE  GoneSpoilt' /\ ReadyHolds' /\ NoLockLeft'
  <2>1. held' = held /\ gone' = gone /\ spoilt \subseteq spoilt' /\ KeyOf[r] \in spoilt'
    BY <1>3 DEF FailOpen
  <2>2. \A s \in Requests \ {r} : pc'[s] = pc[s]
    BY <1>3 DEF FailOpen
  <2>3. \A k \in Keys \ {KeyOf[r]} : lock'[k] = lock[k]
    BY <1>3 DEF FailOpen
  <2>4. NoLockLeft'
    BY <2>1, <2>2, <2>3
  <2> QED BY <2>1, <2>2, <2>4
<1>4. ASSUME NEW r \in Requests, Panic(r)
      PROVE  GoneSpoilt' /\ ReadyHolds' /\ NoLockLeft'
  <2>1. lock' = lock /\ held' = held /\ gone' = gone /\ spoilt' = spoilt \cup {KeyOf[r]}
    BY <1>4 DEF Panic
  <2>2. \A s \in Requests \ {r} : pc'[s] = pc[s]
    BY <1>4 DEF Panic
  <2> QED BY <2>1, <2>2
<1>5. ASSUME NEW r \in Requests, StoreResponse(r)
      PROVE  GoneSpoilt' /\ ReadyHolds' /\ NoLockLeft'
  <2>1. lock' = lock /\ held' = held /\ gone' = gone /\ spoilt \subseteq spoilt'
    BY <1>5 DEF StoreResponse
  <2>2. \A s \in Requests : /\ Holding(s) => pc'[s] # "over"
                            /\ pc'[s] = "ready" => pc[s] = "ready"
    BY <1>5 DEF StoreResponse
  <2>3. NoLockLeft'
    BY <2>1, <2>2
  <2> QED BY <2>1, <2>2, <2>3
<1>6. ASSUME NEW r \in Requests, ReleaseLock(r)
      PROVE  GoneSpoilt' /\ ReadyHolds' /\ NoLockLeft'
  <2>1. gone' = gone /\ spoilt \subseteq spoilt' /\ pc'[r] = "over"
    BY <1>6 DEF ReleaseLock
  <2>2. \A s \in Requests \ {r} : held'[s] = held[s] /\ pc'[s] = pc[s]
    BY <1>6 DEF ReleaseLock
  <2>3. KeyOf[r] \in spoilt' \/ ~lock'[KeyOf[r]]
    BY <1>6 DEF ReleaseLock
  <2>4. \A k \in Keys \ {KeyOf[r]} : lock'[k] = lock[k]
    BY <1>6 DEF ReleaseLock
  <2>5. NoLockLeft'
    BY <2>1, <2>2, <2>3, <2>4
  <2> QED BY <2>1, <2>2, <2>5
<1>7. CASE UNCHANGED vars
  BY <1>7 DEF vars
<1> QED BY <1>1, <1>2, <1>3, <1>4, <1>5, <1>6, <1>7 DEF Next, Step

\* Every step preserves the origin of cached and replayed responses.
LEMMA ReplayStep == LockInv /\ [Next]_vars => ReplayIsGenuine'
<1> SUFFICES ASSUME LockInv, [Next]_vars
             PROVE  ReplayIsGenuine'
  OBVIOUS
<1> USE DEF LockInv, TypeOK, ReplayIsGenuine
<1>1. ASSUME NEW r \in Requests, Arrive(r) \/ Acquire(r) \/ FailOpen(r) \/ Deny(r)
                                 \/ ReleaseLock(r) \/ Disconnect(r)
      PROVE  ReplayIsGenuine'
  <2>1. cache' = cache /\ result' = result /\ body' = body /\ ran' = ran
    BY <1>1 DEF Arrive, Acquire, FailOpen, Deny, ReleaseLock, Disconnect
  <2> QED BY <2>1
<1>2. ASSUME NEW r \in Requests, Replay(r) PROVE ReplayIsGenuine'
  BY <1>2 DEF Replay
<1>3. ASSUME NEW r \in Requests, Conflict(r) PROVE ReplayIsGenuine'
  BY <1>3 DEF Conflict
<1>4. ASSUME NEW r \in Requests, RunHandler(r) PROVE ReplayIsGenuine'
  BY <1>4 DEF RunHandler
<1>5. ASSUME NEW r \in Requests, Panic(r) PROVE ReplayIsGenuine'
  BY <1>5 DEF Panic
<1>6. ASSUME NEW r \in Requests, StoreResponse(r) PROVE ReplayIsGenuine'
  <2>1. result' = result /\ body' = body /\ ran' = ran
    BY <1>6 DEF StoreResponse
  <2>2. \/ cache' = cache
        \/ result[r] = "2xx" /\ cache' = [cache EXCEPT ![KeyOf[r]] = body[r]]
    BY <1>6 DEF StoreResponse
  <2> QED BY <2>1, <2>2
<1>7. CASE UNCHANGED vars
  BY <1>7 DEF vars
<1> QED BY <1>1, <1>2, <1>3, <1>4, <1>5, <1>6, <1>7 DEF Next, Step

\* The inductive invariant.
THEOREM IdempotencyInvariance == Spec => []LockInv
<1>1. LockInv /\ [Next]_vars => LockInv'
  BY TypeStep, LockStep, SoundKeyStep, ReplayStep DEF LockInv
<1> QED BY LockInvInit, <1>1, PTL DEF Spec

\* Types are kept.
THEOREM IdempotencyTypeCorrect == Spec => []TypeOK
<1>1. LockInv => TypeOK
  BY DEF LockInv
<1> QED BY IdempotencyInvariance, <1>1, PTL

\* The lock excludes: two requests with the same key never hold it together.
THEOREM HolderCorrect == Spec => []OneHolder
<1>1. LockInv => OneHolder
  BY DEF LockInv
<1> QED BY IdempotencyInvariance, <1>1, PTL

\* Duplicates do not run the handler at the same time on a key without faults.
THEOREM OneAtATimeCorrect == Spec => []OneAtATime
<1>1. LockInv => OneAtATime
  BY DEF LockInv, TypeOK, ReadyHolds, OneHolder, OneAtATime, Holding
<1> QED BY IdempotencyInvariance, <1>1, PTL

\* A replayed response is the successful response of a request with the key.
THEOREM ReplayCorrect == Spec => []ReplayIsGenuine
<1>1. LockInv => ReplayIsGenuine
  BY DEF LockInv
<1> QED BY IdempotencyInvariance, <1>1, PTL

\* Without a fault, no key stays locked after its requests.
THEOREM NoLockLeftCorrect == Spec => []NoLockLeft
<1>1. LockInv => NoLockLeft
  BY DEF LockInv
<1> QED BY IdempotencyInvariance, <1>1, PTL

=============================================================================
