----------------------------- MODULE Idempotency -----------------------------
(***************************************************************************)
(* IdempotencyMiddleware: requests that carry X-PK-Idempotency-Key take a  *)
(* lock in Redis, run the handler, cache a successful response and release *)
(* the lock. A request that finds the lock taken is answered from the      *)
(* cache, or with 409.                                                     *)
(*                                                                         *)
(* main installs the middleware for every route, and routes.go once more   *)
(* on POST /payments and POST /payment-requests, so a request passes one   *)
(* or two of them; both use the same lock and cache. The lock and cache    *)
(* live for 24 hours; the model is about one such window.                  *)
(***************************************************************************)
EXTENDS Integers, FiniteSets

CONSTANTS
    Keys,           \* fingerprints: key, path, merchant and user
    Requests,       \* HTTP requests with a key of valid length
    KeyOf,          \* the fingerprint of each request
    Layers,         \* how many times the middleware is installed on the key's path
    MaxFaults       \* bound: Redis errors, disconnections, panics

ASSUME KeyOfAssumption == KeyOf \in [Requests -> Keys]
ASSUME LayersAssumption == Layers \in [Keys -> {1, 2}]
ASSUME MaxFaultsAssumption == MaxFaults \in Nat

Nobody == "none"
ASSUME NobodyAssumption == Nobody \notin Requests

VARIABLES
    lock,           \* Redis idem:lock: is the key set?
    cache,          \* Redis idem:cache: the request whose response is cached
    pc,             \* where each request is
    layer,          \* how many middlewares it has entered
    held,           \* the middlewares that acquired the lock for it
    result,         \* status class of its response
    body,           \* the request whose response body it got
    gone,           \* requests whose client has disconnected
    ran,            \* history: requests whose handler succeeded
    spoilt,         \* history: keys with a Redis error, a disconnection or a panic
    faults          \* history: how many of those

vars == <<lock, cache, pc, layer, held, result, body, gone, ran, spoilt, faults>>

TypeOK ==
    /\ lock \in [Keys -> BOOLEAN]
    /\ cache \in [Keys -> Requests \cup {Nobody}]
    /\ pc \in [Requests -> {"waiting", "entering", "denied", "ready", "leaving", "storing", "over"}]
    /\ layer \in [Requests -> 0 .. 2]
    /\ held \in [Requests -> 0 .. 2]
    /\ result \in [Requests -> {"none", "2xx", "empty", "409", "error"}]
    /\ body \in [Requests -> Requests \cup {Nobody}]
    /\ gone \subseteq Requests
    /\ ran \subseteq Requests
    /\ spoilt \subseteq Keys
    /\ faults \in Nat

Init ==
    /\ lock = [k \in Keys |-> FALSE]
    /\ cache = [k \in Keys |-> Nobody]
    /\ pc = [r \in Requests |-> "waiting"]
    /\ layer = [r \in Requests |-> 0]
    /\ held = [r \in Requests |-> 0]
    /\ result = [r \in Requests |-> "none"]
    /\ body = [r \in Requests |-> Nobody]
    /\ gone = {}
    /\ ran = {}
    /\ spoilt = {}
    /\ faults = 0

\* An error on the way of request r.
Fault(r) == /\ faults < MaxFaults
            /\ faults' = faults + 1
            /\ spoilt' = spoilt \cup {KeyOf[r]}

Reach(r, p) == pc' = [pc EXCEPT ![r] = p]

-----------------------------------------------------------------------------
(* On the way in *)

Arrive(r) ==
    /\ pc[r] = "waiting"
    /\ Reach(r, "entering")
    /\ UNCHANGED <<lock, cache, layer, held, result, body, gone, ran, spoilt, faults>>

Inner(r) == layer[r] + 1 = Layers[KeyOf[r]]

\* Faulty variant: the lock is taken with a plain SET, which never fails.
AcquireAlways(r) ==
    /\ pc[r] = "entering"
    /\ r \notin gone
    /\ lock' = [lock EXCEPT ![KeyOf[r]] = TRUE]
    /\ held' = [held EXCEPT ![r] = layer[r] + 1]
    /\ layer' = [layer EXCEPT ![r] = @ + 1]
    /\ Reach(r, IF Inner(r) THEN "ready" ELSE "entering")
    /\ UNCHANGED <<cache, result, body, gone, ran, spoilt, faults>>

\* SetNX acquires the lock.
Acquire(r) ==
    /\ pc[r] = "entering"
    /\ r \notin gone
    /\ ~lock[KeyOf[r]]
    /\ lock' = [lock EXCEPT ![KeyOf[r]] = TRUE]
    /\ held' = [held EXCEPT ![r] = layer[r] + 1]
    /\ layer' = [layer EXCEPT ![r] = @ + 1]
    /\ Reach(r, IF Inner(r) THEN "ready" ELSE "entering")
    /\ UNCHANGED <<cache, result, body, gone, ran, spoilt, faults>>

\* SetNX reports an error: the request goes on as if there were no key. The
\* error may be the loss of Redis' answer, the lock being set all the same.
FailOpen(r) ==
    /\ pc[r] = "entering"
    /\ \/ r \in gone /\ UNCHANGED <<lock, spoilt, faults>>
       \/ /\ r \notin gone /\ Fault(r)
          /\ lock' \in {lock, [lock EXCEPT ![KeyOf[r]] = TRUE]}
    /\ layer' = [layer EXCEPT ![r] = @ + 1]
    /\ Reach(r, IF Inner(r) THEN "ready" ELSE "entering")
    /\ UNCHANGED <<cache, held, result, body, gone, ran>>

\* SetNX finds the lock taken.
Deny(r) ==
    /\ pc[r] = "entering"
    /\ r \notin gone
    /\ lock[KeyOf[r]]
    /\ Reach(r, "denied")
    /\ UNCHANGED <<lock, cache, layer, held, result, body, gone, ran, spoilt, faults>>

\* The lock was taken, and by now a response is cached.
Replay(r) ==
    /\ pc[r] = "denied"
    /\ r \notin gone
    /\ cache[KeyOf[r]] # Nobody
    /\ result' = [result EXCEPT ![r] = "2xx"]
    /\ body' = [body EXCEPT ![r] = cache[KeyOf[r]]]
    /\ Reach(r, "leaving")
    /\ UNCHANGED <<lock, cache, layer, held, gone, ran, spoilt, faults>>

\* Faulty variant: a duplicate waits for the first request's response.
ConflictWaiting(r) ==
    /\ pc[r] = "denied"
    /\ r \in gone
    /\ result' = [result EXCEPT ![r] = "409"]
    /\ Reach(r, "leaving")
    /\ UNCHANGED <<lock, cache, layer, held, body, gone, ran, spoilt, faults>>

\* The lock was taken, and no response is cached or the cache cannot be read.
Conflict(r) ==
    /\ pc[r] = "denied"
    /\ \/ /\ r \in gone \/ cache[KeyOf[r]] = Nobody
          /\ UNCHANGED <<spoilt, faults>>
       \/ r \notin gone /\ cache[KeyOf[r]] # Nobody /\ Fault(r)
    /\ result' = [result EXCEPT ![r] = "409"]
    /\ Reach(r, "leaving")
    /\ UNCHANGED <<lock, cache, layer, held, body, gone, ran>>

-----------------------------------------------------------------------------
(* The handler *)

\* It succeeds with or without a body ("empty"), or fails.
RunHandler(r) ==
    /\ pc[r] = "ready"
    /\ \/ /\ \E a \in {"2xx", "empty"} : result' = [result EXCEPT ![r] = a]
          /\ body' = [body EXCEPT ![r] = r]
          /\ ran' = ran \cup {r}
       \/ /\ result' = [result EXCEPT ![r] = "error"]
          /\ UNCHANGED <<body, ran>>
    /\ Reach(r, "leaving")
    /\ UNCHANGED <<lock, cache, layer, held, gone, spoilt, faults>>

\* The handler panics: gin.Recovery answers 500 and nothing of the middleware
\* after c.Next() is run.
Panic(r) ==
    /\ pc[r] = "ready"
    /\ Fault(r)
    /\ result' = [result EXCEPT ![r] = "error"]
    /\ Reach(r, "over")
    /\ UNCHANGED <<lock, cache, layer, held, body, gone, ran>>

\* The client gives up: the request's context is done, and every later Redis
\* call of the request fails. The handler is not interrupted by it.
Disconnect(r) ==
    /\ pc[r] \notin {"waiting", "over"}
    /\ r \notin gone
    /\ Fault(r)
    /\ gone' = gone \cup {r}
    /\ UNCHANGED <<lock, cache, pc, layer, held, result, body, ran>>

-----------------------------------------------------------------------------
(* On the way out: only a middleware that acquired the lock does anything *)

\* Faulty variant: every response is cached, whatever its status.
StoreEveryResponse(r) ==
    /\ pc[r] = "leaving"
    /\ IF held[r] = 0 THEN Reach(r, "over") ELSE Reach(r, "storing")
    /\ cache' = IF held[r] > 0 /\ r \notin gone
                  THEN [cache EXCEPT ![KeyOf[r]] = r] ELSE cache
    /\ UNCHANGED <<lock, layer, held, result, body, gone, ran, spoilt, faults>>

\* A successful response that has a body is cached.
StoreResponse(r) ==
    /\ pc[r] = "leaving"
    /\ IF held[r] = 0 THEN Reach(r, "over") ELSE Reach(r, "storing")
    /\ \/ /\ held[r] > 0 /\ result[r] = "2xx" /\ r \notin gone
          /\ cache' = [cache EXCEPT ![KeyOf[r]] = body[r]]
          /\ UNCHANGED <<spoilt, faults>>
       \/ /\ held[r] > 0 /\ result[r] = "2xx" /\ r \notin gone
          /\ Fault(r)
          /\ UNCHANGED cache
       \/ /\ held[r] = 0 \/ result[r] # "2xx" \/ r \in gone
          /\ UNCHANGED <<cache, spoilt, faults>>
    /\ UNCHANGED <<lock, layer, held, result, body, gone, ran>>

\* Faulty variant: only a successful request releases the lock.
ReleaseLockOnSuccess(r) ==
    /\ pc[r] = "storing"
    /\ lock' = IF result[r] \in {"2xx", "empty"} /\ r \notin gone
                 THEN [lock EXCEPT ![KeyOf[r]] = FALSE] ELSE lock
    /\ held' = [held EXCEPT ![r] = 0]
    /\ Reach(r, "over")
    /\ UNCHANGED <<cache, layer, result, body, gone, ran, spoilt, faults>>

\* Then the lock is released.
ReleaseLock(r) ==
    /\ pc[r] = "storing"
    /\ \/ /\ r \notin gone
          /\ lock' = [lock EXCEPT ![KeyOf[r]] = FALSE]
          /\ UNCHANGED <<spoilt, faults>>
       \/ /\ r \in gone
          /\ UNCHANGED <<lock, spoilt, faults>>
       \/ /\ r \notin gone
          /\ Fault(r)
          /\ UNCHANGED lock
    /\ held' = [held EXCEPT ![r] = 0]
    /\ Reach(r, "over")
    /\ UNCHANGED <<cache, layer, result, body, gone, ran>>

-----------------------------------------------------------------------------
Step(r) == \/ Acquire(r)
           \/ FailOpen(r)
           \/ Deny(r)
           \/ Replay(r)
           \/ Conflict(r)
           \/ RunHandler(r)
           \/ Panic(r)
           \/ StoreResponse(r)
           \/ ReleaseLock(r)

Next == \E r \in Requests : Arrive(r) \/ Step(r) \/ Disconnect(r)

\* Every request that has arrived is answered: nothing in the middleware waits.
Fairness == \A r \in Requests : WF_vars(Step(r))

Spec == Init /\ [][Next]_vars /\ Fairness

-----------------------------------------------------------------------------
(* Properties *)

\* Between acquiring and releasing the lock.
Holding(r) == held[r] > 0 /\ pc[r] # "over"

\* Two requests with the same key never hold the lock together, whatever
\* fails: the lock has no owner and Del removes it unconditionally, so nobody
\* but its holder may get as far as deleting it.
OneHolder ==
    \A r, s \in Requests :
        Holding(r) /\ Holding(s) /\ KeyOf[r] = KeyOf[s] => r = s

\* Duplicates do not run the handler at the same time, unless Redis reported an
\* error for the key (the middleware fails open) or the lock outlived a holder.
OneAtATime ==
    \A r, s \in Requests :
        /\ pc[r] = "ready" /\ pc[s] = "ready"
        /\ KeyOf[r] = KeyOf[s] /\ KeyOf[r] \notin spoilt
        => r = s

\* A response that is replayed, or is there to be, is the successful response
\* of a request with the same fingerprint: never an error, never another key's.
ReplayIsGenuine ==
    /\ \A k \in Keys : cache[k] # Nobody => cache[k] \in ran /\ KeyOf[cache[k]] = k
    /\ \A r \in Requests : result[r] = "2xx" => body[r] \in ran /\ KeyOf[body[r]] = KeyOf[r]

\* Unless something went wrong, the lock is free when nobody holds it.
NoLockLeft ==
    \A k \in Keys : lock[k] /\ k \notin spoilt =>
        \E r \in Requests : Holding(r) /\ KeyOf[r] = k

\* Every request is answered.
AllAnswered == \A r \in Requests : pc[r] = "entering" ~> pc[r] = "over"

=============================================================================
