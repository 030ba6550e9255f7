--------------------------------- MODULE Charge ---------------------------------
(***************************************************************************)
(* POST /v1/store/transactions/charge for one store:                       *)
(* internal/app/transaction/service.go, Charge.                            *)
(*                                                                         *)
(* Several requests run at once.  A handler takes a lock of Redis on the   *)
(* idempotency key and one on the order (SET NX with a time to live), asks *)
(* Redis which transaction the key made and Postgres which one the order   *)
(* has, charges at Midtrans, inserts the row, stores the transaction under *)
(* the key and deletes both locks.  Every call may fail, a handler may be  *)
(* gone (client disconnected: every later call fails, the DELs included;   *)
(* or a process that died), and a lock may expire under a slow handler.    *)
(*                                                                         *)
(* Midtrans is external: it accepts an order id once and refuses it later; *)
(* its answer may be lost.  Left out: invalid payloads (they reach nothing),*)
(* audit logs and metrics.                                                 *)
(***************************************************************************)
EXTENDS Naturals

CONSTANTS
    Request,        \* requests handled at a time
    Key,            \* values of Idempotency-Key
    Order,          \* order_id
    Body,           \* the rest of the payload
    None,           \* no request, no row, nothing cached
    Free,           \* a lock that is not in Redis
    Orphan,         \* a lock whose handler is gone without deleting it
    MaxOverruns,    \* bound: locks that expire under their handler
    MaxFaults,      \* bound: calls that fail and handlers that are gone
    MaxEvictions,   \* bound: cached results that reach their 24 hours
    MaxIncidents    \* bound: the three together

Input == [key : Key, order : Order, body : Body]

ASSUME ChargeBoundAssumption ==
    {MaxOverruns, MaxFaults, MaxEvictions, MaxIncidents} \subseteq Nat
ASSUME NoneAssumption == None \notin Input \union Order
ASSUME LockAssumption == Free # Orphan /\ {Free, Orphan} \intersect Request = {}

VARIABLES
    pc,         \* where the handler of a request is
    input,      \* what the request asks for
    answer,     \* "created" once the handler has a transaction to answer with
    keyLock,    \* [Key -> handler whose SET NX made the lock]
    orderLock,  \* [Order -> the same]
    cache,      \* [Key -> order of the transaction stored under the key]
    row,        \* [Order -> request whose charge is in transactions]
    accepted,   \* [Order -> request Midtrans accepted]
    created,    \* requests answered 201 (history)
    refused,    \* requests Midtrans refused because it has their order (history)
    overran,    \* handlers that have lost a lock to its expiry (history)
    overruns, faults, evictions

handlerVars == <<pc, input, answer, overran>>
redisVars   == <<keyLock, orderLock, cache>>
chargeVars  == <<row, accepted, refused>>
budgetVars  == <<overruns, faults, evictions>>
vars        == <<handlerVars, redisVars, chargeVars, created, budgetVars>>

Phase == {"idle", "key", "replay", "order", "lookup", "call", "persist", "cache",
          "unlockOrder", "unlockKey"}

\* The type of every variable.
TypeOK ==
    /\ pc        \in [Request -> Phase]
    /\ input     \in [Request -> Input \union {None}]
    /\ answer    \in [Request -> {"none", "created"}]
    /\ keyLock   \in [Key -> Request \union {Free, Orphan}]
    /\ orderLock \in [Order -> Request \union {Free, Orphan}]
    /\ cache     \in [Key -> Order \union {None}]
    /\ row       \in [Order -> Input \union {None}]
    /\ accepted  \in [Order -> Input \union {None}]
    /\ created   \subseteq Input
    /\ refused   \subseteq Input
    /\ overran   \subseteq Request
    /\ overruns  \in 0..MaxOverruns
    /\ faults    \in 0..MaxFaults
    /\ evictions \in 0..MaxEvictions

Init ==
    /\ pc        = [r \in Request |-> "idle"]
    /\ input     = [r \in Request |-> None]
    /\ answer    = [r \in Request |-> "none"]
    /\ keyLock   = [k \in Key |-> Free]
    /\ orderLock = [o \in Order |-> Free]
    /\ cache     = [k \in Key |-> None]
    /\ row       = [o \in Order |-> None]
    /\ accepted  = [o \in Order |-> None]
    /\ created   = {}
    /\ refused   = {}
    /\ overran   = {}
    /\ overruns  = 0
    /\ faults    = 0
    /\ evictions = 0

--------------------------------------------------------------------------------
GoTo(r, phase) == pc' = [pc EXCEPT ![r] = phase]

\* The handler has returned: it has no state any more.
Done(r) ==
    /\ GoTo(r, "idle")
    /\ input'  = [input EXCEPT ![r] = None]
    /\ answer' = [answer EXCEPT ![r] = "none"]
    /\ overran' = overran \ {r}

HasAnswer(r) == answer' = [answer EXCEPT ![r] = "created"]

\* jsonb equality of raw_request, which holds the order and not the key.
SamePayload(r, o) == row[o].order = input[r].order /\ row[o].body = input[r].body

Arrive(r) ==
    /\ pc[r] = "idle"
    /\ \E i \in Input : input' = [input EXCEPT ![r] = i]
    /\ GoTo(r, "key")
    /\ UNCHANGED <<answer, overran, redisVars, chargeVars, created, budgetVars>>

LockKey_NoTest(r) ==
    /\ pc[r] = "key"
    /\ keyLock' = [keyLock EXCEPT ![input[r].key] = r]
    /\ GoTo(r, "replay")
    /\ UNCHANGED <<input, answer, overran, orderLock, cache, chargeVars, created, budgetVars>>

\* acquireLock on the key; 409 when another request has it.
LockKey(r) ==
    LET k == input[r].key IN
    /\ pc[r] = "key"
    /\ \/ /\ keyLock[k] = Free
          /\ keyLock' = [keyLock EXCEPT ![k] = r]
          /\ GoTo(r, "replay")
          /\ UNCHANGED <<input, answer, overran>>
       \/ keyLock[k] # Free /\ Done(r) /\ UNCHANGED keyLock
    /\ UNCHANGED <<orderLock, cache, chargeVars, created, budgetVars>>

\* findIdempotencyReplay: the transaction of the key, or 409 for another payload.
Replay(r) ==
    LET o == cache[input[r].key] IN
    /\ pc[r] = "replay"
    /\ \/ o = None /\ GoTo(r, "order") /\ UNCHANGED answer
       \/ o # None /\ SamePayload(r, o) /\ HasAnswer(r) /\ GoTo(r, "unlockKey")
       \/ o # None /\ ~SamePayload(r, o) /\ GoTo(r, "unlockKey") /\ UNCHANGED answer
    /\ UNCHANGED <<input, overran, redisVars, chargeVars, created, budgetVars>>

LockOrder_NoTest(r) ==
    /\ pc[r] = "order"
    /\ orderLock' = [orderLock EXCEPT ![input[r].order] = r]
    /\ GoTo(r, "lookup")
    /\ UNCHANGED <<input, answer, overran, keyLock, cache, chargeVars, created, budgetVars>>

LockOrder_KeyForgotten(r) ==
    LET o == input[r].order IN
    /\ pc[r] = "order"
    /\ \/ /\ orderLock[o] = Free
          /\ orderLock' = [orderLock EXCEPT ![o] = r]
          /\ GoTo(r, "lookup")
          /\ UNCHANGED <<input, answer, overran>>
       \/ orderLock[o] # Free /\ Done(r) /\ UNCHANGED orderLock
    /\ UNCHANGED <<keyLock, cache, chargeVars, created, budgetVars>>

\* acquireLock on the order.
LockOrder(r) ==
    LET o == input[r].order IN
    /\ pc[r] = "order"
    /\ \/ /\ orderLock[o] = Free
          /\ orderLock' = [orderLock EXCEPT ![o] = r]
          /\ GoTo(r, "lookup")
       \/ orderLock[o] # Free /\ GoTo(r, "unlockKey") /\ UNCHANGED orderLock
    /\ UNCHANGED <<input, answer, overran, keyLock, cache, chargeVars, created, budgetVars>>

Lookup_AnyPayload(r) ==
    LET o == input[r].order IN
    /\ pc[r] = "lookup"
    /\ \/ row[o] = None /\ GoTo(r, "call") /\ UNCHANGED answer
       \/ row[o] # None /\ HasAnswer(r) /\ GoTo(r, "cache")
    /\ UNCHANGED <<input, overran, redisVars, chargeVars, created, budgetVars>>

\* findExistingTransaction: the transaction of the order, or 409 for another payload.
Lookup(r) ==
    LET o == input[r].order IN
    /\ pc[r] = "lookup"
    /\ \/ row[o] = None /\ GoTo(r, "call") /\ UNCHANGED answer
       \/ row[o] # None /\ SamePayload(r, o) /\ HasAnswer(r) /\ GoTo(r, "cache")
       \/ row[o] # None /\ ~SamePayload(r, o) /\ GoTo(r, "unlockOrder") /\ UNCHANGED answer
    /\ UNCHANGED <<input, overran, redisVars, chargeVars, created, budgetVars>>

\* Midtrans takes an order id it does not have.
Accept(r) ==
    LET o == input[r].order IN
    IF accepted[o] = None THEN accepted' = [accepted EXCEPT ![o] = input[r]]
    ELSE UNCHANGED accepted

\* The charge at Midtrans; 502 when it is refused.
Call(r) ==
    LET o == input[r].order IN
    /\ pc[r] = "call"
    /\ Accept(r)
    /\ \/ accepted[o] = None /\ GoTo(r, "persist") /\ UNCHANGED refused
       \/ /\ accepted[o] # None
          /\ refused' = refused \union {input[r]}
          /\ GoTo(r, "unlockOrder")
    /\ UNCHANGED <<input, answer, overran, redisVars, row, created, budgetVars>>

Insert(r) == row' = [row EXCEPT ![input[r].order] = input[r]]

\* persistSuccessfulChargeTx under UNIQUE(store_id, order_id).
Persist(r) ==
    LET o == input[r].order IN
    /\ pc[r] = "persist"
    /\ \/ row[o] = None /\ Insert(r) /\ HasAnswer(r) /\ GoTo(r, "cache")
       \/ row[o] # None /\ GoTo(r, "unlockOrder") /\ UNCHANGED <<row, answer>>
    /\ UNCHANGED <<input, overran, redisVars, accepted, refused, created, budgetVars>>

CacheResult_OfRequest(r) ==
    /\ pc[r] = "cache"
    /\ cache' = [cache EXCEPT ![input[r].key] = input[r]]
    /\ GoTo(r, "unlockOrder")
    /\ UNCHANGED <<input, answer, overran, keyLock, orderLock, chargeVars, created,
                   budgetVars>>

\* cacheIdempotencyResult.
CacheResult(r) ==
    /\ pc[r] = "cache"
    /\ cache' = [cache EXCEPT ![input[r].key] = input[r].order]
    /\ GoTo(r, "unlockOrder")
    /\ UNCHANGED <<input, answer, overran, keyLock, orderLock, chargeVars, created,
                   budgetVars>>

\* releaseLock: DEL, whoever's lock it is by now.
UnlockOrder(r) ==
    /\ pc[r] = "unlockOrder"
    /\ orderLock' = [orderLock EXCEPT ![input[r].order] = Free]
    /\ GoTo(r, "unlockKey")
    /\ UNCHANGED <<input, answer, overran, keyLock, cache, chargeVars, created, budgetVars>>

\* What the client gets when the handler returns.
Reply(r) == created' = IF answer[r] = "created" THEN created \union {input[r]} ELSE created

UnlockKey(r) ==
    /\ pc[r] = "unlockKey"
    /\ keyLock' = [keyLock EXCEPT ![input[r].key] = Free]
    /\ Reply(r)
    /\ Done(r)
    /\ UNCHANGED <<orderLock, cache, chargeVars, budgetVars>>

--------------------------------------------------------------------------------
(* Failures.                                                               *)

\* One more incident is within the bound.
Incident == overruns + faults + evictions < MaxIncidents

Fault ==
    /\ faults < MaxFaults /\ Incident
    /\ faults' = faults + 1
    /\ UNCHANGED <<overruns, evictions>>

\* The lock a handler that is gone leaves behind.
Left(lock, r) == IF lock = r THEN Orphan ELSE lock

\* The GET of the cached result fails: findIdempotencyReplay takes it for a miss.
ReplayMisses(r) ==
    /\ pc[r] = "replay"
    /\ Fault
    /\ GoTo(r, "order")
    /\ UNCHANGED <<input, answer, overran, redisVars, chargeVars, created>>

\* A SET NX fails, with or without effect: a lock it made has no handler to delete it.
LockFails(r) ==
    LET k == input[r].key  o == input[r].order IN
    /\ Fault
    /\ \/ /\ pc[r] = "key"
          /\ UNCHANGED keyLock \/ (keyLock[k] = Free /\ keyLock' = [keyLock EXCEPT ![k] = Orphan])
          /\ Done(r)
          /\ UNCHANGED orderLock
       \/ /\ pc[r] = "order"
          /\ UNCHANGED orderLock
                \/ (orderLock[o] = Free /\ orderLock' = [orderLock EXCEPT ![o] = Orphan])
          /\ GoTo(r, "unlockKey")
          /\ UNCHANGED <<input, answer, overran, keyLock>>
    /\ UNCHANGED <<cache, chargeVars, created>>

\* A SELECT fails, or finds that the store is no longer active: an error, and the locks
\* taken so far are released.
SelectFails(r) ==
    /\ Fault
    /\ \/ pc[r] = "replay" /\ GoTo(r, "unlockKey")
       \/ pc[r] = "lookup" /\ GoTo(r, "unlockOrder")
    /\ UNCHANGED <<input, answer, overran, redisVars, chargeVars, created>>

\* The call of Midtrans times out, before or after Midtrans has accepted the order.
CallFails(r) ==
    /\ pc[r] = "call"
    /\ Fault
    /\ Accept(r) \/ UNCHANGED accepted
    /\ GoTo(r, "unlockOrder")
    /\ UNCHANGED <<input, answer, overran, redisVars, row, refused, created>>

\* The transaction fails, or it commits and the answer is lost: an error both times.
PersistFails(r) ==
    /\ pc[r] = "persist"
    /\ Fault
    /\ (row[input[r].order] = None /\ Insert(r)) \/ UNCHANGED row
    /\ GoTo(r, "unlockOrder")
    /\ UNCHANGED <<input, answer, overran, redisVars, accepted, refused, created>>

\* The SET of the result fails, and only a metric knows.
CacheFails(r) ==
    /\ pc[r] = "cache"
    /\ Fault
    /\ GoTo(r, "unlockOrder")
    /\ UNCHANGED <<input, answer, overran, redisVars, chargeVars, created>>

\* A DEL fails: the lock stays until it expires, the answer is the same.
UnlockFails(r) ==
    /\ Fault
    /\ \/ /\ pc[r] = "unlockOrder"
          /\ orderLock' = [orderLock EXCEPT ![input[r].order] = Left(@, r)]
          /\ GoTo(r, "unlockKey")
          /\ UNCHANGED <<input, answer, overran, keyLock, created>>
       \/ /\ pc[r] = "unlockKey"
          /\ keyLock' = [keyLock EXCEPT ![input[r].key] = Left(@, r)]
          /\ Reply(r)
          /\ Done(r)
          /\ UNCHANGED orderLock
    /\ UNCHANGED <<cache, chargeVars>>

\* The client disconnects or the process dies: nothing is deleted or answered.
Abort(r) ==
    /\ pc[r] # "idle"
    /\ Fault
    /\ keyLock'   = [k \in Key |-> Left(keyLock[k], r)]
    /\ orderLock' = [o \in Order |-> Left(orderLock[o], r)]
    /\ Done(r)
    /\ UNCHANGED <<cache, chargeVars, created>>

--------------------------------------------------------------------------------
(* Redis lets keys expire.                                                 *)

\* A lock whose handler is gone, or one whose handler needs more than 60 seconds.
ExpiresFrom(lock) ==
    \/ lock = Orphan /\ UNCHANGED <<overran, budgetVars>>
    \/ /\ lock \in Request
       /\ overruns < MaxOverruns /\ Incident
       /\ overruns' = overruns + 1
       /\ overran' = overran \union {lock}
       /\ UNCHANGED <<faults, evictions>>

ExpireKeyLock(k) ==
    /\ ExpiresFrom(keyLock[k])
    /\ keyLock' = [keyLock EXCEPT ![k] = Free]
    /\ UNCHANGED <<pc, input, answer, orderLock, cache, chargeVars, created>>

ExpireOrderLock(o) ==
    /\ ExpiresFrom(orderLock[o])
    /\ orderLock' = [orderLock EXCEPT ![o] = Free]
    /\ UNCHANGED <<pc, input, answer, keyLock, cache, chargeVars, created>>

\* A cached result has been there for 24 hours.
Evict(k) ==
    /\ cache[k] # None
    /\ evictions < MaxEvictions /\ Incident
    /\ evictions' = evictions + 1
    /\ cache' = [cache EXCEPT ![k] = None]
    /\ UNCHANGED <<handlerVars, keyLock, orderLock, chargeVars, created, overruns, faults>>

--------------------------------------------------------------------------------
Handle(r) ==
    \/ LockKey(r) \/ Replay(r) \/ LockOrder(r) \/ Lookup(r) \/ Call(r) \/ Persist(r)
    \/ CacheResult(r) \/ UnlockOrder(r) \/ UnlockKey(r)

HandleFault(r) ==
    \/ ReplayMisses(r) \/ LockFails(r) \/ SelectFails(r) \/ CallFails(r) \/ PersistFails(r)
    \/ CacheFails(r) \/ UnlockFails(r) \/ Abort(r)

Next ==
    \/ \E r \in Request : Arrive(r) \/ Handle(r) \/ HandleFault(r)
    \/ \E k \in Key : ExpireKeyLock(k) \/ Evict(k)
    \/ \E o \in Order : ExpireOrderLock(o)

Spec == Init /\ [][Next]_vars

--------------------------------------------------------------------------------
(* Properties.                                                             *)

Charging(r) == pc[r] \in {"call", "persist"}

\* "Untuk mencegah double charge pada request bersamaan": two handlers that are within
\* the 60 seconds of their locks never charge one order at the same time.
ExclusiveCharge ==
    \A r, q \in Request :
        (/\ r # q /\ Charging(r) /\ Charging(q) /\ {r, q} \intersect overran = {})
            => input[r].order # input[q].order

\* As long as no lock has expired under its handler, whatever else fails, an order is
\* charged by one handler at a time, and what Lookup has read is still true when
\* Midtrans is called.
LockedCharge ==
    overruns = 0 =>
        /\ ExclusiveCharge
        /\ \A r \in Request : pc[r] = "call" => row[input[r].order] = None

\* "reuse Idempotency-Key untuk payload berbeda sekarang gagal": while nothing fails,
\* the requests answered 201 under one key are the same request.  The key is only
\* remembered by an entry of Redis, so one call that fails is enough to break it.
KeyNamesOneRequest ==
    overruns + faults + evictions = 0 =>
        \A i, j \in created : i.key = j.key => i = j

\* "Jika order_id sama dikirim ulang dengan idempotency key sama, response lama
\* dikembalikan": Midtrans refuses an order it has accepted, so no request may come to
\* it when a row can still answer it.  One charge that is not stored breaks it.
RetryIsAnswered ==
    overruns + faults = 0 => refused = {}

\* The charges, rows and answers are those of ChargeOnce, also when locks expire under
\* their handlers: the answers of Midtrans and the UNIQUE constraint see to it.
Once == INSTANCE ChargeOnce

ImplementsChargeOnce == Once!Spec

\* No lock is forgotten: the handler that made it is still on its way to the DEL, or
\* is gone and the lock with it within 60 seconds.  Every return after a SET NX has to
\* pass the deferred releaseLock, or the key or the order stays closed to the retry.
NoLockForgotten ==
    \A r \in Request :
        /\ \A k \in Key : keyLock[k] = r =>
              pc[r] \notin {"idle", "key"} /\ input[r].key = k
        /\ \A o \in Order : orderLock[o] = r =>
              pc[r] \notin {"idle", "key", "replay", "order", "unlockKey"} /\ input[r].order = o
================================================================================
