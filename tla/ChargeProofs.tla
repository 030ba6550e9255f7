------------------------------ MODULE ChargeProofs ------------------------------
(***************************************************************************)
(* Proofs about Charge.                                                    *)
(*                                                                         *)
(* Two invariants carry them.  Inv holds whatever expires or fails: a row  *)
(* is the request Midtrans accepted, what is cached has a row, and what a  *)
(* handler is about to store or to answer agrees with both.  LockInv is    *)
(* about the locks as long as none has expired under its handler: the one  *)
(* handler between the SET NX and the DEL of an order is the one in the    *)
(* lock, and what it has read in Lookup is still true when it charges.     *)
(* RetryInv and KeyInv add what holds while nothing fails at all.          *)
(***************************************************************************)
EXTENDS Charge, TLAPS

HandlerInv ==
    \A r \in Request : pc[r] # "idle" => input[r] \in Input

RowInv ==
    /\ \A o \in Order : accepted[o] # None => accepted[o].order = o
    /\ \A o \in Order : row[o] # None => row[o] = accepted[o]

CacheInv ==
    /\ \A k \in Key : cache[k] # None => row[cache[k]] # None
    /\ \A r \in Request : pc[r] = "cache" => row[input[r].order] # None

AnswerInv ==
    \A r \in Request :
        /\ pc[r] = "persist" => accepted[input[r].order] = input[r]
        /\ answer[r] = "created" =>
              /\ pc[r] # "idle"
              /\ row[input[r].order] # None
              /\ row[input[r].order].body = input[r].body

Inv == TypeOK /\ HandlerInv /\ RowInv /\ CacheInv /\ AnswerInv

\* The steps of a handler that leave the locks alone, those that do not, and the rest.
Step(r) ==
    \/ Arrive(r) \/ Replay(r) \/ Lookup(r) \/ Call(r) \/ Persist(r) \/ CacheResult(r)
    \/ ReplayMisses(r) \/ SelectFails(r) \/ CallFails(r) \/ PersistFails(r) \/ CacheFails(r)

LockStep(r) ==
    \/ LockKey(r) \/ LockOrder(r) \/ UnlockOrder(r) \/ UnlockKey(r)
    \/ LockFails(r) \/ UnlockFails(r) \/ Abort(r)

Expiry == (\E k \in Key : ExpireKeyLock(k) \/ Evict(k)) \/ (\E o \in Order : ExpireOrderLock(o))

\* A step is a handler's, one of Redis, or none.
LEMMA NextCases ==
  ASSUME [Next]_vars
  PROVE  (\E r \in Request : Step(r) \/ LockStep(r)) \/ Expiry \/ UNCHANGED vars
  BY DEF Next, Handle, HandleFault, Step, LockStep, Expiry

\* What a request asks for.
LEMMA InputFields ==
  ASSUME NEW i \in Input
  PROVE  i.key \in Key /\ i.order \in Order /\ i.body \in Body /\ i # None
  BY NoneAssumption DEF Input

--------------------------------------------------------------------------------
(* Types.                                                                  *)

\* The first state has the types.
LEMMA TypeInit == Init => TypeOK
  BY ChargeBoundAssumption DEF Init, TypeOK, Phase

\* Every step keeps the types.
LEMMA TypeStep ==
  ASSUME TypeOK, HandlerInv, [Next]_vars
  PROVE  TypeOK'
<1> USE ChargeBoundAssumption DEF TypeOK, HandlerInv, GoTo, Done, HasAnswer, Phase
<1>1. CASE UNCHANGED vars
  BY <1>1 DEF vars, handlerVars, redisVars, chargeVars, budgetVars
<1>2. ASSUME NEW r \in Request, Arrive(r) PROVE TypeOK'
  BY <1>2 DEF Arrive, redisVars, chargeVars, budgetVars
<1>3. ASSUME NEW r \in Request, pc[r] # "idle" PROVE
        input[r] \in Input /\ input[r].key \in Key /\ input[r].order \in Order
  BY <1>3, InputFields
<1>4. ASSUME NEW r \in Request, LockKey(r) PROVE TypeOK'
  BY <1>3, <1>4 DEF LockKey, chargeVars, budgetVars
<1>5. ASSUME NEW r \in Request, Replay(r) \/ Lookup(r) PROVE TypeOK'
  BY <1>3, <1>5 DEF Replay, Lookup, redisVars, chargeVars, budgetVars
<1>6. ASSUME NEW r \in Request, LockOrder(r) PROVE TypeOK'
  BY <1>3, <1>6 DEF LockOrder, chargeVars, budgetVars
<1>7. ASSUME NEW r \in Request, Call(r) PROVE TypeOK'
  BY <1>3, <1>7 DEF Call, Accept, redisVars, budgetVars
<1>8. ASSUME NEW r \in Request, Persist(r) PROVE TypeOK'
  BY <1>3, <1>8 DEF Persist, Insert, redisVars, budgetVars
<1>9. ASSUME NEW r \in Request, CacheResult(r) PROVE TypeOK'
  BY <1>3, <1>9 DEF CacheResult, chargeVars, budgetVars
<1>10. ASSUME NEW r \in Request, UnlockOrder(r) \/ UnlockKey(r) PROVE TypeOK'
  BY <1>3, <1>10 DEF UnlockOrder, UnlockKey, Reply, chargeVars, budgetVars
<1>11. ASSUME NEW r \in Request, ReplayMisses(r) \/ SelectFails(r) \/ CacheFails(r) PROVE TypeOK'
  BY <1>11 DEF ReplayMisses, SelectFails, CacheFails, Fault, redisVars, chargeVars
<1>12. ASSUME NEW r \in Request, LockFails(r) PROVE TypeOK'
  BY <1>3, <1>12 DEF LockFails, Fault, chargeVars
<1>13. ASSUME NEW r \in Request, CallFails(r) PROVE TypeOK'
  BY <1>3, <1>13 DEF CallFails, Accept, Fault, redisVars
<1>14. ASSUME NEW r \in Request, PersistFails(r) PROVE TypeOK'
  BY <1>3, <1>14 DEF PersistFails, Insert, Fault, redisVars
<1>15. ASSUME NEW r \in Request, UnlockFails(r) PROVE TypeOK'
  BY <1>3, <1>15 DEF UnlockFails, Left, Reply, Fault, chargeVars
<1>16. ASSUME NEW r \in Request, Abort(r) PROVE TypeOK'
  BY <1>3, <1>16 DEF Abort, Left, Fault, chargeVars
<1>17. ASSUME NEW k \in Key, ExpireKeyLock(k) PROVE TypeOK'
  BY <1>17 DEF ExpireKeyLock, ExpiresFrom, chargeVars, budgetVars
<1>18. ASSUME NEW o \in Order, ExpireOrderLock(o) PROVE TypeOK'
  BY <1>18 DEF ExpireOrderLock, ExpiresFrom, chargeVars, budgetVars
<1>19. ASSUME NEW k \in Key, Evict(k) PROVE TypeOK'
  BY <1>19 DEF Evict, handlerVars, chargeVars
<1> QED
  BY <1>1, <1>2, <1>4, <1>5, <1>6, <1>7, <1>8, <1>9, <1>10, <1>11, <1>12, <1>13, <1>14, <1>15,
     <1>16, <1>17, <1>18, <1>19, NextCases DEF Step, LockStep, Expiry

\* A handler that runs has a request.
LEMMA HandlerStep ==
  ASSUME TypeOK, HandlerInv, [Next]_vars
  PROVE  HandlerInv'
<1> USE DEF TypeOK, HandlerInv, GoTo, Done
<1>1. ASSUME NEW r \in Request, Arrive(r) PROVE HandlerInv'
  BY <1>1 DEF Arrive
<1>2. ASSUME NEW r \in Request, pc[r] # "idle", UNCHANGED input, NEW p, GoTo(r, p) PROVE HandlerInv'
  BY <1>2
<1>3. ASSUME NEW r \in Request, Done(r) PROVE HandlerInv'
  BY <1>3
<1>4. ASSUME NEW r \in Request, Step(r) PROVE HandlerInv'
  BY <1>1, <1>2, <1>4 DEF Step, Replay, Lookup, Call, Persist, CacheResult, ReplayMisses,
     SelectFails, CallFails, PersistFails, CacheFails
<1>5. ASSUME NEW r \in Request, LockStep(r) PROVE HandlerInv'
  BY <1>2, <1>3, <1>5 DEF LockStep, LockKey, LockOrder, UnlockOrder, UnlockKey, LockFails,
     UnlockFails, Abort
<1>6. CASE Expiry \/ UNCHANGED vars
  BY <1>6 DEF Expiry, ExpireKeyLock, ExpireOrderLock, Evict, vars, handlerVars
<1> QED BY <1>4, <1>5, <1>6, NextCases

--------------------------------------------------------------------------------
(* The charges, the rows and the answers.                                  *)

\* What a step does to the charges and the answers: nothing, or a step of ChargeOnce.
\* Every row and every accepted charge stays as it is.
LEMMA ChargeStep ==
  ASSUME Inv, [Next]_vars
  PROVE  /\ [Once!Next]_<<accepted, row, created>>
         /\ \A o \in Order : accepted[o] # None => accepted'[o] = accepted[o]
         /\ \A o \in Order : row[o] # None => row'[o] = row[o]
         /\ RowInv'
<1> DEFINE Goal == /\ [Once!Next]_<<accepted, row, created>>
                   /\ \A o \in Order : accepted[o] # None => accepted'[o] = accepted[o]
                   /\ \A o \in Order : row[o] # None => row'[o] = row[o]
                   /\ RowInv'
<1>0. TypeOK /\ HandlerInv /\ RowInv /\ AnswerInv
  BY DEF Inv
<1>i. ASSUME NEW r \in Request, pc[r] # "idle"
      PROVE  input[r] \in Input /\ input[r] # None /\ input[r].order \in Order
  BY <1>0, <1>i, InputFields DEF HandlerInv
<1>1. ASSUME UNCHANGED <<accepted, row, created>> PROVE Goal
  BY <1>0, <1>1 DEF RowInv
<1>2. ASSUME NEW r \in Request, pc[r] = "call", Accept(r), UNCHANGED <<row, created>> PROVE Goal
  <2>1. CASE accepted[input[r].order] = None
    <3>1. accepted' = [accepted EXCEPT ![input[r].order] = input[r]]
      BY <1>2, <2>1 DEF Accept
    <3>2. Once!Accept(input[r])
      BY <1>2, <2>1, <3>1 DEF Once!Accept
    <3>3. Once!Next
      BY <1>i, <1>2, <3>2 DEF Once!Next, Once!Input, Input
    <3> QED BY <1>0, <1>i, <1>2, <2>1, <3>1, <3>3 DEF TypeOK, RowInv
  <2>2. CASE accepted[input[r].order] # None
    BY <1>1, <1>2, <2>2 DEF Accept
  <2> QED BY <2>1, <2>2
<1>3. ASSUME NEW r \in Request, pc[r] = "persist", row[input[r].order] = None, Insert(r),
             UNCHANGED <<accepted, created>>
      PROVE  Goal
  <2>1. accepted[input[r].order] = input[r]
    BY <1>0, <1>3 DEF AnswerInv
  <2>2. Once!Persist(input[r].order)
    BY <1>i, <1>3, <2>1 DEF Once!Persist, Insert
  <2>3. Once!Next
    BY <1>i, <1>3, <2>2 DEF Once!Next
  <2> QED BY <1>0, <1>i, <1>3, <2>1, <2>3 DEF TypeOK, RowInv, Insert
<1>4. ASSUME NEW r \in Request, pc[r] = "unlockKey", Reply(r), UNCHANGED <<accepted, row>> PROVE Goal
  <2>1. CASE answer[r] = "created"
    <3>1. Once!Answer(input[r])
      BY <1>0, <1>4, <2>1 DEF AnswerInv, Reply, Once!Answer
    <3>2. Once!Next
      BY <1>i, <1>4, <3>1 DEF Once!Next, Once!Input, Input
    <3> QED BY <1>0, <1>4, <3>2 DEF RowInv
  <2>2. CASE answer[r] # "created"
    BY <1>1, <1>4, <2>2 DEF Reply
  <2> QED BY <2>1, <2>2
<1>5. ASSUME NEW r \in Request, Step(r) PROVE Goal
  <2>1. CASE Call(r) \/ CallFails(r)
    BY <1>1, <1>2, <2>1 DEF Call, CallFails
  <2>2. CASE Persist(r) \/ PersistFails(r)
    BY <1>1, <1>3, <2>2 DEF Persist, PersistFails
  <2>3. CASE \/ Arrive(r) \/ Replay(r) \/ Lookup(r) \/ CacheResult(r)
             \/ ReplayMisses(r) \/ SelectFails(r) \/ CacheFails(r)
    BY <1>1, <2>3 DEF Arrive, Replay, Lookup, CacheResult, ReplayMisses, SelectFails, CacheFails,
       chargeVars
  <2> QED BY <1>5, <2>1, <2>2, <2>3 DEF Step
<1>6. ASSUME NEW r \in Request, LockStep(r) PROVE Goal
  <2>1. CASE UnlockKey(r) \/ UnlockFails(r)
    BY <1>1, <1>4, <2>1 DEF UnlockKey, UnlockFails, chargeVars
  <2>2. CASE LockKey(r) \/ LockOrder(r) \/ UnlockOrder(r) \/ LockFails(r) \/ Abort(r)
    BY <1>1, <2>2 DEF LockKey, LockOrder, UnlockOrder, LockFails, Abort, chargeVars
  <2> QED BY <1>6, <2>1, <2>2 DEF LockStep
<1>7. CASE Expiry \/ UNCHANGED vars
  BY <1>1, <1>7 DEF Expiry, ExpireKeyLock, ExpireOrderLock, Evict, vars, chargeVars
<1> QED BY <1>5, <1>6, <1>7, NextCases

\* The handlers' own state agrees with the charges and the rows.
LEMMA AgreementStep ==
  ASSUME Inv, [Next]_vars
  PROVE  CacheInv' /\ AnswerInv'
<1> USE DEF CacheInv, AnswerInv
<1>0. TypeOK /\ HandlerInv /\ RowInv /\ CacheInv /\ AnswerInv
  BY DEF Inv
<1>i. \A r \in Request : pc[r] # "idle" =>
         input[r] \in Input /\ input[r] # None /\ input[r].order \in Order /\ input[r].key \in Key
  BY <1>0, InputFields DEF HandlerInv
<1>r. /\ \A o \in Order : accepted[o] # None => accepted'[o] = accepted[o]
      /\ \A o \in Order : row[o] # None => row'[o] = row[o]
  BY ChargeStep
<1>g. \A o \in Order : row[o] # None => row[o].order = o
  BY <1>0 DEF RowInv
<1> DEFINE Goal == CacheInv' /\ AnswerInv'
<1>1. ASSUME NEW r \in Request, NEW p \in Phase \ {"cache", "persist"}, p # "idle",
             pc[r] # "idle", GoTo(r, p),
             UNCHANGED <<input, answer, cache>>
      PROVE  Goal
  BY <1>0, <1>i, <1>r, <1>1 DEF GoTo, TypeOK
<1>2. ASSUME NEW r \in Request, Done(r), UNCHANGED cache PROVE Goal
  BY <1>0, <1>i, <1>r, <1>2 DEF Done, GoTo, TypeOK
<1>3. ASSUME NEW r \in Request, Arrive(r) PROVE Goal
  BY <1>0, <1>i, <1>r, <1>3 DEF Arrive, GoTo, TypeOK, redisVars
<1>4. ASSUME NEW r \in Request, NEW p \in {"cache", "unlockKey"}, pc[r] # "idle", GoTo(r, p),
             HasAnswer(r), UNCHANGED <<input, cache>>,
             row'[input[r].order] # None, row'[input[r].order].body = input[r].body
      PROVE  Goal
  BY <1>0, <1>i, <1>r, <1>4 DEF GoTo, HasAnswer, TypeOK
<1>5. ASSUME NEW r \in Request, Replay(r) PROVE Goal
  <2> DEFINE o == cache[input[r].key]
  <2>1. CASE o # None /\ SamePayload(r, o)
    <3>1. o = input[r].order /\ row[o] # None /\ row[o].body = input[r].body
      BY <1>0, <1>i, <1>g, <1>5, <2>1 DEF Replay, SamePayload, TypeOK
    <3>2. row' = row /\ HasAnswer(r) /\ GoTo(r, "unlockKey") /\ UNCHANGED <<input, cache>>
      BY <1>5, <2>1 DEF Replay, redisVars, chargeVars
    <3> QED BY <1>4, <1>5, <3>1, <3>2 DEF Replay
  <2>2. CASE ~(o # None /\ SamePayload(r, o))
    BY <1>1, <1>5, <2>2 DEF Replay, redisVars, Phase
  <2> QED BY <2>1, <2>2
<1>6. ASSUME NEW r \in Request, Lookup(r) PROVE Goal
  <2> DEFINE o == input[r].order
  <2>1. CASE row[o] # None /\ SamePayload(r, o)
    BY <1>4, <1>6, <2>1 DEF Lookup, SamePayload, redisVars, chargeVars
  <2>2. CASE ~(row[o] # None /\ SamePayload(r, o))
    BY <1>1, <1>6, <2>2 DEF Lookup, redisVars, Phase
  <2> QED BY <2>1, <2>2
<1>7. ASSUME NEW r \in Request, Call(r) PROVE Goal
  <2>1. CASE accepted[input[r].order] = None
    <3>1. /\ accepted' = [accepted EXCEPT ![input[r].order] = input[r]]
          /\ GoTo(r, "persist") /\ pc[r] = "call" /\ UNCHANGED <<input, answer, cache, row>>
      BY <1>7, <2>1 DEF Call, Accept, redisVars
    <3> QED BY <1>0, <1>i, <1>r, <3>1 DEF GoTo, TypeOK
  <2>2. CASE accepted[input[r].order] # None
    BY <1>1, <1>7, <2>2 DEF Call, redisVars, Phase
  <2> QED BY <2>1, <2>2
<1>8. ASSUME NEW r \in Request, Persist(r) PROVE Goal
  <2>1. CASE row[input[r].order] = None
    <3>1. row'[input[r].order] = input[r]
      BY <1>0, <1>i, <1>8, <2>1 DEF Persist, Insert, TypeOK
    <3> QED BY <1>i, <1>4, <1>8, <2>1, <3>1 DEF Persist, redisVars
  <2>2. CASE row[input[r].order] # None
    BY <1>1, <1>8, <2>2 DEF Persist, redisVars, Phase
  <2> QED BY <2>1, <2>2
<1>9. ASSUME NEW r \in Request, CacheResult(r) PROVE Goal
  BY <1>0, <1>i, <1>r, <1>9 DEF CacheResult, GoTo, TypeOK
<1>10. ASSUME NEW r \in Request, Step(r) PROVE Goal
  <2>1. CASE ReplayMisses(r) \/ SelectFails(r) \/ CallFails(r) \/ PersistFails(r) \/ CacheFails(r)
    BY <1>1, <2>1 DEF ReplayMisses, SelectFails, CallFails, PersistFails, CacheFails, redisVars, Phase
  <2> QED BY <1>3, <1>5, <1>6, <1>7, <1>8, <1>9, <1>10, <2>1 DEF Step
<1>11. ASSUME NEW r \in Request, LockStep(r) PROVE Goal
  <2>1. CASE LockKey(r) \/ LockOrder(r) \/ UnlockOrder(r)
    BY <1>1, <1>2, <2>1 DEF LockKey, LockOrder, UnlockOrder, Phase
  <2>2. CASE UnlockKey(r) \/ LockFails(r) \/ UnlockFails(r) \/ Abort(r)
    BY <1>1, <1>2, <2>2 DEF UnlockKey, LockFails, UnlockFails, Abort, Phase
  <2> QED BY <1>11, <2>1, <2>2 DEF LockStep
<1>12. CASE Expiry \/ UNCHANGED vars
  BY <1>0, <1>i, <1>r, <1>12 DEF Expiry, ExpireKeyLock, ExpireOrderLock, Evict, TypeOK, vars,
     handlerVars, redisVars
<1> QED BY <1>10, <1>11, <1>12, NextCases

\* Inv is an invariant, whatever expires or fails.
THEOREM Invariance == Spec => []Inv
<1>1. Init => Inv
  BY TypeInit DEF Init, Inv, HandlerInv, RowInv, CacheInv, AnswerInv
<1>2. Inv /\ [Next]_vars => Inv'
  BY TypeStep, HandlerStep, ChargeStep, AgreementStep DEF Inv
<1> QED BY <1>1, <1>2, PTL DEF Spec

\* The variables of Charge have their types.
THEOREM TypeCorrect == Spec => []TypeOK
<1>1. Inv => TypeOK
  BY DEF Inv
<1> QED BY <1>1, Invariance, PTL

\* The charges, rows and answers are those of ChargeOnce, for every number of requests,
\* failures and locks that expire too early.
THEOREM ImplementsChargeOnceHolds == Spec => ImplementsChargeOnce
<1>1. Init => Once!Init
  BY DEF Init, Once!Init
<1>2. Inv /\ [Next]_vars => [Once!Next]_<<accepted, row, created>>
  BY ChargeStep
<1> QED BY <1>1, <1>2, Invariance, PTL DEF Spec, ImplementsChargeOnce, Once!Spec

--------------------------------------------------------------------------------
(* The locks.                                                              *)

OrderHeld(r) == pc[r] \in {"lookup", "call", "persist", "cache", "unlockOrder"}

CallsOnlyNewOrders == \A r \in Request : pc[r] = "call" => row[input[r].order] = None

LockInv ==
    overruns = 0 =>
        /\ \A r \in Request : OrderHeld(r) => orderLock[input[r].order] = r
        /\ CallsOnlyNewOrders

\* The steps of the handlers and of Redis keep LockInv.
LEMMA LockInvStep ==
  ASSUME TypeOK, HandlerInv, LockInv, [Next]_vars
  PROVE  LockInv'
<1> USE DEF CallsOnlyNewOrders, OrderHeld
<1>1. overruns' = 0 => overruns = 0
  BY ChargeBoundAssumption DEF TypeOK, Next, Handle, HandleFault, vars, budgetVars, Arrive,
     LockKey, Replay, LockOrder, Lookup, Call, Persist, CacheResult, UnlockOrder, UnlockKey,
     ReplayMisses, LockFails, SelectFails, CallFails, PersistFails, CacheFails, UnlockFails, Abort,
     Fault, ExpireKeyLock, ExpireOrderLock, ExpiresFrom, Evict
<1> SUFFICES ASSUME overruns' = 0
             PROVE  /\ \A r \in Request : OrderHeld(r)' => orderLock'[input'[r].order] = r
                    /\ CallsOnlyNewOrders'
  BY DEF LockInv
<1>2. /\ \A r \in Request : OrderHeld(r) => orderLock[input[r].order] = r
      /\ CallsOnlyNewOrders
  BY <1>1 DEF LockInv
<1>i. \A r \in Request : pc[r] # "idle" => input[r].order \in Order
  BY InputFields DEF HandlerInv
<1> DEFINE Goal == /\ \A r \in Request : OrderHeld(r)' => orderLock'[input'[r].order] = r
                   /\ CallsOnlyNewOrders'
<1>3. ASSUME NEW r \in Request, NEW p \in Phase \ {"lookup", "call"},
             OrderHeld(r) \/ p \in {"key", "replay", "order", "unlockKey"},
             pc[r] # "idle", GoTo(r, p), UNCHANGED <<input, row, orderLock>>
      PROVE  Goal
  BY <1>2, <1>3 DEF GoTo, TypeOK, Phase
<1>4. ASSUME NEW r \in Request, Done(r), UNCHANGED <<row, orderLock>>
      PROVE  Goal
  BY <1>2, <1>4 DEF Done, GoTo, TypeOK
<1>5. ASSUME NEW r \in Request, pc[r] = "persist", NEW p \in {"cache", "unlockOrder"},
             GoTo(r, p), Insert(r), UNCHANGED <<input, orderLock>>
      PROVE  Goal
  BY <1>2, <1>5, <1>i DEF GoTo, Insert, TypeOK
<1>6. ASSUME NEW r \in Request, Step(r) PROVE Goal
  <2>1. CASE Arrive(r)
    BY <1>2, <2>1 DEF Arrive, GoTo, TypeOK, redisVars, chargeVars
  <2>2. CASE Lookup(r)
    BY <1>2, <2>2, <1>i DEF Lookup, GoTo, TypeOK, redisVars, chargeVars
  <2>3. CASE Persist(r) \/ PersistFails(r)
    BY <1>3, <1>5, <2>3 DEF Persist, PersistFails, Phase, redisVars
  <2>4. CASE \/ Replay(r) \/ Call(r) \/ CacheResult(r) \/ ReplayMisses(r) \/ SelectFails(r)
             \/ CallFails(r) \/ CacheFails(r)
    BY <1>3, <2>4 DEF Replay, Call, CacheResult, ReplayMisses, SelectFails, CallFails, CacheFails,
       Phase, redisVars, chargeVars
  <2> QED BY <1>6, <2>1, <2>2, <2>3, <2>4 DEF Step
<1>7. ASSUME NEW r \in Request, LockStep(r) PROVE Goal
  <2>1. CASE LockKey(r)
    BY <1>3, <1>4, <2>1 DEF LockKey, Phase, chargeVars
  <2>2. CASE LockOrder(r)
    <3>1. CASE orderLock[input[r].order] = Free
      BY LockAssumption, <1>2, <2>2, <3>1, <1>i DEF LockOrder, GoTo, TypeOK, chargeVars
    <3>2. CASE orderLock[input[r].order] # Free
      BY <1>3, <2>2, <3>2 DEF LockOrder, Phase, chargeVars
    <3> QED BY <3>1, <3>2
  <2>3. CASE UnlockOrder(r)
    BY <1>2, <2>3, <1>i DEF UnlockOrder, GoTo, TypeOK, chargeVars
  <2>4. CASE UnlockKey(r)
    BY <1>4, <2>4 DEF UnlockKey, chargeVars
  <2>5. CASE LockFails(r)
    <3>1. CASE pc[r] = "key"
      BY <1>4, <2>5, <3>1 DEF LockFails, chargeVars
    <3>2. CASE pc[r] = "order" /\ orderLock[input[r].order] = Free
      BY LockAssumption, <1>2, <2>5, <3>2, <1>i DEF LockFails, GoTo, TypeOK, chargeVars
    <3>3. CASE pc[r] = "order" /\ orderLock[input[r].order] # Free
      BY <1>3, <2>5, <3>3 DEF LockFails, Phase, chargeVars
    <3> QED BY <2>5, <3>1, <3>2, <3>3 DEF LockFails
  <2>6. CASE UnlockFails(r)
    <3>1. CASE pc[r] = "unlockOrder"
      BY <1>2, <2>6, <3>1, <1>i DEF UnlockFails, Left, GoTo, TypeOK, chargeVars
    <3>2. CASE pc[r] = "unlockKey"
      BY <1>4, <2>6, <3>2 DEF UnlockFails, chargeVars
    <3> QED BY <2>6, <3>1, <3>2 DEF UnlockFails
  <2>7. CASE Abort(r)
    BY <1>2, <2>7, <1>i DEF Abort, Left, Done, GoTo, TypeOK, chargeVars
  <2> QED BY <1>7, <2>1, <2>2, <2>3, <2>4, <2>5, <2>6, <2>7 DEF LockStep
<1>8. CASE UNCHANGED vars
  BY <1>2, <1>8 DEF vars, handlerVars, redisVars, chargeVars
<1>9. ASSUME NEW k \in Key, ExpireKeyLock(k) \/ Evict(k) PROVE Goal
  BY <1>2, <1>9 DEF ExpireKeyLock, Evict, handlerVars, chargeVars
<1>10. ASSUME NEW o \in Order, ExpireOrderLock(o) PROVE Goal
  <2>1. orderLock[o] \notin Request
    BY ChargeBoundAssumption, <1>1, <1>10, LockAssumption
       DEF ExpireOrderLock, ExpiresFrom, TypeOK, budgetVars
  <2> QED BY <1>2, <1>10, <2>1, <1>i DEF ExpireOrderLock, TypeOK, chargeVars
<1> QED BY <1>6, <1>7, <1>8, <1>9, <1>10, NextCases DEF Expiry

\* As long as no lock has expired under its handler, an order is charged by one handler
\* at a time and only while it has no transaction.
THEOREM LockedChargeHolds == Spec => []LockedCharge
<1>1. Init => LockInv
  BY DEF Init, LockInv, OrderHeld, CallsOnlyNewOrders
<1>2. TypeOK /\ HandlerInv /\ LockInv /\ [Next]_vars => LockInv'
  BY LockInvStep
<1>3. LockInv => LockedCharge
  BY DEF LockInv, OrderHeld, CallsOnlyNewOrders, LockedCharge, ExclusiveCharge, Charging
<1>4. Inv => TypeOK /\ HandlerInv
  BY DEF Inv
<1> QED BY <1>1, <1>2, <1>3, <1>4, Invariance, PTL DEF Spec

--------------------------------------------------------------------------------
(* While no call fails: a charge Midtrans has accepted and nobody has      *)
(* stored is in the hands of the handler that has the lock of its order.   *)

RetryInv ==
    overruns + faults = 0 =>
        /\ refused = {}
        /\ \A o \in Order : accepted[o] # None /\ row[o] = None =>
              \E r \in Request : pc[r] = "persist" /\ input[r].order = o

\* A handler's steps that neither come to Midtrans nor store a charge keep RetryInv.
LEMMA RetryKept ==
  ASSUME TypeOK, RetryInv, overruns' + faults' = 0 => overruns + faults = 0,
         UNCHANGED <<accepted, row, refused>>,
         \A r \in Request : pc[r] = "persist" => pc'[r] = "persist" /\ input'[r] = input[r]
  PROVE  RetryInv'
  BY DEF RetryInv

\* Every step keeps RetryInv.
LEMMA RetryStep ==
  ASSUME Inv, LockInv, RetryInv, [Next]_vars
  PROVE  RetryInv'
<1>0. TypeOK /\ HandlerInv /\ RowInv /\ overruns \in Nat /\ faults \in Nat
  BY ChargeBoundAssumption DEF Inv, TypeOK
<1>i. \A r \in Request : pc[r] # "idle" => input[r] # None /\ input[r].order \in Order
  BY <1>0, InputFields DEF HandlerInv
<1>1. ASSUME Fault PROVE RetryInv'
  BY <1>0, <1>1 DEF Fault, RetryInv
<1>2. ASSUME NEW r \in Request, Call(r) PROVE RetryInv'
  <2>0. /\ pc[r] = "call" /\ input' = input /\ row' = row
        /\ overruns' = overruns /\ faults' = faults
    BY <1>2 DEF Call, budgetVars
  <2>1. CASE overruns + faults # 0
    BY <2>0, <2>1 DEF RetryInv
  <2>2. CASE overruns + faults = 0
    <3>1. accepted[input[r].order] = None
      <4> SUFFICES ASSUME accepted[input[r].order] # None PROVE FALSE
        OBVIOUS
      <4>1. overruns = 0 /\ row[input[r].order] = None
        BY <1>0, <2>0, <2>2 DEF LockInv, CallsOnlyNewOrders
      <4>2. PICK q \in Request : pc[q] = "persist" /\ input[q].order = input[r].order
        BY <1>i, <2>0, <2>2, <4>1 DEF RetryInv
      <4> QED BY <2>0, <4>1, <4>2 DEF LockInv, OrderHeld
    <3>2. /\ accepted' = [accepted EXCEPT ![input[r].order] = input[r]]
          /\ refused' = refused /\ pc' = [pc EXCEPT ![r] = "persist"]
      BY <1>2, <3>1 DEF Call, Accept, GoTo
    <3>3. pc'[r] = "persist" /\ \A q \in Request : pc[q] = "persist" => pc'[q] = "persist"
      BY <1>0, <3>2 DEF TypeOK
    <3> QED BY <1>0, <1>i, <2>0, <2>2, <3>2, <3>3 DEF RetryInv, TypeOK
  <2> QED BY <2>1, <2>2
<1>3. ASSUME NEW r \in Request, Persist(r) PROVE RetryInv'
  <2>0. /\ pc[r] = "persist" /\ input' = input /\ accepted' = accepted /\ refused' = refused
        /\ overruns' = overruns /\ faults' = faults
        /\ \A q \in Request : q # r => pc'[q] = pc[q]
    BY <1>0, <1>3 DEF Persist, budgetVars, GoTo, TypeOK
  <2>1. row'[input[r].order] # None
    BY <1>0, <1>i, <1>3, <2>0 DEF Persist, Insert, TypeOK
  <2>2. \A o \in Order : o # input[r].order => row'[o] = row[o]
    BY <1>0, <1>3 DEF Persist, Insert, TypeOK
  <2> QED BY <1>i, <2>0, <2>1, <2>2 DEF RetryInv
<1>4. ASSUME NEW r \in Request,
             Arrive(r) \/ Replay(r) \/ Lookup(r) \/ CacheResult(r)
               \/ LockKey(r) \/ LockOrder(r) \/ UnlockOrder(r) \/ UnlockKey(r)
      PROVE  RetryInv'
  <2>1. /\ UNCHANGED <<accepted, row, refused, overruns, faults>>
        /\ \A q \in Request : pc[q] = "persist" => pc'[q] = "persist" /\ input'[q] = input[q]
    BY <1>0, <1>4 DEF Arrive, Replay, Lookup, CacheResult, LockKey, LockOrder, UnlockOrder,
       UnlockKey, Done, GoTo, chargeVars, budgetVars, TypeOK
  <2> QED BY <1>0, <2>1, RetryKept
<1>5. CASE Expiry \/ UNCHANGED vars
  <2>1. UNCHANGED <<accepted, row, refused, pc, input>>
    BY <1>5 DEF Expiry, ExpireKeyLock, ExpireOrderLock, Evict, vars, handlerVars, chargeVars
  <2>2. (overruns' = overruns \/ overruns' = overruns + 1) /\ faults' = faults
    BY <1>5 DEF Expiry, ExpireKeyLock, ExpireOrderLock, ExpiresFrom, Evict, vars, budgetVars
  <2>3. overruns' + faults' = 0 => overruns + faults = 0
    <3>1. overruns \in Nat /\ faults \in Nat
      BY <1>0
    <3> QED BY <2>2, <3>1, SMT
  <2>4. \A q \in Request : pc[q] = "persist" => pc'[q] = "persist" /\ input'[q] = input[q]
    BY <2>1
  <2> QED BY <1>0, <2>1, <2>3, <2>4, RetryKept
<1> QED
  BY <1>1, <1>2, <1>3, <1>4, <1>5, NextCases DEF Step, LockStep, ReplayMisses, LockFails,
     SelectFails, CallFails, PersistFails, CacheFails, UnlockFails, Abort

\* While no call fails and no lock expires too early Midtrans never refuses an order.
THEOREM RetryIsAnsweredHolds == Spec => []RetryIsAnswered
<1>1. Init => LockInv /\ RetryInv
  BY DEF Init, LockInv, OrderHeld, CallsOnlyNewOrders, RetryInv
<1>2. Inv /\ LockInv /\ RetryInv /\ [Next]_vars => LockInv' /\ RetryInv'
  BY LockInvStep, RetryStep DEF Inv
<1>3. RetryInv => RetryIsAnswered
  BY DEF RetryInv, RetryIsAnswered
<1> QED BY <1>1, <1>2, <1>3, Invariance, PTL DEF Spec

--------------------------------------------------------------------------------
(* While nothing fails, expires or is evicted: a handler has its key alone *)
(* from the SET NX to the DEL, and what it answers with is cached under    *)
(* the key by then.                                                        *)

Undisturbed == overruns = 0 /\ faults = 0 /\ evictions = 0

KeyHeld(r) == pc[r] \notin {"idle", "key"}

KeyInv ==
    Undisturbed =>
        /\ \A r \in Request :
              /\ KeyHeld(r) => keyLock[input[r].key] = r
              /\ KeyHeld(r) /\ pc[r] \notin {"replay", "unlockOrder", "unlockKey"}
                    => cache[input[r].key] = None
              /\ answer[r] = "created" =>
                    /\ pc[r] \in {"cache", "unlockOrder", "unlockKey"}
                    /\ pc[r] # "cache" => cache[input[r].key] = input[r].order
        /\ \A i \in created : i \in Input /\ cache[i.key] = i.order

CreatedInv == \A i \in created : row[i.order] # None /\ row[i.order].body = i.body

\* Whoever is answered with success is answered for a charge of her own order and
\* payload: the one Midtrans has accepted, and the only one, is what the row says.
AnsweredIsCharged ==
    \A i \in created :
        /\ accepted[i.order] # None /\ row[i.order] = accepted[i.order]
        /\ accepted[i.order].order = i.order /\ accepted[i.order].body = i.body

\* What is answered has a row with its payload, and keeps it.
LEMMA CreatedStep ==
  ASSUME Inv, CreatedInv, [Next]_vars
  PROVE  CreatedInv'
<1>0. /\ [Once!Next]_<<accepted, row, created>>
      /\ \A o \in Order : row[o] # None => row'[o] = row[o]
      /\ \A i \in created : i.order \in Order
  BY ChargeStep, InputFields DEF Inv, TypeOK
<1>1. CASE UNCHANGED <<accepted, row, created>>
  BY <1>1 DEF CreatedInv
<1>2. CASE Once!Next
  <2>1. ASSUME NEW i \in Input, Once!Accept(i) PROVE CreatedInv'
    BY <2>1 DEF Once!Accept, CreatedInv
  <2>2. ASSUME NEW i \in Input, Once!Answer(i) PROVE CreatedInv'
    BY <2>2 DEF Once!Answer, CreatedInv
  <2>3. ASSUME NEW o \in Order, Once!Persist(o) PROVE CreatedInv'
    BY <1>0, <2>3 DEF Once!Persist, CreatedInv
  <2> QED BY <1>2, <2>1, <2>2, <2>3 DEF Once!Next, Once!Input, Input
<1> QED BY <1>0, <1>1, <1>2

\* No failure, expiry or race makes a 201 of a charge that Midtrans does not have, or has
\* for another payload.
THEOREM AnsweredIsChargedHolds == Spec => []AnsweredIsCharged
<1>1. Init => CreatedInv
  BY DEF Init, CreatedInv
<1>2. Inv /\ CreatedInv /\ [Next]_vars => CreatedInv'
  BY CreatedStep
<1>3. Inv /\ CreatedInv => AnsweredIsCharged
  BY InputFields DEF Inv, TypeOK, RowInv, CreatedInv, AnsweredIsCharged
<1> QED BY <1>1, <1>2, <1>3, Invariance, PTL DEF Spec

\* Every step keeps KeyInv.
LEMMA KeyStep ==
  ASSUME Inv, KeyInv, [Next]_vars
  PROVE  KeyInv'
<1> USE DEF KeyHeld
<1>0. TypeOK /\ HandlerInv /\ RowInv /\ overruns \in Nat /\ faults \in Nat /\ evictions \in Nat
  BY ChargeBoundAssumption DEF Inv, TypeOK
<1>i. \A r \in Request : pc[r] # "idle" =>
         input[r] \in Input /\ input[r].key \in Key /\ input[r].order \in Order
            /\ input[r].order # None
  BY <1>0, InputFields, NoneAssumption DEF HandlerInv
<1>1. Undisturbed' => Undisturbed /\ ~Fault
  BY <1>0 DEF Undisturbed, Fault, TypeOK, Next, Handle, HandleFault, vars, budgetVars, Arrive,
     LockKey, Replay, LockOrder, Lookup, Call, Persist, CacheResult, UnlockOrder, UnlockKey,
     ReplayMisses, LockFails, SelectFails, CallFails, PersistFails, CacheFails, UnlockFails, Abort,
     ExpireKeyLock, ExpireOrderLock, ExpiresFrom, Evict
<1> DEFINE Held(r) ==
              /\ KeyHeld(r) => keyLock[input[r].key] = r
              /\ KeyHeld(r) /\ pc[r] \notin {"replay", "unlockOrder", "unlockKey"}
                    => cache[input[r].key] = None
              /\ answer[r] = "created" =>
                    /\ pc[r] \in {"cache", "unlockOrder", "unlockKey"}
                    /\ pc[r] # "cache" => cache[input[r].key] = input[r].order
           Goal == /\ \A r \in Request : Held(r)'
                   /\ \A i \in created' : i \in Input /\ cache'[i.key] = i.order
<1> SUFFICES ASSUME Undisturbed' PROVE Goal
  BY DEF KeyInv
<1>2. /\ \A r \in Request : Held(r)
      /\ \A i \in created : i \in Input /\ cache[i.key] = i.order
  BY <1>1 DEF KeyInv
\* A step inside the part that has the key, with the answer as it was.
<1>3. ASSUME NEW r \in Request, NEW p \in Phase \ {"idle", "key", "replay"}, KeyHeld(r),
             p \in {"unlockOrder", "unlockKey"} \/ cache[input[r].key] = None,
             answer[r] = "created" => p \in {"unlockOrder", "unlockKey"} /\ pc[r] # "cache",
             GoTo(r, p), UNCHANGED <<input, answer, keyLock, cache, created>>
      PROVE  Goal
  BY <1>0, <1>2, <1>3 DEF GoTo, TypeOK
<1>4. ASSUME NEW r \in Request, Done(r), UNCHANGED <<keyLock, cache, created>> PROVE Goal
  BY <1>0, <1>2, <1>4 DEF Done, GoTo, TypeOK
<1>5. ASSUME NEW r \in Request, Arrive(r) PROVE Goal
  BY <1>0, <1>2, <1>5 DEF Arrive, GoTo, TypeOK, redisVars
<1>6. ASSUME NEW r \in Request, LockKey(r) PROVE Goal
  <2>1. CASE keyLock[input[r].key] = Free
    BY LockAssumption, <1>0, <1>i, <1>2, <1>6, <2>1 DEF LockKey, GoTo, TypeOK
  <2>2. CASE keyLock[input[r].key] # Free
    BY <1>4, <1>6, <2>2 DEF LockKey
  <2> QED BY <2>1, <2>2
<1>7. ASSUME NEW r \in Request, Replay(r) PROVE Goal
  <2> DEFINE o == cache[input[r].key]
  <2>1. CASE o # None /\ SamePayload(r, o)
    <3>1. o = input[r].order
      BY <1>0, <1>i, <1>7, <2>1 DEF Replay, SamePayload, TypeOK, RowInv, Inv, CacheInv
    <3>2. HasAnswer(r) /\ GoTo(r, "unlockKey") /\ UNCHANGED <<input, keyLock, cache, created>>
      BY <1>7, <2>1 DEF Replay, redisVars
    <3> QED BY <1>0, <1>2, <1>7, <3>1, <3>2 DEF Replay, HasAnswer, GoTo, TypeOK
  <2>2. CASE ~(o # None /\ SamePayload(r, o))
    BY <1>2, <1>3, <1>7, <2>2 DEF Replay, redisVars, Phase
  <2> QED BY <2>1, <2>2
<1>8. ASSUME NEW r \in Request, LockOrder(r) \/ Call(r) \/ UnlockOrder(r) PROVE Goal
  <2>1. /\ pc[r] \in {"order", "call", "unlockOrder"}
        /\ UNCHANGED <<input, answer, keyLock, cache, created>>
        /\ \E p \in {"lookup", "persist", "unlockOrder", "unlockKey"} :
              /\ GoTo(r, p)
              /\ pc[r] = "unlockOrder" => p = "unlockKey"
    BY <1>8 DEF LockOrder, Call, UnlockOrder, redisVars
  <2> QED BY <1>2, <1>3, <2>1 DEF Phase
<1>9. ASSUME NEW r \in Request, Lookup(r) \/ Persist(r) PROVE Goal
  <2>1. CASE HasAnswer(r) /\ GoTo(r, "cache")
    BY <1>0, <1>2, <1>9, <2>1 DEF Lookup, Persist, HasAnswer, GoTo, TypeOK, redisVars
  <2>2. CASE UNCHANGED answer /\ (GoTo(r, "call") \/ GoTo(r, "unlockOrder"))
    BY <1>2, <1>3, <1>9, <2>2 DEF Lookup, Persist, redisVars, Phase
  <2> QED BY <1>9, <2>1, <2>2 DEF Lookup, Persist
<1>10. ASSUME NEW r \in Request, CacheResult(r) PROVE Goal
  <2>1. \A i \in created : i.key # input[r].key
    <3>1. \A i \in created : i.order # None
      BY <1>2, InputFields, NoneAssumption
    <3>2. cache[input[r].key] = None
      BY <1>2, <1>10 DEF CacheResult
    <3> QED BY <1>2, <3>1, <3>2
  <2> QED BY <1>0, <1>i, <1>2, <1>10, <2>1 DEF CacheResult, GoTo, TypeOK
<1>11. ASSUME NEW r \in Request, UnlockKey(r) PROVE Goal
  <2>1. /\ pc[r] = "unlockKey" /\ keyLock' = [keyLock EXCEPT ![input[r].key] = Free]
        /\ cache' = cache /\ Reply(r) /\ Done(r)
    BY <1>11 DEF UnlockKey
  <2>2. \A q \in Request : q # r => (KeyHeld(q) => input[q].key # input[r].key)
    BY <1>2, <2>1
  <2>3. \A q \in Request : Held(q)'
    BY <1>0, <1>i, <1>2, <2>1, <2>2 DEF Done, GoTo, TypeOK
  <2>4. \A i \in created' : i \in Input /\ cache'[i.key] = i.order
    BY <1>i, <1>2, <2>1 DEF Reply
  <2> QED BY <2>3, <2>4
<1>12. ASSUME NEW k \in Key, ExpireKeyLock(k) PROVE Goal
  <2>1. keyLock[k] \notin Request
    BY LockAssumption, <1>0, <1>1, <1>12 DEF ExpireKeyLock, ExpiresFrom, Undisturbed, budgetVars
  <2> QED BY <1>0, <1>2, <1>12, <2>1 DEF ExpireKeyLock, TypeOK
<1>13. ASSUME NEW o \in Order, ExpireOrderLock(o) PROVE Goal
  BY <1>2, <1>13 DEF ExpireOrderLock
<1>14. ASSUME NEW k \in Key, Evict(k) PROVE Goal
  BY <1>0, <1>14 DEF Evict, Undisturbed
<1>15. CASE UNCHANGED vars
  BY <1>2, <1>15 DEF vars, handlerVars, redisVars
<1> QED
  BY <1>1, <1>5, <1>6, <1>7, <1>8, <1>9, <1>10, <1>11, <1>12, <1>13, <1>14, <1>15, NextCases
     DEF Step, LockStep, Expiry, ReplayMisses, LockFails, SelectFails, CallFails, PersistFails,
         CacheFails, UnlockFails, Abort

\* While nothing fails, expires or is evicted, one key is answered with success for one
\* request only, whatever number of requests share it.
THEOREM KeyNamesOneRequestHolds == Spec => []KeyNamesOneRequest
<1>1. Init => KeyInv /\ CreatedInv
  BY DEF Init, KeyInv, KeyHeld, CreatedInv
<1>2. Inv /\ KeyInv /\ CreatedInv /\ [Next]_vars => KeyInv' /\ CreatedInv'
  BY KeyStep, CreatedStep
<1>3. Inv /\ KeyInv /\ CreatedInv => KeyNamesOneRequest
  <2> SUFFICES ASSUME Inv, KeyInv, CreatedInv, overruns + faults + evictions = 0,
                      NEW i \in created, NEW j \in created, i.key = j.key
               PROVE  i = j
    BY DEF KeyNamesOneRequest
  <2>1. Undisturbed
    BY ChargeBoundAssumption DEF Inv, TypeOK, Undisturbed
  <2>2. i \in Input /\ j \in Input /\ i.order = j.order
    BY <2>1 DEF KeyInv
  <2>3. i.body = j.body
    BY <2>2 DEF CreatedInv
  <2> QED BY <2>2, <2>3 DEF Input
<1> QED BY <1>1, <1>2, <1>3, Invariance, PTL DEF Spec

--------------------------------------------------------------------------------
(* Locks and the handlers that made them.                                  *)

\* A handler on its way keeps what it has locked; one that leaves has nothing any more.
LEMMA ForgottenStep ==
  ASSUME TypeOK, HandlerInv, NoLockForgotten, [Next]_vars
  PROVE  NoLockForgotten'
<1> USE LockAssumption DEF TypeOK, Phase, NoLockForgotten, GoTo, Done
<1>i. \A r \in Request : pc[r] # "idle" => input[r].order \in Order /\ input[r].key \in Key
  BY InputFields DEF HandlerInv
<1>1. ASSUME NEW r \in Request, pc[r] \notin {"idle", "key"}, UNCHANGED <<input, keyLock, orderLock>>,
             NEW p \in Phase \ {"idle", "key"}, GoTo(r, p),
             p \notin {"replay", "order", "unlockKey"} \/ pc[r] \in {"replay", "order"}
      PROVE  NoLockForgotten'
  BY <1>1
<1>2. ASSUME NEW r \in Request, Step(r) PROVE NoLockForgotten'
  <2>1. CASE Arrive(r)
    BY <2>1 DEF Arrive, redisVars
  <2>2. CASE Replay(r) \/ Lookup(r) \/ Call(r) \/ Persist(r) \/ ReplayMisses(r)
    BY <1>1, <2>2 DEF Replay, Lookup, Call, Persist, ReplayMisses, redisVars
  <2>3. CASE CacheResult(r) \/ SelectFails(r) \/ CallFails(r) \/ PersistFails(r) \/ CacheFails(r)
    BY <1>1, <2>3 DEF CacheResult, SelectFails, CallFails, PersistFails, CacheFails, redisVars
  <2> QED BY <1>2, <2>1, <2>2, <2>3 DEF Step
<1>3. ASSUME NEW r \in Request, LockStep(r) PROVE NoLockForgotten'
  <2>1. CASE LockKey(r)
    BY <2>1, <1>i DEF LockKey
  <2>2. CASE LockOrder(r)
    BY <2>2, <1>i DEF LockOrder
  <2>3. CASE UnlockOrder(r)
    BY <2>3, <1>i DEF UnlockOrder
  <2>4. CASE UnlockKey(r)
    BY <2>4, <1>i DEF UnlockKey
  <2>5. CASE LockFails(r)
    BY <2>5, <1>i DEF LockFails
  <2>6. CASE UnlockFails(r)
    BY <2>6, <1>i DEF UnlockFails, Left
  <2>7. CASE Abort(r)
    BY <2>7, <1>i DEF Abort, Left
  <2> QED BY <1>3, <2>1, <2>2, <2>3, <2>4, <2>5, <2>6, <2>7 DEF LockStep
<1>4. CASE Expiry
  BY <1>4 DEF Expiry, ExpireKeyLock, ExpireOrderLock, Evict, handlerVars
<1>5. CASE UNCHANGED vars
  BY <1>5 DEF vars, handlerVars, redisVars
<1> QED BY <1>2, <1>3, <1>4, <1>5, NextCases

\* No handler returns, on any of its paths, leaving a lock that it still could delete.
THEOREM NoLockForgottenHolds == Spec => []NoLockForgotten
<1>1. Init => NoLockForgotten
  BY LockAssumption DEF Init, NoLockForgotten
<1>2. Inv /\ NoLockForgotten /\ [Next]_vars => NoLockForgotten'
  BY ForgottenStep DEF Inv
<1> QED BY <1>1, <1>2, Invariance, PTL DEF Spec
================================================================================
