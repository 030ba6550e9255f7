---------------------------- MODULE StoreTokenProofs ----------------------------
(***************************************************************************)
(* Proofs about StoreToken.                                                *)
(*                                                                         *)
(* The inductive invariant Inv says what a handler's own state promises:   *)
(* an owner between the SELECT and the transaction of a rotation has a new *)
(* token nobody else has (OwnerInv), a request has a token that exists     *)
(* (RequestInv), the lineages of tokens that exist are named by tokens that*)
(* exist (RootInv), and a request that has passed a check has no reason to *)
(* be refused by it (RefusedInv); an edit that will activate a store that  *)
(* is to stay inactive had read it before (EditInv).                       *)
(***************************************************************************)
EXTENDS StoreToken, TLAPS

OwnerInv ==
    /\ \A a \in Owner : opc[a] = "rotate" =>
          /\ otoken[a] \in Token /\ onew[a] \in Token
          /\ status[otoken[a]] # "none" /\ status[onew[a]] = "none"
          /\ \A b \in Owner : onew[b] = onew[a] => b = a
    /\ \A a \in Owner : opc[a] = "set" => onew[a] \in Token

RequestInv ==
    \A r \in Request :
        /\ rpc[r] # "idle" => rtoken[r] \in Token /\ status[rtoken[r]] # "none"
        /\ rpc[r] = "idle" => reason[r] = {}

RootInv ==
    /\ \A t \in Token : status[t] # "none" => status[root[t]] # "none"
    /\ \A t \in ended : status[t] # "none"

RefusedInv ==
    /\ \A r \in Request :
          /\ "inactive" \in reason[r] => ~active
          /\ "expired" \in reason[r] => root[rtoken[r]] \in expired
          /\ rpc[r] \in {"store", "set"} => "expired" \notin reason[r]
          /\ rpc[r] = "set" => "inactive" \notin reason[r]
    /\ InactiveOrExpiredRefused

EditInv ==
    /\ DeactivationKept
    /\ \A e \in editing : off /\ ~edit[e].asked /\ edit[e].active => e \in late

Inv == /\ TypeOK /\ OwnerInv /\ RequestInv /\ RootInv
       /\ OneActivePerLineage /\ RevokeEndsLineage /\ RefusedInv /\ EditInv

--------------------------------------------------------------------------------
\* The fields of an edit.
LEMMA EditTypes == NoEdit \in Edit
                   /\ \A e \in Edit : e.asked \in BOOLEAN /\ e.active \in BOOLEAN
  BY DEF NoEdit, Edit

\* The first state satisfies the invariant.
LEMMA InitInv == Init => Inv
<1> SUFFICES ASSUME Init PROVE Inv
  OBVIOUS
<1>1. TypeOK
  <2>1. edit \in [Editor -> Edit]
    BY EditTypes DEF Init
  <2>2. /\ reason \in [Request -> SUBSET Reason]
        /\ rpc \in [Request -> {"idle", "get", "store", "select", "set"}]
        /\ opc \in [Owner -> {"idle", "rotate", "del", "set"}]
    BY DEF Init
  <2>3. /\ rtoken \in [Request -> Token \union {NoToken}]
        /\ otoken \in [Owner -> Token \union {NoToken}]
        /\ onew \in [Owner -> Token \union {NoToken}]
    BY DEF Init
  <2>4. /\ status \in [Token -> {"none", "active", "revoked"}]
        /\ root \in [Token -> Token]
        /\ calls \in Workloads /\ faults \in 0..MaxFaults
    BY TokenBoundAssumption DEF Init
  <2> QED BY <2>1, <2>2, <2>3, <2>4 DEF Init, TypeOK
<1>2. OwnerInv /\ RequestInv /\ RootInv
  BY NoTokenAssumption DEF Init, OwnerInv, RequestInv, RootInv
<1>3. OneActivePerLineage /\ RevokeEndsLineage /\ RefusedInv /\ EditInv
  BY DEF Init, OneActivePerLineage, RevokeEndsLineage, RefusedInv, InactiveOrExpiredRefused,
         EditInv, DeactivationKept
<1> QED BY <1>1, <1>2, <1>3 DEF Inv

\* What each action does to the rows.
LEMMA RowsStep ==
  ASSUME Inv, [Next]_vars
  PROVE  /\ RootInv' /\ OneActivePerLineage' /\ RevokeEndsLineage'
         /\ \A t \in Token : status[t] # "none" => status'[t] # "none" /\ root'[t] = root[t]
<1> USE DEF Inv, RootInv, OneActivePerLineage, RevokeEndsLineage, TypeOK
<1> DEFINE Goal == /\ RootInv' /\ OneActivePerLineage' /\ RevokeEndsLineage'
                   /\ \A t \in Token :
                         status[t] # "none" => status'[t] # "none" /\ root'[t] = root[t]
<1>1. ASSUME UNCHANGED rowVars PROVE Goal
  BY <1>1 DEF rowVars, storeVars
<1>2. ASSUME NEW a \in Owner, NEW t \in Token, CreateForStore(a, t) PROVE Goal
  BY <1>2 DEF CreateForStore, Unused
<1>3. ASSUME NEW a \in Owner, NEW t \in Token, RevokeForStore(a, t) PROVE Goal
  BY <1>3 DEF RevokeForStore
<1>4. ASSUME NEW a \in Owner, ReplaceToken(a) PROVE Goal
  <2>1. CASE status[otoken[a]] = "active"
    <3>1. /\ otoken[a] \in Token /\ onew[a] \in Token /\ status[onew[a]] = "none"
      BY <1>4 DEF ReplaceToken, OwnerInv
    <3>2. /\ status' = [status EXCEPT ![otoken[a]] = "revoked", ![onew[a]] = "active"]
          /\ root' = [root EXCEPT ![onew[a]] = root[otoken[a]]]
          /\ ended' = ended
      BY <1>4, <2>1 DEF ReplaceToken
    <3>3. otoken[a] # onew[a]
      BY <2>1, <3>1
    <3>4. /\ status'[otoken[a]] = "revoked" /\ status'[onew[a]] = "active"
          /\ root'[onew[a]] = root[otoken[a]]
          /\ \A t \in Token \ {otoken[a], onew[a]} : status'[t] = status[t]
          /\ \A t \in Token \ {onew[a]} : root'[t] = root[t]
      BY <3>1, <3>2, <3>3
    <3> QED BY <2>1, <3>1, <3>2, <3>3, <3>4
  <2>2. CASE status[otoken[a]] # "active"
    BY <1>1, <1>4, <2>2 DEF ReplaceToken, rowVars, storeVars
  <2> QED BY <2>1, <2>2
<1>5. CASE UNCHANGED vars
  BY <1>1, <1>5 DEF vars
<1>6. CASE \E r \in Request : (\E t \in Token : Arrive(r, t)) \/ Authenticate(r) \/ RequestFails(r)
  BY <1>1, <1>6 DEF Arrive, Authenticate, LoadCachedPrincipal, StoreIsActive, SelectToken,
                    CachePrincipal, RequestFails, Fault
<1>7. CASE \/ DeactivateStore \/ (\E e \in Editor : ReadStore(e) \/ UpdateStore(e))
           \/ \E t \in Token : PassExpiry(t) \/ EvictCached(t)
  BY <1>1, <1>7 DEF DeactivateStore, ReadStore, UpdateStore, WriteStore, SetActive, PassExpiry, EvictCached
<1>8. CASE \E a \in Owner : \/ \E t, new \in Token : RotateForStore(a, t, new)
                            \/ DeleteCached(a) \/ CacheCreated(a)
                            \/ OwnerRedisFails(a) \/ OwnerAborts(a)
  BY <1>1, <1>8 DEF RotateForStore, DeleteCached, CacheCreated, OwnerRedisFails, OwnerAborts, Fault
<1> QED
  BY <1>2, <1>3, <1>4, <1>5, <1>6, <1>7, <1>8 DEF Next, Own

\* Every step keeps what an owner has read in agreement with the rows.
LEMMA OwnerStep ==
  ASSUME Inv, [Next]_vars
  PROVE  OwnerInv'
<1> USE NoTokenAssumption DEF OwnerInv
<1>0. TypeOK /\ OwnerInv
  BY DEF Inv
<1>1. \A t \in Token : status[t] # "none" => status'[t] # "none"
  BY RowsStep
<1>2. ASSUME UNCHANGED <<ownerVars, status>> PROVE OwnerInv'
  BY <1>0, <1>2 DEF ownerVars
<1>3. ASSUME NEW a \in Owner, NEW t \in Token, CreateForStore(a, t) PROVE OwnerInv'
  BY <1>0, <1>3 DEF CreateForStore, Unused, OwnerGoesTo, TypeOK
<1>4. ASSUME NEW a \in Owner, NEW t \in Token, RevokeForStore(a, t) PROVE OwnerInv'
  BY <1>0, <1>4 DEF RevokeForStore, OwnerGoesTo, TypeOK
<1>5. ASSUME NEW a \in Owner, NEW t \in Token, NEW new \in Token, RotateForStore(a, t, new)
      PROVE  OwnerInv'
  BY <1>0, <1>5 DEF RotateForStore, Unused, OwnerGoesTo, TypeOK, rowVars, storeVars
<1>6. ASSUME NEW a \in Owner, ReplaceToken(a) PROVE OwnerInv'
  BY <1>0, <1>1, <1>6 DEF ReplaceToken, OwnerGoesTo, TypeOK
<1>7. ASSUME NEW a \in Owner, DeleteCached(a) \/ CacheCreated(a) \/ OwnerRedisFails(a) \/ OwnerAborts(a)
      PROVE  OwnerInv'
  BY <1>0, <1>7 DEF DeleteCached, CacheCreated, OwnerRedisFails, OwnerAborts, AfterDelete, Answer,
                    OwnerGoesTo, Fault, TypeOK, rowVars, storeVars
<1>8. CASE UNCHANGED vars
  BY <1>2, <1>8 DEF vars, rowVars, storeVars
<1>9. CASE \E r \in Request : (\E t \in Token : Arrive(r, t)) \/ Authenticate(r) \/ RequestFails(r)
  BY <1>2, <1>9 DEF Arrive, Authenticate, LoadCachedPrincipal, StoreIsActive, SelectToken,
                    CachePrincipal, RequestFails, Fault, rowVars, storeVars
<1>10. CASE \/ DeactivateStore \/ (\E e \in Editor : ReadStore(e) \/ UpdateStore(e))
            \/ \E t \in Token : PassExpiry(t) \/ EvictCached(t)
  BY <1>2, <1>10 DEF DeactivateStore, ReadStore, UpdateStore, WriteStore, SetActive, PassExpiry, EvictCached, rowVars, storeVars
<1> QED
  BY <1>3, <1>4, <1>5, <1>6, <1>7, <1>8, <1>9, <1>10 DEF Next, Own

\* Every step keeps the types.
LEMMA TypeStep ==
  ASSUME Inv, [Next]_vars
  PROVE  TypeOK'
<1> USE NoTokenAssumption, TokenBoundAssumption, WorkloadAssumption DEF TypeOK
<1>0. TypeOK /\ OwnerInv /\ RequestInv
  BY DEF Inv
<1>1. CASE UNCHANGED vars
  BY <1>0, <1>1 DEF vars, rowVars, requestVars, ownerVars, storeVars
<1>2. ASSUME NEW r \in Request, NEW t \in Token, Arrive(r, t) PROVE TypeOK'
  <2>1. {x \in Reason : \/ x = "revoked"  /\ t \in gone
                        \/ x = "expired"  /\ root[t] \in expired
                        \/ x = "inactive" /\ ~active} \in SUBSET Reason
    OBVIOUS
  <2> QED BY <1>0, <1>2, <2>1 DEF Arrive, rowVars, storeVars, ownerVars
<1>3. ASSUME NEW r \in Request, Authenticate(r) PROVE TypeOK'
  BY <1>0, <1>3 DEF RequestInv, Authenticate, LoadCachedPrincipal, StoreIsActive, SelectToken,
        CachePrincipal, Refuse, Accept, Leave, Proceed, rowVars, storeVars, ownerVars
<1>4. ASSUME NEW r \in Request, RequestFails(r) PROVE TypeOK'
  BY <1>0, <1>4 DEF RequestFails, Fault, Refuse, Accept, Leave, rowVars, storeVars, ownerVars
<1>5. ASSUME NEW a \in Owner, NEW t \in Token, CreateForStore(a, t) \/ RevokeForStore(a, t) PROVE TypeOK'
  BY <1>0, <1>5 DEF CreateForStore, RevokeForStore, OwnerGoesTo, requestVars, storeVars
<1>6. ASSUME NEW a \in Owner, NEW t \in Token, NEW new \in Token, RotateForStore(a, t, new)
      PROVE  TypeOK'
  BY <1>0, <1>6 DEF RotateForStore, OwnerGoesTo, requestVars, rowVars, storeVars
<1>7. ASSUME NEW a \in Owner, Own(a) PROVE TypeOK'
  BY <1>0, <1>7 DEF OwnerInv, Own, ReplaceToken, DeleteCached, CacheCreated, AfterDelete, Answer,
        OwnerGoesTo, requestVars, rowVars, storeVars
<1>8. ASSUME NEW a \in Owner, OwnerRedisFails(a) \/ OwnerAborts(a) PROVE TypeOK'
  BY <1>0, <1>8 DEF OwnerRedisFails, OwnerAborts, AfterDelete, Answer, OwnerGoesTo, Fault,
        requestVars, rowVars, storeVars
<1>9. CASE DeactivateStore
  BY <1>0, <1>9 DEF DeactivateStore, SetActive, rowVars, ownerVars
<1>11. ASSUME NEW e \in Editor, ReadStore(e) PROVE TypeOK'
  <2>1. edit' \in [Editor -> Edit]
    BY <1>0, <1>11 DEF ReadStore, Edit
  <2> QED BY <1>0, <1>11, <2>1 DEF ReadStore, rowVars, requestVars, ownerVars
<1>12. ASSUME NEW e \in Editor, UpdateStore(e) PROVE TypeOK'
  BY <1>0, <1>12, EditTypes DEF UpdateStore, WriteStore, SetActive, rowVars, ownerVars
<1>10. ASSUME NEW t \in Token, PassExpiry(t) \/ EvictCached(t) PROVE TypeOK'
  BY <1>0, <1>10 DEF PassExpiry, EvictCached, rowVars, requestVars, ownerVars, storeVars
<1> QED
  BY <1>1, <1>2, <1>3, <1>4, <1>5, <1>6, <1>7, <1>8, <1>9, <1>10, <1>11, <1>12 DEF Next

\* Every step keeps what a request has seen in agreement with rows and cache.
LEMMA RequestStep ==
  ASSUME Inv, [Next]_vars
  PROVE  RequestInv' /\ RefusedInv'
<1> USE DEF RequestInv, RefusedInv, InactiveOrExpiredRefused
<1>0. TypeOK /\ RequestInv /\ RefusedInv
  BY DEF Inv
<1>1. \A t \in Token : status[t] # "none" => status'[t] # "none" /\ root'[t] = root[t]
  BY RowsStep
<1>2. ASSUME UNCHANGED <<requestVars, storeVars>>, expired \subseteq expired'
      PROVE  RequestInv' /\ RefusedInv'
  BY <1>0, <1>1, <1>2 DEF requestVars, storeVars, TypeOK
<1>3. CASE UNCHANGED vars
  BY <1>2, <1>3 DEF vars
<1>4. ASSUME NEW r \in Request, NEW t \in Token, Arrive(r, t) PROVE RequestInv' /\ RefusedInv'
  BY <1>0, <1>4 DEF Arrive, TypeOK, rowVars, storeVars
<1>5. ASSUME NEW r \in Request, LoadCachedPrincipal(r) PROVE RequestInv' /\ RefusedInv'
  BY <1>0, <1>5 DEF LoadCachedPrincipal, Refuse, Leave, Proceed, TypeOK, rowVars, storeVars
<1>6. ASSUME NEW r \in Request, StoreIsActive(r) PROVE RequestInv' /\ RefusedInv'
  BY <1>0, <1>6 DEF StoreIsActive, Accept, Refuse, Leave, TypeOK, rowVars, storeVars
<1>7. ASSUME NEW r \in Request, SelectToken(r) PROVE RequestInv' /\ RefusedInv'
  BY <1>0, <1>7 DEF SelectToken, Refuse, Leave, Proceed, TypeOK, rowVars, storeVars
<1>8. ASSUME NEW r \in Request, CachePrincipal(r) PROVE RequestInv' /\ RefusedInv'
  BY <1>0, <1>8 DEF CachePrincipal, Accept, Leave, TypeOK, rowVars, storeVars
<1>9. ASSUME NEW r \in Request, RequestFails(r) PROVE RequestInv' /\ RefusedInv'
  BY <1>0, <1>9 DEF RequestFails, Fault, Accept, Refuse, Leave, TypeOK, rowVars, storeVars
<1>10. CASE DeactivateStore \/ (\E e \in Editor : ReadStore(e) \/ UpdateStore(e))
  <2>1. ASSUME NEW on \in BOOLEAN, SetActive(on) PROVE RequestInv' /\ RefusedInv'
    BY <1>0, <2>1 DEF SetActive, TypeOK, rowVars
  <2>2. CASE DeactivateStore
    BY <2>1, <2>2 DEF DeactivateStore
  <2>3. ASSUME NEW e \in Editor, ReadStore(e) PROVE RequestInv' /\ RefusedInv'
    BY <1>0, <2>3 DEF ReadStore, TypeOK, rowVars, requestVars
  <2>4. ASSUME NEW e \in Editor, UpdateStore(e) PROVE RequestInv' /\ RefusedInv'
    <3>1. edit[e].active \in BOOLEAN
      BY <1>0, EditTypes DEF TypeOK
    <3> QED BY <2>1, <2>4, <3>1 DEF UpdateStore, WriteStore
  <2> QED BY <1>10, <2>2, <2>3, <2>4
<1>11. CASE \/ \E t \in Token : PassExpiry(t) \/ EvictCached(t)
            \/ \E a \in Owner : \/ \E t \in Token : CreateForStore(a, t) \/ RevokeForStore(a, t)
                                \/ \E t, new \in Token : RotateForStore(a, t, new)
                                \/ Own(a) \/ OwnerRedisFails(a) \/ OwnerAborts(a)
  BY <1>2, <1>11 DEF PassExpiry, EvictCached, CreateForStore, RevokeForStore, RotateForStore, Own,
        ReplaceToken, DeleteCached, CacheCreated, OwnerRedisFails, OwnerAborts, Fault
<1> QED
  BY <1>3, <1>4, <1>5, <1>6, <1>7, <1>8, <1>9, <1>10, <1>11 DEF Next, Authenticate

\* An edit that will activate the store by what it has read is late.
LEMMA EditStep ==
  ASSUME Inv, [Next]_vars
  PROVE  EditInv'
<1>0. TypeOK /\ EditInv
  BY DEF Inv
<1>t. \A e \in Editor : edit[e].asked \in BOOLEAN /\ edit[e].active \in BOOLEAN
  BY <1>0, EditTypes DEF TypeOK
<1>1. CASE UNCHANGED storeVars
  BY <1>0, <1>1 DEF EditInv, DeactivationKept, storeVars
<1>2. CASE DeactivateStore
  BY <1>0, <1>2 DEF DeactivateStore, SetActive, EditInv, DeactivationKept
<1>3. ASSUME NEW e \in Editor, ReadStore(e) PROVE EditInv'
  BY <1>0, <1>3 DEF ReadStore, EditInv, DeactivationKept, TypeOK
<1>4. ASSUME NEW e \in Editor, UpdateStore(e) PROVE EditInv'
  <2>1. CASE edit[e].asked /\ ~edit[e].active
    BY <1>0, <1>t, <1>4, <2>1 DEF UpdateStore, WriteStore, SetActive, EditInv, DeactivationKept, TypeOK
  <2>2. CASE ~(edit[e].asked /\ ~edit[e].active)
    BY <1>0, <1>t, <1>4, <2>2 DEF UpdateStore, WriteStore, SetActive, EditInv, DeactivationKept, TypeOK
  <2> QED BY <2>1, <2>2
<1>5. CASE UNCHANGED vars
  BY <1>1, <1>5 DEF vars
<1>6. CASE \E r \in Request : (\E t \in Token : Arrive(r, t)) \/ Authenticate(r) \/ RequestFails(r)
  BY <1>1, <1>6 DEF Arrive, Authenticate, LoadCachedPrincipal, StoreIsActive, SelectToken,
                    CachePrincipal, RequestFails, Fault
<1>7. CASE \/ \E t \in Token : PassExpiry(t) \/ EvictCached(t)
           \/ \E a \in Owner : \/ \E t \in Token : CreateForStore(a, t) \/ RevokeForStore(a, t)
                               \/ \E t, new \in Token : RotateForStore(a, t, new)
                               \/ Own(a) \/ OwnerRedisFails(a) \/ OwnerAborts(a)
  BY <1>1, <1>7 DEF PassExpiry, EvictCached, CreateForStore, RevokeForStore, RotateForStore, Own,
        ReplaceToken, DeleteCached, CacheCreated, OwnerRedisFails, OwnerAborts, Fault
<1> QED
  BY <1>2, <1>3, <1>4, <1>5, <1>6, <1>7 DEF Next

--------------------------------------------------------------------------------
\* Inv is an invariant, for every number of tokens, requests, owners and failures.
THEOREM Invariance == Spec => []Inv
<1>1. Init => Inv
  BY InitInv
<1>2. Inv /\ [Next]_vars => Inv'
  BY TypeStep, OwnerStep, RequestStep, RowsStep, EditStep DEF Inv
<1> QED BY <1>1, <1>2, PTL DEF Spec

\* The variables of StoreToken have their types.
THEOREM TypeCorrect == Spec => []TypeOK
<1>1. Inv => TypeOK
  BY DEF Inv
<1> QED BY <1>1, Invariance, PTL

\* Rotations and revocations that race leave at most one active token of a lineage,
\* and none of one whose owner has revoked it.
THEOREM LineagesHold == Spec => []OneActiveUntilRevoked
<1>1. Inv => OneActiveUntilRevoked
  BY DEF Inv, OneActiveUntilRevoked
<1> QED BY <1>1, Invariance, PTL

\* No cached copy lets a request through that arrived while the store was inactive, or
\* after its token had expired.
THEOREM InactiveOrExpiredRefusedHolds == Spec => []InactiveOrExpiredRefused
<1>1. Inv => InactiveOrExpiredRefused
  BY DEF Inv, RefusedInv
<1> QED BY <1>1, Invariance, PTL

\* A deactivated store is activated only by an edit that asks for it or overlapped.
THEOREM DeactivationKeptHolds == Spec => []DeactivationKept
<1>1. Inv => DeactivationKept
  BY DEF Inv, EditInv
<1> QED BY <1>1, Invariance, PTL

\* A revoked token that has left Redis, and that no handler is about to cache, stays out.
THEOREM RevocationTakesEffectHolds == Spec => RevocationTakesEffect
<1>1. ASSUME Inv, [Next]_vars, NEW t \in Token, OutOfCache(t) PROVE OutOfCache(t)'
  <2> USE NoTokenAssumption DEF OutOfCache
  <2>0. TypeOK /\ OwnerInv
    BY <1>1 DEF Inv
  <2>1. ASSUME UNCHANGED <<status, cached, rpc, rtoken, onew>> PROVE OutOfCache(t)'
    BY <1>1, <2>1
  <2>2. CASE UNCHANGED vars \/ DeactivateStore \/ (\E e \in Editor : ReadStore(e) \/ UpdateStore(e))
    BY <2>1, <2>2 DEF vars, DeactivateStore, ReadStore, UpdateStore, WriteStore, SetActive, rowVars,
                      requestVars, ownerVars
  <2>3. ASSUME NEW u \in Token, PassExpiry(u) \/ EvictCached(u) PROVE OutOfCache(t)'
    BY <1>1, <2>3 DEF PassExpiry, EvictCached, rowVars, requestVars, ownerVars
  <2>4. ASSUME NEW r \in Request, (\E u \in Token : Arrive(r, u)) \/ Authenticate(r) \/ RequestFails(r)
        PROVE  OutOfCache(t)'
    BY <1>1, <2>0, <2>4 DEF Arrive, Authenticate, LoadCachedPrincipal, StoreIsActive, SelectToken,
       CachePrincipal, RequestFails, Fault, Refuse, Accept, Leave, Proceed, TypeOK, rowVars, ownerVars
  <2>5. ASSUME NEW a \in Owner, NEW u \in Token, CreateForStore(a, u) \/ RevokeForStore(a, u)
        PROVE  OutOfCache(t)'
    BY <1>1, <2>0, <2>5 DEF CreateForStore, RevokeForStore, Unused, OwnerGoesTo, TypeOK, requestVars
  <2>6. ASSUME NEW a \in Owner, NEW u \in Token, NEW new \in Token, RotateForStore(a, u, new)
        PROVE  OutOfCache(t)'
    BY <1>1, <2>0, <2>6 DEF RotateForStore, Unused, OwnerGoesTo, TypeOK, rowVars, requestVars
  <2>7. ASSUME NEW a \in Owner, ReplaceToken(a) PROVE OutOfCache(t)'
    BY <1>1, <2>0, <2>7 DEF ReplaceToken, OwnerInv, OwnerGoesTo, TypeOK, requestVars
  <2>8. ASSUME NEW a \in Owner, DeleteCached(a) \/ CacheCreated(a) \/ OwnerRedisFails(a) \/ OwnerAborts(a)
        PROVE  OutOfCache(t)'
    BY <1>1, <2>0, <2>8 DEF DeleteCached, CacheCreated, OwnerRedisFails, OwnerAborts, AfterDelete,
       Answer, OwnerGoesTo, Fault, TypeOK, rowVars, requestVars
  <2> QED BY <1>1, <2>2, <2>3, <2>4, <2>5, <2>6, <2>7, <2>8 DEF Next, Own
<1>2. Inv /\ [Next]_vars => [\A t \in Token : OutOfCache(t) => OutOfCache(t)']_vars
  BY <1>1
<1> QED BY <1>2, Invariance, PTL DEF Spec, RevocationTakesEffect

--------------------------------------------------------------------------------
\* A token that is active is the only valid one of its lineage.
LEMMA ValidIsOne ==
  ASSUME Inv, NEW t \in Token, status[t] = "active"
  PROVE  Valid(root[t]) = {t}
BY DEF Inv, OneActivePerLineage, Valid

\* Every step on the rows is a step of the lineages, or leaves them alone.
LEMMA LineageStep ==
  ASSUME Inv, [Next]_vars
  PROVE  [Lineage!Next]_<<{t \in Token : status[t] # "none"}, [l \in Token |-> Valid(l)]>>
<1> DEFINE Issued == {t \in Token : status[t] # "none"}
           Lines  == [l \in Token |-> Valid(l)]
<1> USE DEF Inv
<1> SUFFICES Lineage!Next \/ UNCHANGED <<Issued, Lines>>
  OBVIOUS
<1>1. ASSUME UNCHANGED <<status, root>> PROVE UNCHANGED <<Issued, Lines>>
  BY <1>1 DEF Valid
<1>2. ASSUME NEW a \in Owner, NEW t \in Token, CreateForStore(a, t)
      PROVE  Lineage!Create(t)
  <2>1. status[t] = "none" /\ status' = [status EXCEPT ![t] = "active"]
        /\ root' = [root EXCEPT ![t] = t]
    BY <1>2 DEF CreateForStore, Unused
  <2>2. t \notin Issued /\ Issued' = Issued \union {t}
    BY <2>1 DEF TypeOK
  <2>3. Valid(t) = {}
    BY <2>1 DEF RootInv, Valid, TypeOK
  <2>4. Valid(t)' = {t}
    BY <2>1, <2>3 DEF Valid, TypeOK
  <2>5. \A l \in Token : l # t => Valid(l)' = Valid(l)
    BY <2>1 DEF Valid, TypeOK
  <2> QED BY <2>2, <2>3, <2>4, <2>5 DEF Lineage!Create, Lineage!Issue
<1>3. ASSUME NEW a \in Owner, NEW t \in Token, RevokeForStore(a, t)
      PROVE  Lineage!Revoke(root[t], t)
  <2>1. status[t] = "active" /\ status' = [status EXCEPT ![t] = "revoked"] /\ root' = root
    BY <1>3 DEF RevokeForStore
  <2>2. root[t] \in Token /\ Valid(root[t]) = {t}
    BY <2>1, ValidIsOne DEF TypeOK
  <2>3. Issued' = Issued
    BY <2>1 DEF TypeOK
  <2>4. \A l \in Token : Valid(l)' = Valid(l) \ {t}
    BY <2>1 DEF Valid, TypeOK
  <2>5. \A l \in Token : l # root[t] => t \notin Valid(l)
    BY DEF Valid
  <2>6. \A l \in Token : Valid(l)' = IF l = root[t] THEN {} ELSE Valid(l)
    BY <2>2, <2>4, <2>5
  <2>7. Lines' = [Lines EXCEPT ![root[t]] = {}] /\ Lines[root[t]] = {t}
    BY <2>2, <2>6
  <2> QED BY <2>3, <2>7 DEF Lineage!Revoke
<1>4. ASSUME NEW a \in Owner, ReplaceToken(a), status[otoken[a]] = "active"
      PROVE  Lineage!Next
  <2>1. PICK t \in Token, new \in Token, l \in Token :
           t = otoken[a] /\ new = onew[a] /\ l = root[t] /\ status[new] = "none"
    BY <1>4 DEF ReplaceToken, OwnerInv, TypeOK
  <2>2. /\ status' = [status EXCEPT ![t] = "revoked", ![new] = "active"]
        /\ root' = [root EXCEPT ![new] = l]
    BY <1>4, <2>1 DEF ReplaceToken
  <2>3. t # new /\ Valid(l) = {t}
    BY <1>4, <2>1, ValidIsOne
  <2>4. /\ status'[t] = "revoked" /\ status'[new] = "active" /\ root'[new] = l
        /\ \A u \in Token \ {t, new} : status'[u] = status[u]
        /\ \A u \in Token \ {new} : root'[u] = root[u]
    BY <2>2, <2>3 DEF TypeOK
  <2>5. new \notin Issued /\ Issued' = Issued \union {new}
    BY <1>4, <2>1, <2>4
  <2>6. Valid(l)' = {new}
    <3>1. \A u \in Token : status'[u] = "active" /\ root'[u] = l <=> u = new
      BY <2>1, <2>3, <2>4 DEF Valid
    <3> QED BY <3>1 DEF Valid
  <2>7. ASSUME NEW m \in Token, m # l
        PROVE  Valid(m)' = Valid(m)
    <3>1. \A u \in Token : status'[u] = "active" /\ root'[u] = m
                             <=> status[u] = "active" /\ root[u] = m
      BY <2>1, <2>3, <2>4, <2>7 DEF Valid
    <3> QED BY <3>1 DEF Valid
  <2>8. Lineage!Rotate(l, t, new)
    BY <2>3, <2>5, <2>6, <2>7 DEF Lineage!Rotate, Lineage!Issue
  <2> QED BY <2>8 DEF Lineage!Next
<1>5. ASSUME NEW a \in Owner, ReplaceToken(a), status[otoken[a]] # "active"
      PROVE  UNCHANGED <<status, root>>
  BY <1>5 DEF ReplaceToken
<1>6. CASE UNCHANGED vars
  BY <1>1, <1>6 DEF vars, rowVars
<1>7. CASE \E r \in Request : (\E t \in Token : Arrive(r, t)) \/ Authenticate(r) \/ RequestFails(r)
  BY <1>1, <1>7 DEF Arrive, Authenticate, LoadCachedPrincipal, StoreIsActive, SelectToken,
                    CachePrincipal, RequestFails, Fault, rowVars
<1>8. CASE \/ DeactivateStore \/ (\E e \in Editor : ReadStore(e) \/ UpdateStore(e))
           \/ \E t \in Token : PassExpiry(t) \/ EvictCached(t)
  BY <1>1, <1>8 DEF DeactivateStore, ReadStore, UpdateStore, WriteStore, SetActive, PassExpiry,
                    EvictCached, rowVars
<1>9. CASE \E a \in Owner : \/ \E t, new \in Token : RotateForStore(a, t, new)
                            \/ DeleteCached(a) \/ CacheCreated(a)
                            \/ OwnerRedisFails(a) \/ OwnerAborts(a)
  BY <1>1, <1>9 DEF RotateForStore, DeleteCached, CacheCreated, OwnerRedisFails, OwnerAborts, Fault,
                    rowVars
<1>10. ASSUME NEW a \in Owner, ReplaceToken(a)
       PROVE  Lineage!Next \/ UNCHANGED <<Issued, Lines>>
  BY <1>1, <1>4, <1>5, <1>10 DEF Lineage!Next
<1>11. ASSUME NEW a \in Owner, NEW t \in Token, CreateForStore(a, t) \/ RevokeForStore(a, t)
       PROVE  Lineage!Next
  <2>1. root[t] \in Token
    BY DEF TypeOK
  <2> QED BY <1>2, <1>3, <1>11, <2>1 DEF Lineage!Next
<1> HIDE DEF Issued, Lines
<1> QED
  BY <1>6, <1>7, <1>8, <1>9, <1>10, <1>11 DEF Next, Own

\* The rows of the tokens implement TokenLineage: whatever rotations and revocations race,
\* a lineage has one valid token until one of them ends it, and never another after that.
THEOREM ImplementsLineageHolds == Spec => ImplementsLineage
<1>1. ASSUME Init PROVE Lineage!Init
  <2>1. \A t \in Token : status[t] = "none"
    <3>1. status = [t \in Token |-> "none"]
      BY <1>1, Zenon DEF Init
    <3> QED BY <3>1
  <2>2. ASSUME NEW l \in Token PROVE Valid(l) = {}
    BY <2>1 DEF Valid
  <2> QED BY <2>1, <2>2 DEF Lineage!Init
<1>2. Inv /\ [Next]_vars =>
        [Lineage!Next]_<<{t \in Token : status[t] # "none"}, [l \in Token |-> Valid(l)]>>
  BY LineageStep
<1> QED BY <1>1, <1>2, Invariance, PTL DEF Spec, ImplementsLineage, Lineage!Spec
================================================================================
