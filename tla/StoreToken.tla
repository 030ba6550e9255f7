------------------------------- MODULE StoreToken -------------------------------
(***************************************************************************)
(* API tokens of one store: internal/app/token/service.go, with the edits  *)
(* and deactivations of the store: internal/app/store/service.go.          *)
(*                                                                         *)
(* A token lives in Postgres and, for ten minutes, in Redis.  Requests     *)
(* authenticate with the cached copy or read the row and cache it; owners  *)
(* create, revoke and rotate tokens, each a statement or transaction of    *)
(* Postgres followed by calls of Redis.  A token that is rotated is        *)
(* replaced by a new one with its expiry: the two are of one lineage, named*)
(* by the token that was created.  An edit of the store reads its row and  *)
(* writes all its columns back, the status with them.                      *)
(*                                                                         *)
(* Left out: tokens nobody has made, last_used_at, scopes, listing, the    *)
(* columns of a store that only a display or a delivery uses.              *)
(***************************************************************************)
EXTENDS Naturals

CONSTANTS
    Token,          \* rows of store_api_tokens
    Request,        \* requests of the store API handled at a time
    Owner,          \* dashboard requests handled at a time
    Editor,         \* edits of the store handled at a time
    NoToken,        \* a handler that has no token
    Workloads,      \* sets of calls, of which one is what the clients do
    MaxFaults       \* bound: calls that fail and handlers that are gone

Call == {"revoke", "rotate", "expire", "edit", "deactivate"}

ASSUME TokenBoundAssumption == MaxFaults \in Nat
ASSUME WorkloadAssumption == Workloads \subseteq SUBSET Call
ASSUME NoTokenAssumption == NoToken \notin Token

VARIABLES
    calls,      \* what the clients do
    status,     \* [Token -> "none", "active" or "revoked"]
    root,       \* [Token -> lineage of the token]
    expired,    \* lineages whose expires_at has passed
    ended,      \* lineages whose active token was revoked by RevokeForStore (history)
    active,     \* status of the store
    editing,    \* edits that have read the store and not written it
    edit,       \* [Editor -> the status it will write, and whether that was asked for]
    off,        \* the store is to stay inactive: deactivated, and not activated since (history)
    late,       \* edits that had read the store before it was deactivated (history)
    cached,     \* tokens in Redis; a cached copy is never a revoked one
    gone,       \* tokens whose revocation or rotation has been answered (history)
    rpc,        \* where Authenticate is
    rtoken,     \* the token of the request
    reason,     \* why the request should be refused, true since it arrived (history)
    wrong,      \* reasons why accepted requests should have been refused (history)
    opc,        \* where the handler of an owner is
    otoken,     \* the token it works on
    onew,       \* the token it makes
    faults

rowVars     == <<status, root, ended>>
requestVars == <<rpc, rtoken, reason, wrong>>
ownerVars   == <<opc, otoken, onew>>
storeVars   == <<active, editing, edit, off, late>>
vars == <<calls, rowVars, expired, storeVars, cached, gone, requestVars, ownerVars, faults>>

Reason == {"revoked", "expired", "inactive"}
Edit   == [asked : BOOLEAN, active : BOOLEAN]
NoEdit == [asked |-> FALSE, active |-> FALSE]

\* The type of every variable.
TypeOK ==
    /\ calls   \in Workloads
    /\ status  \in [Token -> {"none", "active", "revoked"}]
    /\ root    \in [Token -> Token]
    /\ expired \subseteq Token
    /\ ended   \subseteq Token
    /\ active  \in BOOLEAN
    /\ editing \subseteq Editor
    /\ edit    \in [Editor -> Edit]
    /\ off     \in BOOLEAN
    /\ late    \subseteq Editor
    /\ cached  \subseteq Token
    /\ gone    \subseteq Token
    /\ rpc     \in [Request -> {"idle", "get", "store", "select", "set"}]
    /\ rtoken  \in [Request -> Token \union {NoToken}]
    /\ reason  \in [Request -> SUBSET Reason]
    /\ wrong   \subseteq Reason
    /\ opc     \in [Owner -> {"idle", "rotate", "del", "set"}]
    /\ otoken  \in [Owner -> Token \union {NoToken}]
    /\ onew    \in [Owner -> Token \union {NoToken}]
    /\ faults  \in 0..MaxFaults

Init ==
    /\ calls \in Workloads
    /\ status  = [t \in Token |-> "none"]
    /\ root    = [t \in Token |-> t]
    /\ expired = {} /\ ended = {} /\ cached = {} /\ gone = {} /\ wrong = {}
    /\ active = TRUE /\ editing = {} /\ off = FALSE /\ late = {}
    /\ edit    = [e \in Editor |-> NoEdit]
    /\ rpc     = [r \in Request |-> "idle"]
    /\ rtoken  = [r \in Request |-> NoToken]
    /\ reason  = [r \in Request |-> {}]
    /\ opc     = [a \in Owner |-> "idle"]
    /\ otoken  = [a \in Owner |-> NoToken]
    /\ onew    = [a \in Owner |-> NoToken]
    /\ faults  = 0

--------------------------------------------------------------------------------
(* Authenticate.                                                           *)

\* A request with a token somebody has been given.
Arrive(r, t) ==
    /\ rpc[r] = "idle"
    /\ status[t] # "none"
    /\ rpc'    = [rpc EXCEPT ![r] = "get"]
    /\ rtoken' = [rtoken EXCEPT ![r] = t]
    /\ reason' = [reason EXCEPT ![r] =
          {x \in Reason : \/ x = "revoked"  /\ t \in gone
                          \/ x = "expired"  /\ root[t] \in expired
                          \/ x = "inactive" /\ ~active}]
    /\ UNCHANGED <<calls, rowVars, expired, storeVars, cached, gone, wrong, ownerVars, faults>>

\* The handler is gone.
Leave(r) ==
    /\ rpc'    = [rpc EXCEPT ![r] = "idle"]
    /\ rtoken' = [rtoken EXCEPT ![r] = NoToken]
    /\ reason' = [reason EXCEPT ![r] = {}]

Refuse(r) == Leave(r) /\ UNCHANGED wrong
Accept(r) == Leave(r) /\ wrong' = wrong \union reason[r]

Proceed(r, phase) ==
    /\ rpc' = [rpc EXCEPT ![r] = phase]
    /\ UNCHANGED <<rtoken, reason, wrong>>

LoadCachedPrincipal_NoStoreCheck(r) ==
    LET t == rtoken[r] IN
    /\ rpc[r] = "get"
    /\ \/ t \notin cached /\ Proceed(r, "select")
       \/ t \in cached /\ root[t] \in expired /\ Refuse(r)
       \/ t \in cached /\ root[t] \notin expired /\ Accept(r)
    /\ UNCHANGED <<calls, rowVars, expired, storeVars, cached, gone, ownerVars, faults>>

\* loadCachedPrincipal: GET, and the checks on the copy.
LoadCachedPrincipal(r) ==
    LET t == rtoken[r] IN
    /\ rpc[r] = "get"
    /\ \/ t \notin cached /\ Proceed(r, "select")
       \/ t \in cached /\ root[t] \in expired /\ Refuse(r)
       \/ t \in cached /\ root[t] \notin expired /\ Proceed(r, "store")
    /\ UNCHANGED <<calls, rowVars, expired, storeVars, cached, gone, ownerVars, faults>>

\* storeIsActive for a cached token; the copy of an inactive store is deleted.
StoreIsActive(r) ==
    /\ rpc[r] = "store"
    /\ \/ active /\ Accept(r) /\ UNCHANGED cached
       \/ ~active /\ Refuse(r) /\ cached' = cached \ {rtoken[r]}
    /\ UNCHANGED <<calls, rowVars, expired, storeVars, gone, ownerVars, faults>>

SelectToken_RevokedCached(r) ==
    LET valid == root[rtoken[r]] \notin expired /\ active
    IN  /\ rpc[r] = "select"
        /\ \/ valid /\ Proceed(r, "set")
           \/ ~valid /\ Refuse(r)
        /\ UNCHANGED <<calls, rowVars, expired, storeVars, cached, gone, ownerVars, faults>>

\* The SELECT on the token and its store, and the checks on the rows.
SelectToken(r) ==
    LET t == rtoken[r]
        valid == status[t] = "active" /\ root[t] \notin expired /\ active
    IN  /\ rpc[r] = "select"
        /\ \/ valid /\ Proceed(r, "set")
           \/ ~valid /\ Refuse(r)
        /\ UNCHANGED <<calls, rowVars, expired, storeVars, cached, gone, ownerVars, faults>>

\* touchLastUsedAt, and the SET of what the SELECT has read.
CachePrincipal(r) ==
    /\ rpc[r] = "set"
    /\ cached' = cached \union {rtoken[r]}
    /\ Accept(r)
    /\ UNCHANGED <<calls, rowVars, expired, storeVars, gone, ownerVars, faults>>

--------------------------------------------------------------------------------
(* CreateForStore, RevokeForStore, RotateForStore.                         *)

OwnerGoesTo(a, phase, t, new) ==
    /\ opc'    = [opc EXCEPT ![a] = phase]
    /\ otoken' = [otoken EXCEPT ![a] = t]
    /\ onew'   = [onew EXCEPT ![a] = new]

Unused(t) == status[t] = "none" /\ \A a \in Owner : onew[a] # t

\* The INSERT; the SET of the new token is still to come.
CreateForStore(a, t) ==
    /\ opc[a] = "idle"
    /\ Unused(t)
    /\ status' = [status EXCEPT ![t] = "active"]
    /\ root' = [root EXCEPT ![t] = t]
    /\ OwnerGoesTo(a, "set", NoToken, t)
    /\ UNCHANGED <<calls, ended, expired, storeVars, cached, gone, requestVars, faults>>

\* The UPDATE of a token that is not revoked; a second one finds no row.
RevokeForStore(a, t) ==
    /\ "revoke" \in calls /\ opc[a] = "idle"
    /\ status[t] = "active"
    /\ status' = [status EXCEPT ![t] = "revoked"]
    /\ ended' = ended \union {root[t]}
    /\ OwnerGoesTo(a, "del", t, NoToken)
    /\ UNCHANGED <<calls, root, expired, storeVars, cached, gone, requestVars, faults>>

\* The SELECT, which locks nothing, and the generation of the new token.
RotateForStore(a, t, new) ==
    /\ "rotate" \in calls /\ opc[a] = "idle"
    /\ status[t] = "active"
    /\ Unused(new)
    /\ OwnerGoesTo(a, "rotate", t, new)
    /\ UNCHANGED <<calls, rowVars, expired, storeVars, cached, gone, requestVars, faults>>

ReplaceToken_NoRowCheck(a) ==
    LET t == otoken[a]  new == onew[a] IN
    /\ opc[a] = "rotate"
    /\ status' = [status EXCEPT ![t] = "revoked", ![new] = "active"]
    /\ root' = [root EXCEPT ![new] = root[t]]
    /\ OwnerGoesTo(a, "del", t, new)
    /\ UNCHANGED <<calls, ended, expired, storeVars, cached, gone, requestVars, faults>>

\* The transaction that inserts the new token and revokes the old one; it is rolled
\* back when the UPDATE finds the old one revoked.
ReplaceToken(a) ==
    LET t == otoken[a]  new == onew[a] IN
    /\ opc[a] = "rotate"
    /\ \/ /\ status[t] = "active"
          /\ status' = [status EXCEPT ![t] = "revoked", ![new] = "active"]
          /\ root' = [root EXCEPT ![new] = root[t]]
          /\ OwnerGoesTo(a, "del", t, new)
       \/ /\ status[t] # "active"
          /\ OwnerGoesTo(a, "idle", NoToken, NoToken)
          /\ UNCHANGED <<status, root>>
    /\ UNCHANGED <<calls, ended, expired, storeVars, cached, gone, requestVars, faults>>

Answer_WithoutTest(a) ==
    /\ gone' = gone \union {otoken[a]}
    /\ OwnerGoesTo(a, "idle", NoToken, NoToken)

\* The answer to the owner: the old token, if any, is said to be gone.
Answer(a) ==
    /\ gone' = gone \union ({otoken[a]} \ {NoToken})
    /\ OwnerGoesTo(a, "idle", NoToken, NoToken)

\* After the DEL a revocation is over; a rotation still caches its new token.
AfterDelete(a) ==
    \/ onew[a] = NoToken /\ Answer(a)
    \/ onew[a] # NoToken /\ OwnerGoesTo(a, "set", otoken[a], onew[a]) /\ UNCHANGED gone

\* invalidateStoreTokenCache.
DeleteCached(a) ==
    /\ opc[a] = "del"
    /\ cached' = cached \ {otoken[a]}
    /\ AfterDelete(a)
    /\ UNCHANGED <<calls, rowVars, expired, storeVars, requestVars, faults>>

\* cacheStoreToken, with what the INSERT returned.
CacheCreated(a) ==
    /\ opc[a] = "set"
    /\ cached' = cached \union {onew[a]}
    /\ Answer(a)
    /\ UNCHANGED <<calls, rowVars, expired, storeVars, requestVars, faults>>

--------------------------------------------------------------------------------
(* The store, time and failures.                                           *)

SetActive(on) ==
    /\ active' = on
    /\ reason' = IF on THEN [r \in Request |-> reason[r] \ {"inactive"}] ELSE reason
    /\ UNCHANGED <<calls, rowVars, expired, cached, gone, rpc, rtoken, wrong, ownerVars, faults>>

\* DeactivateByUser: one UPDATE.
DeactivateStore ==
    /\ "deactivate" \in calls
    /\ SetActive(FALSE)
    /\ off'  = TRUE
    /\ late' = editing
    /\ UNCHANGED <<editing, edit>>

\* UpdateByUser: GetByUser, which locks nothing, and the status the edit will write,
\* which is the one it has read unless another one is asked for.
ReadStore(e) ==
    /\ "edit" \in calls /\ e \notin editing
    /\ editing' = editing \union {e}
    /\ \E asked, on \in BOOLEAN :
          /\ ~asked => on = active
          /\ edit' = [edit EXCEPT ![e] = [asked |-> asked, active |-> on]]
    /\ UNCHANGED <<calls, rowVars, expired, active, off, late, cached, gone, requestVars,
                   ownerVars, faults>>

\* The UPDATE, which asks nothing of the row, writes the status.
WriteStore(e, on) ==
    /\ e \in editing
    /\ SetActive(on)
    /\ IF edit[e].asked /\ ~edit[e].active
       THEN off' = TRUE /\ late' = editing \ {e}
       ELSE /\ off' = IF on /\ (edit[e].asked \/ e \in late) THEN FALSE ELSE off
            /\ late' = late \ {e}
    /\ editing' = editing \ {e}
    /\ edit'    = [edit EXCEPT ![e] = NoEdit]

UpdateStore_ActiveByDefault(e) == WriteStore(e, edit[e].asked => edit[e].active)

UpdateStore(e) == WriteStore(e, edit[e].active)

\* expires_at passes, for every token of a lineage.
PassExpiry(t) ==
    /\ "expire" \in calls /\ status[t] # "none"
    /\ root[t] = t
    /\ t \notin expired
    /\ expired' = expired \union {t}
    /\ UNCHANGED <<calls, rowVars, storeVars, cached, gone, requestVars, ownerVars, faults>>

\* A copy has been in Redis for tokenLookupCacheTTL.
EvictCached(t) ==
    /\ t \in cached
    /\ cached' = cached \ {t}
    /\ UNCHANGED <<calls, rowVars, expired, storeVars, gone, requestVars, ownerVars, faults>>

Fault ==
    /\ faults < MaxFaults
    /\ faults' = faults + 1
    /\ UNCHANGED <<calls, rowVars, expired, storeVars>>

\* A GET or a SELECT fails and the request is refused; a SET that fails is ignored.
RequestFails(r) ==
    /\ Fault
    /\ \/ rpc[r] \in {"get", "store", "select"} /\ Refuse(r)
       \/ rpc[r] = "set" /\ Accept(r)
    /\ UNCHANGED <<cached, gone, ownerVars>>

\* A DEL or a SET of Redis fails: the error is ignored.
OwnerRedisFails(a) ==
    /\ Fault
    /\ \/ opc[a] = "del" /\ AfterDelete(a)
       \/ opc[a] = "set" /\ Answer(a)
    /\ UNCHANGED <<cached, requestVars>>

\* The transaction fails, or the client or the process of an owner is gone.
OwnerAborts(a) ==
    /\ opc[a] # "idle"
    /\ Fault
    /\ OwnerGoesTo(a, "idle", NoToken, NoToken)
    /\ UNCHANGED <<cached, gone, requestVars>>

--------------------------------------------------------------------------------
Authenticate(r) ==
    LoadCachedPrincipal(r) \/ StoreIsActive(r) \/ SelectToken(r) \/ CachePrincipal(r)

Own(a) == ReplaceToken(a) \/ DeleteCached(a) \/ CacheCreated(a)

Next ==
    \/ \E r \in Request : \/ \E t \in Token : Arrive(r, t)
                          \/ Authenticate(r) \/ RequestFails(r)
    \/ \E a \in Owner : \/ \E t \in Token : CreateForStore(a, t) \/ RevokeForStore(a, t)
                        \/ \E t, new \in Token : RotateForStore(a, t, new)
                        \/ Own(a) \/ OwnerRedisFails(a) \/ OwnerAborts(a)
    \/ DeactivateStore \/ \E e \in Editor : ReadStore(e) \/ UpdateStore(e)
    \/ \E t \in Token : PassExpiry(t) \/ EvictCached(t)

Spec == Init /\ [][Next]_vars

--------------------------------------------------------------------------------
(* Properties.                                                             *)

\* A request that arrives when the store is inactive, and stays so, or after the expiry
\* of its token is refused, whatever copies Redis still has.
InactiveOrExpiredRefused ==
    wrong \intersect {"inactive", "expired"} = {}

\* Concurrent rotations and revocations of one token leave at most one token of its
\* lineage that is not revoked.
OneActivePerLineage ==
    \A t, u \in Token :
        status[t] = "active" /\ status[u] = "active" /\ root[t] = root[u] => t = u

\* A token that its owner has revoked lives on in no token made by a rotation: of a
\* revocation and a rotation that race, one fails.
RevokeEndsLineage ==
    \A t \in Token : status[t] = "active" => root[t] \notin ended

\* What is left of a lineage: one active token, and none once its owner has revoked
\* one (RotateForStore and RevokeForStore against each other and themselves).
OneActiveUntilRevoked == OneActivePerLineage /\ RevokeEndsLineage

\* The tokens of a lineage that are not revoked.
Valid(l) == {t \in Token : status[t] = "active" /\ root[t] = l}

\* The rows go through the life of TokenLineage: of the rotations and revocations that
\* have read the same token, one replaces or ends it and the others find it revoked.
Lineage == INSTANCE TokenLineage WITH
               issued <- {t \in Token : status[t] # "none"},
               valid  <- [l \in Token |-> Valid(l)]

ImplementsLineage == Lineage!Spec

\* "Token revoked langsung tidak valid": a request that arrives after the revocation
\* has been answered is refused.
RevokedRefused ==
    "revoked" \notin wrong

\* A revoked token that is in Redis no more, nor about to be written there.
OutOfCache(t) ==
    /\ status[t] = "revoked" /\ t \notin cached
    /\ \A r \in Request : rpc[r] = "set" => rtoken[r] # t
    /\ \A a \in Owner : onew[a] # t

\* A revocation takes effect for good: only a handler that had the token in its hands
\* before can cache it once more, and nobody after that (Authenticate, CreateForStore
\* and RotateForStore against the DELs).
RevocationTakesEffect == [][\A t \in Token : OutOfCache(t) => OutOfCache(t)']_vars

\* A deactivated store is active again only through an edit that asks for it, or one
\* that had read the store before: UpdateByUser writes every column back.
DeactivationKept == off => ~active
================================================================================
