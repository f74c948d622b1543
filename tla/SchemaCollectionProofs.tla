----------------------- MODULE SchemaCollectionProofs -----------------------
(***************************************************************************)
(* Proofs about SchemaCollection for every set of users, requests, access *)
(* sets and schemas, and every bound.                                      *)
(*                                                                         *)
(* NoStaleProjection is not inductive: it speaks of idle requests only,   *)
(* and a request reaches idle with a projection it took from the cache    *)
(* (line 40) or computed (line 44) several steps earlier, with the access  *)
(* set it read at line 36.  CacheInv says what holds in between: every    *)
(* cache entry is the projection of the access set it is filed under,     *)
(* which holds because addToCache files the schemas under the access ID   *)
(* they were computed for (line 66), not under a fresh AccessFor; a       *)
(* request past line 36 holds its user's current access set unless an     *)
(* RBAC change for that user came since; and what it holds at lines 66-67 *)
(* is the projection of that access set.                                  *)
(***************************************************************************)
EXTENDS SchemaCollection, TLAPS

\* The places of Schemas between line 36 and the return.
Busy == {"purge", "lookup", "compute", "addCache", "addUser"}

\* Every cache entry is filed under the access set it was computed for.
CacheTagged == \A f \in AccessSets : cache[f] # None => cache[f].for = f

\* A request past line 36 holds an access set, its user's current one
\* unless an RBAC change for that user came since.
HeldAccess ==
    \A r \in Reqs : rpc[r] \in Busy =>
        /\ racc[r] \in AccessSets
        /\ ~stale[r] => racc[r] = access[Owner[r]]

\* A request holds no schemas before it computed or found them, and the
\* projection of its access set after.
HeldProjection ==
    /\ \A r \in Reqs : rpc[r] \in {"purge", "lookup", "compute"} => rres[r] = None
    /\ \A r \in Reqs : rpc[r] \in {"addCache", "addUser"} => rres[r].for = racc[r]

CacheInv == TypeOK /\ CacheTagged /\ HeldAccess /\ HeldProjection /\ NoStaleProjection

-----------------------------------------------------------------------------
(***************************************************************************)
(* Lemmas on the projector.                                                *)
(***************************************************************************)
\* schemasForSubject returns a projection tagged with the access set it
\* was given (line 174).
LEMMA ProjectShape ==
    ASSUME NEW a \in AccessSets, NEW reg
    PROVE  IsProjection(Project(a, reg)) /\ Project(a, reg).for = a
BY Zenon DEF Project, IsProjection

\* Line 132 appends a method token, so the shared schemas stay lists of
\* tokens.
LEMMA RegistryAfterType ==
    ASSUME NEW a, NEW reg \in [SchemaIds -> Seq(Tokens)]
    PROVE  RegistryAfter(a, reg) \in [SchemaIds -> Seq(Tokens)]
<1>1. "GET" \in Tokens
  BY Zenon DEF Tokens, Methods
<1>2. \A s \in SchemaIds : SharedColl(a, s, reg[s]) \in Seq(Tokens)
  BY <1>1 DEF SharedColl
<1>3. QED
  BY <1>2, Zenon DEF RegistryAfter

-----------------------------------------------------------------------------
(***************************************************************************)
(* The inductive invariant.                                                *)
(***************************************************************************)
LEMMA InitCacheInv == Init => CacheInv
<1> SUFFICES ASSUME Init PROVE CacheInv
  OBVIOUS
<1>1. TypeOK
  <2>1. registry \in [SchemaIds -> Seq(Tokens)]
    BY SchemaAssumption DEF Init
  <2>2. MaxCalls \in Nat /\ MaxChanges \in Nat
    BY SchemaAssumption
  <2>3. QED
    BY <2>1, <2>2 DEF Init, TypeOK, PcValues
<1>2. QED
  BY <1>1, SchemaAssumption DEF Init, CacheInv, CacheTagged, HeldAccess, HeldProjection, Busy, NoStaleProjection

LEMMA NextCacheInv == CacheInv /\ [Next]_vars => CacheInv'
<1> SUFFICES ASSUME CacheInv, [Next]_vars PROVE CacheInv'
  OBVIOUS
<1>0. TypeOK /\ CacheTagged /\ HeldAccess /\ HeldProjection /\ NoStaleProjection
  BY DEF CacheInv
<1>1. ASSUME NEW r \in Reqs, Begin(r) PROVE CacheInv'
  <2>0. /\ rpc[r] = "idle" /\ calls[r] < MaxCalls
        /\ racc' = [racc EXCEPT ![r] = access[Owner[r]]]
        /\ calls' = [calls EXCEPT ![r] = @ + 1]
        /\ stale' = [stale EXCEPT ![r] = FALSE]
        /\ rres' = [rres EXCEPT ![r] = None]
        /\ UNCHANGED <<access, cache, userCache, registry, changes, owners>>
    BY <1>1 DEF Begin
  <2>1. CASE userCache[Owner[r]] # None /\ userCache[Owner[r]] # access[Owner[r]]
    <3>0. /\ rpc' = [rpc EXCEPT ![r] = "purge"]
          /\ rcur' = [rcur EXCEPT ![r] = userCache[Owner[r]]]
      BY <1>1, <2>1 DEF Begin
    <3>1. TypeOK'
      <4>1. (access \in [Users -> AccessSets])'
        BY <1>0, <2>0, <2>1, <3>0, SchemaAssumption DEF TypeOK, PcValues
      <4>2. (\A f \in AccessSets : cache[f] = None \/ IsProjection(cache[f]))'
        BY <1>0, <2>0, <2>1, <3>0, SchemaAssumption DEF TypeOK, PcValues
      <4>3. (DOMAIN cache = AccessSets)'
        BY <1>0, <2>0, <2>1, <3>0, SchemaAssumption DEF TypeOK, PcValues
      <4>4. (userCache \in [Users -> AccessSets \cup {None}])'
        BY <1>0, <2>0, <2>1, <3>0, SchemaAssumption DEF TypeOK, PcValues
      <4>5. (registry \in [SchemaIds -> Seq(Tokens)])'
        BY <1>0, <2>0, <2>1, <3>0, SchemaAssumption DEF TypeOK, PcValues
      <4>6. (rpc \in [Reqs -> PcValues])'
        BY <1>0, <2>0, <2>1, <3>0, SchemaAssumption DEF TypeOK, PcValues
      <4>7. (racc \in [Reqs -> AccessSets \cup {None}])'
        BY <1>0, <2>0, <2>1, <3>0, SchemaAssumption DEF TypeOK, PcValues
      <4>8. (rcur \in [Reqs -> AccessSets \cup {None}])'
        BY <1>0, <2>0, <2>1, <3>0, SchemaAssumption DEF TypeOK, PcValues
      <4>9. (\A q \in Reqs : rres[q] = None \/ IsProjection(rres[q]))'
        BY <1>0, <2>0, <2>1, <3>0, SchemaAssumption DEF TypeOK, PcValues
      <4>10. (DOMAIN rres = Reqs)'
        BY <1>0, <2>0, <2>1, <3>0, SchemaAssumption DEF TypeOK, PcValues
      <4>11. (calls \in [Reqs -> 0 .. MaxCalls])'
        BY <1>0, <2>0, <2>1, <3>0, SchemaAssumption DEF TypeOK, PcValues
      <4>12. (changes \in 0 .. MaxChanges)'
        BY <1>0, <2>0, <2>1, <3>0, SchemaAssumption DEF TypeOK, PcValues
      <4>13. (stale \in [Reqs -> BOOLEAN])'
        BY <1>0, <2>0, <2>1, <3>0, SchemaAssumption DEF TypeOK, PcValues
      <4>14. (owners \in [AccessSets -> SUBSET Users])'
        BY <1>0, <2>0, <2>1, <3>0, SchemaAssumption DEF TypeOK, PcValues
      <4>15. QED
        BY <4>1, <4>2, <4>3, <4>4, <4>5, <4>6, <4>7, <4>8, <4>9, <4>10, <4>11, <4>12, <4>13, <4>14 DEF TypeOK
    <3>2. CacheTagged'
      BY <1>0, <2>0, <2>1, <3>0 DEF TypeOK, CacheTagged
    <3>3. HeldAccess'
      BY <1>0, <2>0, <2>1, <3>0, SchemaAssumption DEF TypeOK, HeldAccess, Busy
    <3>4. HeldProjection'
      BY <1>0, <2>0, <2>1, <3>0 DEF TypeOK, HeldAccess, Busy, HeldProjection
    <3>5. NoStaleProjection'
      BY <1>0, <2>0, <2>1, <3>0 DEF TypeOK, CacheTagged, HeldAccess, Busy, HeldProjection, NoStaleProjection
    <3>6. QED
      BY <3>1, <3>2, <3>3, <3>4, <3>5 DEF CacheInv
  <2>2. CASE ~(userCache[Owner[r]] # None /\ userCache[Owner[r]] # access[Owner[r]])
    <3>0. /\ rpc' = [rpc EXCEPT ![r] = "lookup"]
          /\ UNCHANGED rcur
      BY <1>1, <2>2 DEF Begin
    <3>1. TypeOK'
      <4>1. (access \in [Users -> AccessSets])'
        BY <1>0, <2>0, <2>2, <3>0, SchemaAssumption DEF TypeOK, PcValues
      <4>2. (\A f \in AccessSets : cache[f] = None \/ IsProjection(cache[f]))'
        BY <1>0, <2>0, <2>2, <3>0, SchemaAssumption DEF TypeOK, PcValues
      <4>3. (DOMAIN cache = AccessSets)'
        BY <1>0, <2>0, <2>2, <3>0, SchemaAssumption DEF TypeOK, PcValues
      <4>4. (userCache \in [Users -> AccessSets \cup {None}])'
        BY <1>0, <2>0, <2>2, <3>0, SchemaAssumption DEF TypeOK, PcValues
      <4>5. (registry \in [SchemaIds -> Seq(Tokens)])'
        BY <1>0, <2>0, <2>2, <3>0, SchemaAssumption DEF TypeOK, PcValues
      <4>6. (rpc \in [Reqs -> PcValues])'
        BY <1>0, <2>0, <2>2, <3>0, SchemaAssumption DEF TypeOK, PcValues
      <4>7. (racc \in [Reqs -> AccessSets \cup {None}])'
        BY <1>0, <2>0, <2>2, <3>0, SchemaAssumption DEF TypeOK, PcValues
      <4>8. (rcur \in [Reqs -> AccessSets \cup {None}])'
        BY <1>0, <2>0, <2>2, <3>0, SchemaAssumption DEF TypeOK, PcValues
      <4>9. (\A q \in Reqs : rres[q] = None \/ IsProjection(rres[q]))'
        BY <1>0, <2>0, <2>2, <3>0, SchemaAssumption DEF TypeOK, PcValues
      <4>10. (DOMAIN rres = Reqs)'
        BY <1>0, <2>0, <2>2, <3>0, SchemaAssumption DEF TypeOK, PcValues
      <4>11. (calls \in [Reqs -> 0 .. MaxCalls])'
        BY <1>0, <2>0, <2>2, <3>0, SchemaAssumption DEF TypeOK, PcValues
      <4>12. (changes \in 0 .. MaxChanges)'
        BY <1>0, <2>0, <2>2, <3>0, SchemaAssumption DEF TypeOK, PcValues
      <4>13. (stale \in [Reqs -> BOOLEAN])'
        BY <1>0, <2>0, <2>2, <3>0, SchemaAssumption DEF TypeOK, PcValues
      <4>14. (owners \in [AccessSets -> SUBSET Users])'
        BY <1>0, <2>0, <2>2, <3>0, SchemaAssumption DEF TypeOK, PcValues
      <4>15. QED
        BY <4>1, <4>2, <4>3, <4>4, <4>5, <4>6, <4>7, <4>8, <4>9, <4>10, <4>11, <4>12, <4>13, <4>14 DEF TypeOK
    <3>2. CacheTagged'
      BY <1>0, <2>0, <2>2, <3>0 DEF TypeOK, CacheTagged
    <3>3. HeldAccess'
      BY <1>0, <2>0, <2>2, <3>0, SchemaAssumption DEF TypeOK, HeldAccess, Busy
    <3>4. HeldProjection'
      BY <1>0, <2>0, <2>2, <3>0 DEF TypeOK, HeldAccess, Busy, HeldProjection
    <3>5. NoStaleProjection'
      BY <1>0, <2>0, <2>2, <3>0 DEF TypeOK, CacheTagged, HeldAccess, Busy, HeldProjection, NoStaleProjection
    <3>6. QED
      BY <3>1, <3>2, <3>3, <3>4, <3>5 DEF CacheInv
  <2>3. QED
    BY <1>1, <2>1, <2>2 DEF Begin
<1>2. ASSUME NEW r \in Reqs, Purge(r) PROVE CacheInv'
  BY <1>0, <1>2, SchemaAssumption
     DEF Purge, CacheInv, TypeOK, CacheTagged, HeldAccess, HeldProjection,
         NoStaleProjection, Busy, PcValues
<1>3. ASSUME NEW r \in Reqs, Lookup(r) PROVE CacheInv'
  <2>0. /\ rpc[r] = "lookup"
        /\ UNCHANGED <<access, cache, userCache, registry, rcur, calls, changes, stale, owners>>
    BY <1>3 DEF Lookup
  <2>1. CASE cache[racc[r]] # None
    <3>0. /\ rres' = [rres EXCEPT ![r] = cache[racc[r]]]
          /\ rpc' = [rpc EXCEPT ![r] = "idle"]
          /\ racc' = [racc EXCEPT ![r] = None]
      BY <1>3, <2>1 DEF Lookup
    <3>1. TypeOK'
      BY <1>0, <2>0, <2>1, <3>0, SchemaAssumption DEF TypeOK, PcValues, HeldAccess, Busy, HeldProjection
    <3>2. CacheTagged'
      BY <1>0, <2>0, <2>1, <3>0 DEF TypeOK, CacheTagged
    <3>3. HeldAccess'
      BY <1>0, <2>0, <2>1, <3>0 DEF TypeOK, HeldAccess, Busy
    <3>4. HeldProjection'
      BY <1>0, <2>0, <2>1, <3>0 DEF TypeOK, HeldAccess, Busy, HeldProjection
    <3>5. NoStaleProjection'
      BY <1>0, <2>0, <2>1, <3>0 DEF TypeOK, CacheTagged, HeldAccess, Busy, HeldProjection, NoStaleProjection
    <3>6. QED
      BY <3>1, <3>2, <3>3, <3>4, <3>5 DEF CacheInv
  <2>2. CASE cache[racc[r]] = None
    <3>0. /\ rpc' = [rpc EXCEPT ![r] = "compute"]
          /\ UNCHANGED <<rres, racc>>
      BY <1>3, <2>2 DEF Lookup
    <3>1. TypeOK'
      BY <1>0, <2>0, <2>2, <3>0, SchemaAssumption DEF TypeOK, PcValues, HeldAccess, Busy, HeldProjection
    <3>2. CacheTagged'
      BY <1>0, <2>0, <2>2, <3>0 DEF TypeOK, CacheTagged
    <3>3. HeldAccess'
      BY <1>0, <2>0, <2>2, <3>0 DEF TypeOK, HeldAccess, Busy
    <3>4. HeldProjection'
      BY <1>0, <2>0, <2>2, <3>0 DEF TypeOK, HeldAccess, Busy, HeldProjection
    <3>5. NoStaleProjection'
      BY <1>0, <2>0, <2>2, <3>0 DEF TypeOK, CacheTagged, HeldAccess, Busy, HeldProjection, NoStaleProjection
    <3>6. QED
      BY <3>1, <3>2, <3>3, <3>4, <3>5 DEF CacheInv
  <2>3. QED
    BY <1>3, <2>1, <2>2 DEF Lookup
<1>4. ASSUME NEW r \in Reqs, Compute(r) PROVE CacheInv'
  <2>0. /\ rpc[r] = "compute"
        /\ UNCHANGED <<access, cache, userCache, rcur, calls, changes, stale, owners>>
    BY <1>4 DEF Compute
  <2>1. CASE /\ rres' = [rres EXCEPT ![r] = Project(racc[r], registry)]
            /\ registry' = RegistryAfter(racc[r], registry)
            /\ rpc' = [rpc EXCEPT ![r] = "addCache"]
            /\ UNCHANGED racc
    <3>0. /\ racc[r] \in AccessSets
          /\ IsProjection(Project(racc[r], registry))
          /\ Project(racc[r], registry).for = racc[r]
          /\ registry' \in [SchemaIds -> Seq(Tokens)]
      BY <1>0, <2>0, <2>1, ProjectShape, RegistryAfterType DEF HeldAccess, Busy, TypeOK
    <3>1. TypeOK'
      BY <1>0, <2>0, <2>1, <3>0, SchemaAssumption DEF TypeOK, PcValues, HeldAccess, Busy, HeldProjection
    <3>2. CacheTagged'
      BY <1>0, <2>0, <2>1, <3>0 DEF TypeOK, CacheTagged
    <3>3. HeldAccess'
      BY <1>0, <2>0, <2>1, <3>0 DEF TypeOK, HeldAccess, Busy
    <3>4. HeldProjection'
      <4>1. ASSUME NEW q \in Reqs, rpc'[q] \in {"purge", "lookup", "compute"} PROVE rres'[q] = None
        BY <1>0, <2>0, <2>1, <4>1 DEF TypeOK, HeldProjection
      <4>2. ASSUME NEW q \in Reqs, rpc'[q] \in {"addCache", "addUser"}
            PROVE  rres'[q].for = racc'[q]
        BY <1>0, <2>0, <2>1, <3>0, <4>2 DEF TypeOK, HeldProjection, IsProjection
      <4>3. QED
        BY <4>1, <4>2 DEF HeldProjection
    <3>5. NoStaleProjection'
      BY <1>0, <2>0, <2>1, <3>0 DEF TypeOK, CacheTagged, HeldAccess, Busy, HeldProjection, NoStaleProjection
    <3>6. QED
      BY <3>1, <3>2, <3>3, <3>4, <3>5 DEF CacheInv
  <2>2. CASE /\ ProjErrors
            /\ rpc' = [rpc EXCEPT ![r] = "idle"]
            /\ racc' = [racc EXCEPT ![r] = None]
            /\ UNCHANGED <<rres, registry>>
    <3>1. TypeOK'
      BY <1>0, <2>0, <2>2, SchemaAssumption DEF TypeOK, PcValues, HeldAccess, Busy, HeldProjection
    <3>2. CacheTagged'
      BY <1>0, <2>0, <2>2 DEF TypeOK, CacheTagged
    <3>3. HeldAccess'
      BY <1>0, <2>0, <2>2 DEF TypeOK, HeldAccess, Busy
    <3>4. HeldProjection'
      <4>1. ASSUME NEW q \in Reqs, rpc'[q] \in {"purge", "lookup", "compute"} PROVE rres'[q] = None
        BY <1>0, <2>0, <2>2, <4>1 DEF TypeOK, HeldProjection
      <4>2. ASSUME NEW q \in Reqs, rpc'[q] \in {"addCache", "addUser"}
            PROVE  rres'[q].for = racc'[q]
        BY <1>0, <2>0, <2>2, <4>2 DEF TypeOK, HeldProjection
      <4>3. QED
        BY <4>1, <4>2 DEF HeldProjection
    <3>5. NoStaleProjection'
      BY <1>0, <2>0, <2>2 DEF TypeOK, CacheTagged, HeldAccess, Busy, HeldProjection, NoStaleProjection
    <3>6. QED
      BY <3>1, <3>2, <3>3, <3>4, <3>5 DEF CacheInv
  <2>3. QED
    BY <1>4, <2>1, <2>2 DEF Compute
<1>5. ASSUME NEW r \in Reqs, AddCache(r) PROVE CacheInv'
  <2>1. TypeOK'
    BY <1>0, <1>5, SchemaAssumption DEF AddCache, TypeOK, TypeOK, PcValues
  <2>2. CacheTagged'
    BY <1>0, <1>5, SchemaAssumption DEF AddCache, TypeOK, CacheTagged, HeldAccess, Busy, HeldProjection
  <2>3. HeldAccess'
    BY <1>0, <1>5, SchemaAssumption DEF AddCache, TypeOK, HeldAccess, Busy
  <2>4. HeldProjection'
    BY <1>0, <1>5, SchemaAssumption DEF AddCache, TypeOK, HeldProjection
  <2>5. NoStaleProjection'
    BY <1>0, <1>5, SchemaAssumption DEF AddCache, TypeOK, NoStaleProjection
  <2>6. QED
    BY <2>1, <2>2, <2>3, <2>4, <2>5 DEF CacheInv
<1>6. ASSUME NEW r \in Reqs, AddUser(r) PROVE CacheInv'
  BY <1>0, <1>6, SchemaAssumption
     DEF AddUser, CacheInv, TypeOK, CacheTagged, HeldAccess, HeldProjection,
         NoStaleProjection, Busy, PcValues
<1>7. ASSUME NEW f \in AccessSets, Expire(f) PROVE CacheInv'
  BY <1>0, <1>7, SchemaAssumption
     DEF Expire, CacheInv, TypeOK, CacheTagged, HeldAccess, HeldProjection,
         NoStaleProjection, Busy, PcValues
<1>8. ASSUME NEW u \in Users, NEW a \in AccessSets, RBACChange(u, a) PROVE CacheInv'
  <2>1. TypeOK'
    BY <1>0, <1>8, SchemaAssumption DEF RBACChange, TypeOK, TypeOK, PcValues
  <2>2. CacheTagged'
    BY <1>0, <1>8, SchemaAssumption DEF RBACChange, TypeOK, CacheTagged
  <2>3. HeldAccess'
    BY <1>0, <1>8, SchemaAssumption DEF RBACChange, TypeOK, HeldAccess, Busy
  <2>4. HeldProjection'
    BY <1>0, <1>8, SchemaAssumption DEF RBACChange, TypeOK, HeldProjection
  <2>5. NoStaleProjection'
    BY <1>0, <1>8, SchemaAssumption DEF RBACChange, TypeOK, NoStaleProjection
  <2>6. QED
    BY <2>1, <2>2, <2>3, <2>4, <2>5 DEF CacheInv
<1>9. CASE UNCHANGED vars
  BY <1>0, <1>9
     DEF vars, CacheInv, TypeOK, CacheTagged, HeldAccess, HeldProjection,
         NoStaleProjection, Busy, PcValues
<1>10. QED
  BY <1>1, <1>2, <1>3, <1>4, <1>5, <1>6, <1>7, <1>8, <1>9 DEF Next

-----------------------------------------------------------------------------
(***************************************************************************)
(* The theorems.                                                           *)
(***************************************************************************)
LEMMA CacheInvariant == Spec => []CacheInv
BY InitCacheInv, NextCacheInv, PTL DEF Spec

\* Type correctness of the projection cache: the caches hold projections
\* or nothing, the shared schemas lists of method tokens, and the request
\* state its ranges, for every instance and every interleaving of requests,
\* TTL expiries and RBAC changes.
THEOREM SchemaTypeCorrect == Spec => []TypeOK
<1>1. CacheInv => TypeOK
  BY DEF CacheInv
<1>2. QED
  BY CacheInvariant, <1>1, PTL

\* Spec 5 for Collection.Schemas: a request whose user's access did not
\* change since line 36 returns the projection of that user's current
\* access set, whatever the other users' requests did to the two caches
\* in between, for every number of users, requests and access sets.
THEOREM NoStaleServed == Spec => []NoStaleProjection
<1>1. CacheInv => NoStaleProjection
  BY DEF CacheInv
<1>2. QED
  BY CacheInvariant, <1>1, PTL

=============================================================================
