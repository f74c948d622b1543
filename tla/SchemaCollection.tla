-------------------------- MODULE SchemaCollection --------------------------
(***************************************************************************)
(* The per-user schema projection of pkg/schema/factory.go: the projector  *)
(* schemasForSubject (lines 76-176) and the two-level projection cache of  *)
(* Collection.Schemas (lines 35-74), called by concurrent HTTP requests.   *)
(*                                                                         *)
(* An access set is identified by its content (its ID is a fingerprint),  *)
(* so the model uses the access set itself as its ID. The cache and the   *)
(* user cache are LRU caches with internal locking: each Get, Add and      *)
(* Remove is atomic, nothing makes a sequence of them atomic. Requests    *)
(* of one user may run at once. Only the CollectionMethods of a shared     *)
(* schema are state: line 132 is the only write the projector makes to it. *)
(***************************************************************************)
EXTENDS Naturals, Sequences, FiniteSets

CONSTANTS
    Users,        \* user names
    Reqs,         \* request goroutines; each serves one user
    Owner,        \* Owner[r]: the user request r serves
    AccessSets,   \* the access sets the AccessSetStore can return
    SchemaIds,    \* the schemas of c.schemas
    SchemaDefs,   \* SchemaDefs[s]: group, resource, namespaced, verbs,
                  \* disallow, and the initial coll and res method lists
    None,         \* no entry
    MaxCalls,     \* calls per request goroutine
    MaxChanges,   \* RBAC changes
    ProjErrors    \* whether AddSchema may fail in schemasForSubject

\* accesscontrol.All, the wildcard namespace or name.
All == "*"

Verbs == {"get", "list", "watch", "delete", "update", "create", "patch"}

\* Method tokens a CollectionMethods or ResourceMethods list may hold.
Methods == {"GET", "POST", "PUT", "PATCH", "DELETE"}
Tokens == Methods \cup {"blocked-" \o m : m \in Methods}

ASSUME SchemaAssumption ==
    /\ Owner \in [Reqs -> Users]
    /\ None \notin AccessSets /\ AccessSets # {}
    /\ MaxCalls \in Nat /\ MaxChanges \in Nat
    /\ ProjErrors \in BOOLEAN
    /\ \A s \in SchemaIds : SchemaDefs[s].verbs \subseteq Verbs
    /\ \A s \in SchemaIds : SchemaDefs[s].coll \in Seq(Tokens)

VARIABLES
    access,     \* access[u]: what c.as.AccessFor(u) returns now
    cache,      \* c.cache: access ID -> projection, or None
    userCache,  \* c.userCache: user -> access ID, or None
    registry,   \* registry[s]: CollectionMethods of the shared schema s
    rpc,        \* rpc[r]: where request r is in Schemas
    racc,       \* racc[r]: the access set r computed
    rcur,       \* rcur[r]: the userCache entry r read
    rres,       \* rres[r]: the projection r holds or returned, or None
    calls,      \* calls[r]: calls r has made
    changes,    \* RBAC changes so far
    stale,      \* stale[r]: the access of r's user changed since r began
    owners      \* owners[f]: users whose calls installed cache[f]

vars == <<access, cache, userCache, registry, rpc, racc, rcur, rres, calls,
          changes, stale, owners>>

-----------------------------------------------------------------------------
(***************************************************************************)
(* The AccessSet queries the projector makes (pkg/accesscontrol, spec     *)
(* section 3.1). A grant is [verb, group, resource, ns, name].             *)
(***************************************************************************)
AccessListFor(a, verb, gr) ==
    {[ns |-> g.ns, name |-> g.name] :
        g \in {x \in a.grants : x.verb = verb /\ x.group = gr.group
                                /\ x.resource = gr.resource}}

\* AccessSet.Namespaces(): the namespaces the subject may get.
Namespaces(a) == a.namespaces

\* AccessListByVerb.AnyVerb: some verb of vs has a non-empty access list.
AnyVerb(va, vs) == \E v \in vs \cap DOMAIN va : va[v] # {}

-----------------------------------------------------------------------------
(***************************************************************************)
(* schemasForSubject, one schema s of c.schemas at a time (lines 89-172). *)
(***************************************************************************)
GR(s) == [group |-> SchemaDefs[s].group, resource |-> SchemaDefs[s].resource]

\* Mutant: the trim of lines 104-113 is left out.
VerbListUntrimmed(a, s, v) == AccessListFor(a, v, GR(s))

\* Lines 103-113: the access list of a verb; cluster-scoped schemas keep
\* only the grants on every namespace.
VerbList(a, s, v) ==
    LET l == AccessListFor(a, v, GR(s))
    IN  IF SchemaDefs[s].namespaced THEN l ELSE {x \in l : x.ns = All}

\* Lines 100-117: verbAccess, the verbs of s with a non-empty list.
DirectAccess(a, s) ==
    [v \in {w \in SchemaDefs[s].verbs : VerbList(a, s, w) # {}} |->
        VerbList(a, s, v)]

\* Line 120: no verb of the namespaces schema is granted directly.
NamespaceSynth(a, s) ==
    /\ DOMAIN DirectAccess(a, s) = {}
    /\ GR(s).group = "" /\ GR(s).resource = "namespaces"

\* Lines 121-127: get access to each namespace the subject may see.
NsAccessList(a) == {[ns |-> All, name |-> n] : n \in Namespaces(a)}

\* Lines 119-135, verbAccess once the namespace rule applied.
VerbAccess(a, s) ==
    IF NamespaceSynth(a, s)
    THEN [v \in {"get", "watch"} |-> NsAccessList(a)]
    ELSE DirectAccess(a, s)

\* Line 132: with an empty namespace list, GET is appended to the
\* CollectionMethods of the shared schema s, before the DeepCopy.
SharedColl(a, s, coll) ==
    IF NamespaceSynth(a, s) /\ NsAccessList(a) = {}
    THEN Append(coll, "GET") ELSE coll

\* Lines 137-142: allowed(method).
Allowed(s, m) == IF m \in SchemaDefs[s].disallow THEN "blocked-" \o m ELSE m

Opt(b, seq) == IF b THEN seq ELSE <<>>

\* Lines 144-163 on the copy: CollectionMethods and ResourceMethods.
ProjectedColl(a, s, coll) ==
    LET va == VerbAccess(a, s) IN
    SharedColl(a, s, coll)
      \o Opt(AnyVerb(va, {"list", "get"}), <<Allowed(s, "GET")>>)
      \o Opt(AnyVerb(va, {"create"}), <<Allowed(s, "POST")>>)

ProjectedRes(a, s) ==
    LET va == VerbAccess(a, s) IN
    SchemaDefs[s].res
      \o Opt(AnyVerb(va, {"list", "get"}), <<Allowed(s, "GET")>>)
      \o Opt(AnyVerb(va, {"delete"}), <<Allowed(s, "DELETE")>>)
      \o Opt(AnyVerb(va, {"update"}), <<Allowed(s, "PUT"), Allowed(s, "PATCH")>>)
      \o Opt(AnyVerb(va, {"patch"}), <<Allowed(s, "PATCH")>>)

\* Lines 92-97 and 165-171: a schema without group/resource is added as it
\* is; one left with no method is skipped.
Included(a, s, coll) ==
    \/ GR(s).resource = ""
    \/ ProjectedColl(a, s, coll) # <<>>
    \/ ProjectedRes(a, s) # <<>>

\* schemasForSubject: the projection, tagged with its access set (line 174).
Project(a, reg) ==
    [for |-> a,
     schemas |-> [s \in {t \in SchemaIds : Included(a, t, reg[t])} |->
                    IF GR(s).resource = ""
                    THEN [coll |-> reg[s], res |-> SchemaDefs[s].res]
                    ELSE [coll |-> ProjectedColl(a, s, reg[s]),
                          res |-> ProjectedRes(a, s)]]]

\* The shared schemas once schemasForSubject ran.
RegistryAfter(a, reg) ==
    [s \in SchemaIds |->
        IF GR(s).resource = "" THEN reg[s] ELSE SharedColl(a, s, reg[s])]

-----------------------------------------------------------------------------
(***************************************************************************)
(* State.                                                                  *)
(***************************************************************************)
PcValues == {"idle", "purge", "lookup", "compute", "addCache", "addUser"}

\* A projection: the access set it was computed for and its schemas.
IsProjection(x) ==
    /\ DOMAIN x = {"for", "schemas"}
    /\ x.for \in AccessSets
    /\ DOMAIN x.schemas \subseteq SchemaIds

TypeOK ==
    /\ access \in [Users -> AccessSets]
    /\ \A f \in AccessSets : cache[f] = None \/ IsProjection(cache[f])
    /\ DOMAIN cache = AccessSets
    /\ userCache \in [Users -> AccessSets \cup {None}]
    /\ registry \in [SchemaIds -> Seq(Tokens)]
    /\ rpc \in [Reqs -> PcValues]
    /\ racc \in [Reqs -> AccessSets \cup {None}]
    /\ rcur \in [Reqs -> AccessSets \cup {None}]
    /\ \A r \in Reqs : rres[r] = None \/ IsProjection(rres[r])
    /\ DOMAIN rres = Reqs
    /\ calls \in [Reqs -> 0 .. MaxCalls]
    /\ changes \in 0 .. MaxChanges
    /\ stale \in [Reqs -> BOOLEAN]
    /\ owners \in [AccessSets -> SUBSET Users]

\* Empty caches (newCollection); the AccessSetStore knows some access for
\* every user; the shared schemas are as the converter built them.
Init ==
    /\ access \in [Users -> AccessSets]
    /\ cache = [f \in AccessSets |-> None]
    /\ userCache = [u \in Users |-> None]
    /\ registry = [s \in SchemaIds |-> SchemaDefs[s].coll]
    /\ rpc = [r \in Reqs |-> "idle"]
    /\ racc = [r \in Reqs |-> None]
    /\ rcur = [r \in Reqs |-> None]
    /\ rres = [r \in Reqs |-> None]
    /\ calls = [r \in Reqs |-> 0]
    /\ changes = 0
    /\ stale = [r \in Reqs |-> FALSE]
    /\ owners = [f \in AccessSets |-> {}]

-----------------------------------------------------------------------------
(***************************************************************************)
(* Collection.Schemas (lines 35-50) for request r of user Owner[r].        *)
(***************************************************************************)
\* Lines 36-37 and 52-56: access := c.as.AccessFor(user); removeOldRecords
\* reads userCache[user] and compares it with access.ID.
Begin(r) ==
    LET u == Owner[r] IN
    /\ rpc[r] = "idle" /\ calls[r] < MaxCalls
    /\ racc' = [racc EXCEPT ![r] = access[u]]
    /\ IF userCache[u] # None /\ userCache[u] # access[u]
       THEN /\ rpc' = [rpc EXCEPT ![r] = "purge"]
            /\ rcur' = [rcur EXCEPT ![r] = userCache[u]]
       ELSE /\ rpc' = [rpc EXCEPT ![r] = "lookup"]
            /\ UNCHANGED rcur
    /\ calls' = [calls EXCEPT ![r] = @ + 1]
    /\ stale' = [stale EXCEPT ![r] = FALSE]
    /\ rres' = [rres EXCEPT ![r] = None]
    /\ UNCHANGED <<access, cache, userCache, registry, changes, owners>>

\* Lines 57-60 and purgeUserRecords (71-74): c.cache.Remove(currentID),
\* then c.userCache.Remove(user), whatever that entry is by now.
Purge(r) ==
    LET f == rcur[r] IN
    /\ rpc[r] = "purge"
    /\ cache' = [cache EXCEPT ![f] = None]
    /\ owners' = [owners EXCEPT ![f] = {}]
    /\ userCache' = [userCache EXCEPT ![Owner[r]] = None]
    /\ rpc' = [rpc EXCEPT ![r] = "lookup"]
    /\ rcur' = [rcur EXCEPT ![r] = None]
    /\ UNCHANGED <<access, registry, racc, rres, calls, changes, stale>>

\* Lines 38-42: c.cache.Get(access.ID); a hit returns the cached schemas.
Lookup(r) ==
    LET f == racc[r] IN
    /\ rpc[r] = "lookup"
    /\ IF cache[f] # None
       THEN /\ rres' = [rres EXCEPT ![r] = cache[f]]
            /\ rpc' = [rpc EXCEPT ![r] = "idle"]
            /\ racc' = [racc EXCEPT ![r] = None]
       ELSE /\ rpc' = [rpc EXCEPT ![r] = "compute"]
            /\ UNCHANGED <<rres, racc>>
    /\ UNCHANGED <<access, cache, userCache, registry, rcur, calls,
                   changes, stale, owners>>

\* Mutant: the error of schemasForSubject is not returned, and the nil
\* schemas (no access set attribute, no schema) go to addToCache.
ComputeCachesNil(r) ==
    /\ rpc[r] = "compute"
    /\ \/ /\ rres' = [rres EXCEPT ![r] = Project(racc[r], registry)]
          /\ registry' = RegistryAfter(racc[r], registry)
       \/ /\ ProjErrors
          /\ rres' = [rres EXCEPT ![r] = [for |-> None, schemas |-> <<>>]]
          /\ UNCHANGED registry
    /\ rpc' = [rpc EXCEPT ![r] = "addCache"]
    /\ UNCHANGED <<access, cache, userCache, racc, rcur, calls, changes, stale,
                   owners>>

\* Lines 44-47: schemasForSubject under c.lock.RLock (no writer of c.schemas
\* is modelled, so RLock does not block). It fails if AddSchema does; the
\* error is returned and nothing is cached.
Compute(r) ==
    /\ rpc[r] = "compute"
    /\ \/ /\ rres' = [rres EXCEPT ![r] = Project(racc[r], registry)]
          /\ registry' = RegistryAfter(racc[r], registry)
          /\ rpc' = [rpc EXCEPT ![r] = "addCache"]
          /\ UNCHANGED racc
       \/ /\ ProjErrors
          /\ rpc' = [rpc EXCEPT ![r] = "idle"]
          /\ racc' = [racc EXCEPT ![r] = None]
          /\ UNCHANGED <<rres, registry>>
    /\ UNCHANGED <<access, cache, userCache, rcur, calls, changes, stale,
                   owners>>

\* Mutant: addToCache asks the AccessSetStore for the user's access again
\* and caches the schemas under that ID.
AddCacheRereadsAccess(r) ==
    LET f == access[Owner[r]] IN
    /\ rpc[r] = "addCache"
    /\ cache' = [cache EXCEPT ![f] = rres[r]]
    /\ owners' = [owners EXCEPT ![f] = @ \cup {Owner[r]}]
    /\ rpc' = [rpc EXCEPT ![r] = "addUser"]
    /\ UNCHANGED <<access, userCache, registry, racc, rcur, rres, calls,
                   changes, stale>>

\* addToCache, line 66: c.cache.Add(access.ID, schemas, 24h).
AddCache(r) ==
    LET f == racc[r] IN
    /\ rpc[r] = "addCache"
    /\ cache' = [cache EXCEPT ![f] = rres[r]]
    /\ owners' = [owners EXCEPT ![f] = @ \cup {Owner[r]}]
    /\ rpc' = [rpc EXCEPT ![r] = "addUser"]
    /\ UNCHANGED <<access, userCache, registry, racc, rcur, rres, calls,
                   changes, stale>>

\* addToCache, line 67: c.userCache.Add(user, access.ID, 24h); then
\* Schemas returns the computed schemas (line 49).
AddUser(r) ==
    /\ rpc[r] = "addUser"
    /\ userCache' = [userCache EXCEPT ![Owner[r]] = racc[r]]
    /\ rpc' = [rpc EXCEPT ![r] = "idle"]
    /\ racc' = [racc EXCEPT ![r] = None]
    /\ UNCHANGED <<access, cache, registry, rcur, rres, calls, changes,
                   stale, owners>>

\* The 24h TTL of line 66 (or the LRU bound) drops a cache entry.
Expire(f) ==
    /\ cache[f] # None
    /\ cache' = [cache EXCEPT ![f] = None]
    /\ owners' = [owners EXCEPT ![f] = {}]
    /\ UNCHANGED <<access, userCache, registry, rpc, racc, rcur, rres, calls,
                   changes, stale>>

\* An RBAC change: AccessFor(u) returns another access set from now on.
RBACChange(u, a) ==
    /\ changes < MaxChanges /\ a # access[u]
    /\ access' = [access EXCEPT ![u] = a]
    /\ changes' = changes + 1
    /\ stale' = [r \in Reqs |-> stale[r] \/ Owner[r] = u]
    /\ UNCHANGED <<cache, userCache, registry, rpc, racc, rcur, rres, calls,
                   owners>>

Next ==
    \/ \E r \in Reqs :
          Begin(r) \/ Purge(r) \/ Lookup(r) \/ Compute(r) \/ AddCache(r)
          \/ AddUser(r)
    \/ \E f \in AccessSets : Expire(f)
    \/ \E u \in Users, a \in AccessSets : RBACChange(u, a)

Spec == Init /\ [][Next]_vars

-----------------------------------------------------------------------------
(***************************************************************************)
(* Properties.                                                             *)
(***************************************************************************)
\* The verbs that give a method (spec 4.3, verb-to-method table).
MethodVerbs == {"get", "list", "delete", "update", "create", "patch"}

\* The grants of a on s that count for s: cluster-scoped schemas count only
\* grants on every namespace (spec 4.3, cluster-scoped hygiene).
Effective(a, s) ==
    {g \in a.grants : /\ g.group = GR(s).group /\ g.resource = GR(s).resource
                      /\ g.verb \in SchemaDefs[s].verbs
                      /\ SchemaDefs[s].namespaced \/ g.ns = All}

Has(a, s, vs) == \E g \in Effective(a, s) : g.verb \in vs

\* A method as the spec says it appears: blocked-<M> when s disallows it.
Token(s, m) == IF m \in SchemaDefs[s].disallow THEN "blocked-" \o m ELSE m

RefColl(a, s) ==
    {Token(s, "GET") : i \in 1 .. (IF Has(a, s, {"get", "list"}) THEN 1 ELSE 0)}
    \cup {Token(s, "POST") : i \in 1 .. (IF Has(a, s, {"create"}) THEN 1 ELSE 0)}

RefRes(a, s) ==
    LET M == {"GET"} \X {x \in {1} : Has(a, s, {"get", "list"})}
             \cup {"DELETE"} \X {x \in {1} : Has(a, s, {"delete"})}
             \cup {"PUT", "PATCH"} \X {x \in {1} : Has(a, s, {"update"})}
             \cup {"PATCH"} \X {x \in {1} : Has(a, s, {"patch"})}
    IN  {Token(s, p[1]) : p \in M}

IsNamespacesSchema(s) == GR(s).group = "" /\ GR(s).resource = "namespaces"

SeqSet(q) == {q[i] : i \in DOMAIN q}

\* P6 with the verb-to-method table, the cluster-scoped hygiene and the
\* blocked- prefix, for every projection a request returned: a schema with
\* a group/resource other than namespaces is listed iff the user holds a
\* grant on it that gives a method, and it then carries exactly the
\* methods those grants give. The cache may have served it long after it
\* was computed, for another user with the same access.
ProjectionComplete ==
    \A r \in Reqs : rpc[r] = "idle" /\ rres[r] # None =>
      LET p == rres[r] IN
      \A s \in SchemaIds : GR(s).resource # "" /\ ~IsNamespacesSchema(s) =>
        /\ (s \in DOMAIN p.schemas) <=> Has(p.for, s, MethodVerbs)
        /\ s \in DOMAIN p.schemas =>
             /\ SeqSet(p.schemas[s].coll) = RefColl(p.for, s)
             /\ SeqSet(p.schemas[s].res) = RefRes(p.for, s)

\* Spec 5: no projection older than the last RBAC change is served. A
\* request whose user's access did not change since it began returns the
\* projection of that user's current access set, although the cache it
\* reads is filled and purged by the requests of every user.
NoStaleProjection ==
    \A r \in Reqs : rpc[r] = "idle" /\ rres[r] # None /\ ~stale[r] =>
        rres[r].for = access[Owner[r]]

\* The shared schema list holds each method at most once.  Line 132 appends
\* GET to the shared schema on every projection for a user without
\* namespaces, so without a check the list grows for the life of the process.
SharedMethodsDistinct ==
    \A s \in SchemaIds : \A k, l \in 1..Len(registry[s]) :
        k # l => registry[s][k] # registry[s][l]

\* P6 for the namespaces schema: it is listed iff the user holds a grant on
\* it that gives a method, or holds no grant on it at all (the synthesized
\* namespace rule).
NamespacesListedBySynthesis ==
    \A r \in Reqs : rpc[r] = "idle" /\ rres[r] # None =>
      LET p == rres[r] IN
      \A s \in SchemaIds : IsNamespacesSchema(s) =>
        ((s \in DOMAIN p.schemas) <=>
            (Has(p.for, s, MethodVerbs) \/ Effective(p.for, s) = {}))

\* Spec 4.4: the cache keeps one record per user. Once no request of u is
\* running, at most one cache entry was installed by u's requests.
OneRecordPerUser ==
    \A u \in Users :
      (\A r \in Reqs : Owner[r] = u => rpc[r] = "idle") =>
        Cardinality({f \in AccessSets : cache[f] # None /\ u \in owners[f]}) <= 1

=============================================================================
