# Formal models of steve's SQL cache client, schema projection, client factory and CRD converter

This directory holds TLA+ models of four parts of the repository under
`src/`. It has TLC configurations that check them on small instances, and
TLAPS proofs, for every instance, of the main safety properties of all
four parts and of the SQL client's refinement of an abstract store. `PROJECT.json` lists the components, runs,
mutants, the source lines each definition models (`map`), the findings,
the hazards and the theorems.

## The system and its parts

| Part (spec name) | Source | Model |
|---|---|---|
| SQL cache client (C5) | `src/pkg/sqlcache/db/client.go` | `SqlClient`, abstract `SqlStore`, proofs in `SqlClientProofs` |
| Schema projector and projection cache (C3, C4) | `src/pkg/schema/factory.go` | `SchemaCollection`, proofs in `SchemaCollectionProofs` |
| CRD converter | `src/pkg/schema/converter/crd.go` | `CrdConverter`, proofs in `CrdConverterProofs` |
| Client config factory | `src/pkg/client/factory.go` | `ClientFactory`, proofs in `ClientFactoryProofs` |
| Access set and policy rule index (C1, C2) | test only under `src/` | queries spec-modelled inside `SchemaCollection` |
| Authenticator union (C6) | test only under `src/` | not modelled |

How the parts interact:
- The informers write objects through the SQL client (`WithTransaction`
  and `Upsert`) and read them back (`QueryForRows` and `ReadObjects`).
- `NewConnection` throws the database file away and opens a new one. It
  takes `connLock` for writing, while every query takes it for reading.
- HTTP requests call `Collection.Schemas`. It asks the access set store
  for the user's access set, looks the projection up in a cache keyed by
  the access set's ID, and otherwise projects the shared schema list
  under `c.lock.RLock`.
- The CRD converter runs during schema discovery and annotates the
  discovered schemas that `SchemaCollection` later projects.
- Every request handler builds its Kubernetes client through the client
  factory, concurrently with the other requests, from configs the
  factory built once and shares.

## SqlClient (client.go)

State:
- `pc`: where each goroutine is, per process.
- `readers` and `writer`: the two sides of `connLock`, a writer-preferring
  `sync.RWMutex`. A pending `Lock` blocks new `RLock` calls.
- `conn`: the generation (database file) of `c.conn`, and whether it is
  open.
- `fileLock[g]`: SQLite's write lock on file `g`. The DSN sets
  `_txlock=immediate`, so a writing `BeginTx` takes it at BEGIN.
- `db[g]`: the keys committed to file `g`.
- `tx[p]` and `canceled[p]`: the `sql.Tx` and ctx of each goroutine.
- `acked` and `ackedSinceOpen`: the upserts whose `WithTransaction`
  returned nil.

Actions follow the handler's steps:
- `StartWithTransaction`, `RLockBegin`, then `BeginTxOk` or `BeginTxErr`,
  which hold lines 74-83 together with the `RUnlock`.
- The body, which may hold several steps: `Upsert`, `QueryForRows` (which
  takes `RLock` again), `ReadObjects` and `FinishBody`.
- `commit` and `rollback`, which hold lines 89-113.
- `Cancel` by the caller, and `AwaitDone`, database/sql's asynchronous
  rollback on a canceled ctx.
- `StartNewConnection`, `LockConn` and `NewConnection`. NewConnection's
  outcomes are every error path of lines 412-463 in code order.

A touchFile error returns success and leaves the closed handle.
`MaxOps` bounds the statements of one body. `MaxResets` bounds the
NewConnection calls.

Fairness: `WF_vars(Step(p))` for each goroutine. The Go scheduler runs any
goroutine that can run. A waiting BeginTx always has a step: success once
the lock is free, or the busy_timeout error. Callers need not call again
or cancel, so Start and Cancel get no fairness.

Runs (`MC_SqlClient.tla`, model values for goroutines and keys):

| Run | Bounds | Checks | Result |
|---|---|---|---|
| `sqlclient_safety` | 3 goroutines (symmetric), 1 key, 1 reset, 1 op, cancels on, every NewConnection failure | `TypeOK`, `LockReleasedOnReturn`, `AckedWritesCommitted`, `StoreRefinement`, `ConnStableUnderRLock` | pass, about 1.1M states |
| `sqlclient_live` | 3 goroutines, writers only, no cancels, temp-dir mode | `EveryCallReturns` | pass |
| `sqlclient_lostack` | writers, no failures | `AckedVisibleOnCurrentConn` | violated |
| `sqlclient_ncopen` | touchFile failure | `NewConnectionLeavesOpen` | violated |

`SqlStore` is the abstract specification of what the client promises
(spec section 4.5). Writers own a file from BEGIN to commit or
rollback, only the owner commits, a commit adds its upserts all at once
and acknowledges exactly those, and NewConnection adds a new empty file.
`SqlClient` instantiates it with `Files <- Gens` and `owner <- fileLock`,
and `sqlclient_safety` checks `StoreRefinement == Store!Spec` as a
property. Every other client step (read locks, queries, read-only
transactions, cancel, a failed NewConnection) is a stutter of the store.
The lost acknowledgement of `sqlclient_lostack` does not break the
refinement: the store allows a commit to an old file.

Writers serialize per file only, and this is weaker than spec P7. P7 and
the comment at client.go 58-59 promise that a second writer begins only
after the first ended, across the client. After NewConnection, a writer
still open on the old file and a writer on the new file are both live.
This is the same window as `sqlclient_lostack`. The project checks no
property that hides it: there is no per-file "P7" property. Its
client-wide form has no run of its own, since the lost acknowledgement
already shows the window.

`LockReleasedOnReturn` says a goroutine that has returned from
WithTransaction holds no file's write lock, unless its ctx was canceled
and awaitDone has yet to roll back. Inside a call, only a goroutine in
its body, commit or rollback holds one. A mutant whose rollback path
returns f's error without calling `c.rollback` (line 86) violates it. The
file then stays locked with the goroutine back at idle.

`ConnStableUnderRLock` is an action property: no step changes `conn`
while a goroutine is at `beginTx`, about to call `c.conn.BeginTx` under
`connLock.RLock` (lines 75-80). A mutant whose `RLockBegin` skips the
`RLock` violates it, because NewConnection can then swap the handle under
a goroutine about to begin.

Three goroutines are the fewest that reach the three-party wait: a writer
holding the file lock, a reader blocked in BeginTx under `RLock`, and a
pending `Lock`. One reset and one op are enough for a transaction to
outlive its connection and to re-take `RLock`. The liveness run shows that
only the busy_timeout error path breaks the wait. A variant without that
disjunct violates `EveryCallReturns`.

Findings:
- **Acknowledged write lost after NewConnection (`sqlclient_lostack`).**
  `connLock` is released right after BeginTx. A writing transaction begun
  before `NewConnection` therefore commits into the old, removed file.
  Its `WithTransaction` returns nil, and later queries never see the row.
- **NewConnection reports success with a closed handle
  (`sqlclient_ncopen`).** A touchFile error returns `dbPath, nil` after
  `c.conn.Close()`.

## SchemaCollection (factory.go)

The access set is its own ID: the ID is a content fingerprint. The model
has these parts:
- **The projection, as operators.** `Project(a, reg)` models
  `schemasForSubject` (lines 76-176). It is built per schema from
  `VerbList` (the cluster-scoped trim), `DirectAccess`, `NamespaceSynth`
  and `VerbAccess` (the namespace rule), `Allowed` (the blocked- prefix),
  `ProjectedColl`, `ProjectedRes` and `Included`.
- **The shared-schema write.** `RegistryAfter` gives the shared schema
  list after the write of line 132.
- **The request protocol, as actions.**
  - `Begin` models lines 36-37 and removeOldRecords' read.
  - `Purge` models lines 57-60 and purgeUserRecords.
  - `Lookup` models lines 38-42.
  - `Compute` models lines 44-47, including its error path.
  - `AddCache` and `AddUser` model addToCache's two cache calls.

Each LRU call is atomic, and nothing makes a sequence of them atomic. The
environment has two actions: `Expire` (the TTL or LRU drops an entry) and
`RBACChange` (AccessFor returns another set). The AccessSet queries
(`AccessListFor`, `Namespaces`, `AnyVerb`) are in a package not under
`src/`, so they are modelled from spec section 3.1.

Runs (`MC_SchemaCollection.tla`):
- Four schemas: namespaces, pods with DELETE disallowed, cluster-scoped
  nodes, and one schema without a group/resource.
- Access sets that take every branch: no grant; pods grants with a
  namespace; a namespaced grant on nodes, which is trimmed.

| Run | Bounds | Checks | Result |
|---|---|---|---|
| `schema_cache` | 2 users with a request each, 3 calls each, 1 RBAC change, projection errors | `TypeOK`, `ProjectionComplete`, `NoStaleProjection` | pass, about 204k states |
| `schema_nsvis` | 2 users with a request each, 2 calls each, no RBAC change, no projection errors; access sets: none, watch-only on namespaces | `NamespacesListedBySynthesis` | violated |
| `schema_onerec` | 2 concurrent requests of one user, 1 RBAC change | `OneRecordPerUser` | violated |
| `schema_growth` | as `schema_nsvis`, with the access sets of `schema_cache` (none, pods, namespaced nodes) | `SharedMethodsDistinct` | violated |

`ProjectionComplete` compares each returned projection with a reference
written from spec section 4.3: the verb-to-method table, the
cluster-scoped trim and blocked- methods, with P6 for every schema except
namespaces. The cache may have served the projection long after another
user's request computed it.

`CHECK_DEADLOCK FALSE` is set because the server can simply receive no
further requests. The end states are those where every request has made
its calls.

Findings:
- **Line 132 writes to the shared schema (`schema_nsvis`).** The GET it
  appends to `s.CollectionMethods` is applied before `DeepCopy`, so it is
  permanent. A later user whose only grant on namespaces is `watch` then
  sees the namespaces schema with GET.
- **One record per user is not kept under concurrent requests of one user
  (`schema_onerec`).**
- **The shared list grows without bound (`schema_growth`).** Every
  projection for a user without namespaces appends another GET to the
  shared namespaces schema, so after two such projections it lists GET
  twice.

## ClientFactory (client/factory.go)

State. The model reduces `rest.Config` to the fields the factory sets:
QPS, burst, the watch timeout, the Table wrap, the impersonated user and
the WarningHandler (a goroutine's own handler is named by its process).
- `heap` holds the shared configs: the caller's `cfg` and the four
  derived `clientCfg`, `watchClientCfg`, `tableClientCfg` and
  `tableWatchClientCfg`.
- `md` and `dyn` are the configs the metadata and dynamic clients were
  made from.
- `copies[p]` is the copy `setupConfig` made for goroutine `p`, and
  `cur[p]` says which config `p` now points at: `"copy"`, a shared one,
  or `"nil"`.
- `out[p]` is the last result `p` got: a client with its config, an
  error, or a panic.

Actions:
- `NewFactoryOk` and `NewFactoryErr` model `NewFactory`, with every
  option list of the instance.
- `SharedClient` models the three accessors that return a shared client.
- `K8sInterface` models `K8sInterface`.
- Every other method is split at the two places where another goroutine
  can interleave:
  - `setupConfig` is one of `BuildShared`, `BuildCopy` or `BuildNoUser`;
  - the write `cfg.WarningHandler = warningHandler` of line 223 is
    `SetHandler`, or `SetHandlerPanic` when `cfg` is nil;
  - `dynamic.NewForConfig` copies the config into the client
    (`NewForConfig`).
- `MaxCalls` bounds the calls.

Runs (`MC_ClientFactory.tla`): two goroutines, two users plus "no user in
the context", and the option lists none and one `WithQPSAndBurst`.

| Run | Checks | Result |
|---|---|---|
| `clientfactory_scoped` | `RequestScopedConfig` | pass, about 722k states |
| `clientfactory_handler` | `OwnWarningHandler` | violated |

`RequestScopedConfig` says every client impersonates its own request's
user when its method impersonates, and nobody otherwise. It also says
that an impersonating client carries its own WarningHandler. With two
goroutines, every interleaving of two builds and of a build with
`NewFactory`'s options is covered. Deadlock is not checked, because the
process may simply get no more requests.

Findings:
- **Line 223 writes into a shared config (`clientfactory_handler`).**
  Without impersonation, and for every Admin method, `setupConfig`
  returns the factory's own config. Two requests race on
  `WarningHandler`, so a client can be built with the other request's
  handler. `AdminK8sInterface` and `Factory.Config` then keep a stale
  handler.

Two more defects can be read off the code. A single sequential call
reaches each of them, so a unit test reaches them and no run is kept for
them:
- Line 223 runs before the error check, so an impersonating request
  without a user panics instead of getting "user not found for
  impersonation". The model keeps this path as `SetHandlerPanic`.
- Lines 112 and 117 build the metadata and dynamic clients from `cfg`,
  not `clientCfg`. They therefore miss the QPS and burst that the
  comments of lines 19-20 and 69-70 promise.

## CrdConverter (converter/crd.go)

`addCustomResources` is a loop with one action per step:
- `ListErr` and `ListOk` are the `List` call.
- `SkipCrd` and `EnterCrd` are the accepted-names check.
- `ForVersion` is one `forVersion` call.
- `VersionsDone` and `Finish` end the loops.

`forVersion` is the operator `ForVersionMap`, with `Annotate` for lines
74-80. `GVKToVersionedSchemaID` is not under `src/`, so it is modelled as
an injective tuple.

The reference `Annotated` states the result over the whole list at once.
A schema is marked when some version of an accepted CRD names it. Its
columns and description come from the last such version that has any,
and otherwise are discovery's.

Runs (`MC_CrdConverter.tla`):
- About 120 CRD lists: duplicated versions, unaccepted CRDs, versions
  with and without printer columns, `Schema` and `OpenAPIV3Schema`.
- 6 discovered-schema maps, some without the schema a version names.

The unaccepted CRD has an empty accepted kind as well as an empty plural.
The API server sets the accepted names together, so this is the state
line 39 meets. Then the check at line 39 cannot change the result: with
it dropped, the ID built from the empty kind names no discovered schema,
and forVersion skips it. So no run can show that the check matters.

| Run | Checks | Result |
|---|---|---|
| `crd_annotate` | `TypeOK`, `AnnotatedWhenListed` | pass, about 7.3k states |
| `crd_listerr` | `NilMeansAnnotated` | violated: line 35 returns nil when List fails |

## Proofs

### SqlClientProofs

All of the following are proved by `tlapm` for every finite set of
goroutines and keys and every value of the bounds. The assumptions are
`ConstAssumption` in `SqlClient`.
- `TypeCorrect`: `Spec => []TypeOK`. TypeOK alone is not inductive,
  because NewConnection opens file `lastGen + 1`. The inductive invariant
  adds `GenBound`: every NewConnection still running was counted in
  `resets`. The proof uses cardinality facts from FiniteSetTheorems.
- `LockSafety` (a lemma for the others): `Spec => []LockHeldByLiveTx`. It is proved from
  `LockInv = TypeInv /\ DoneOutsideTx /\ LockHeldByLiveTx`.
  `DoneOutsideTx` says a goroutine on its way into BeginTx, or inside
  NewConnection, has no open transaction. Without it, BeginTxOk could
  overwrite a transaction that still owns a lock. TLC checked it as an
  invariant before the proof.
- `LockReleased`: `Spec => []LockReleasedOnReturn`. It is proved from
  `LockInv /\ ReturnInv`. `ReturnInv` says a goroutine at idle whose ctx
  is not canceled has a finished transaction. Every return path either
  finishes the transaction (commit, rollback, a BeginTx that failed and
  opened none) or meets a canceled ctx. `LockInv` makes the holder a live
  writer. `DoneOutsideTx` then excludes the states on the way into a
  transaction and inside NewConnection.
- `AckedSafety`: `Spec => []AckedWritesCommitted`. This one is inductive
  given TypeOK: only commit changes `db` or `acked`, and it adds the same
  keys to both.
- `Refinement`: `Spec => StoreRefinement`. The inductive invariant
  `RefInv` adds to `LockInv`:
  - `CleanOutsideTx`: a goroutine that is idle or on its way into a
    transaction, and whose transaction is done, has no pending upserts.
  - `PendingWrites`: only a writing transaction has pending upserts.
  - `ConnGen`: `c.conn` points at a file already created.

  With these, commit is the store's `Commit` of the pending set by the
  lock owner (or a stutter for a read-only transaction), rollback and
  awaitDone are `Abort`, a writing BeginTxOk is `Begin`, and a successful
  NewConnection is `NewFile`. `LockInv` is needed so that the goroutine
  releasing a lock is the owner. `PendingWrites` is needed so that a
  read-only commit changes nothing.
- `ConnStable`: `Spec => ConnStableUnderRLock`. The invariant
  `BeginInRLock` says every goroutine at `beginTx` is among the readers
  of `connLock`. Only `RLockBegin` moves a goroutine there, and it adds it
  to the readers. The two BeginTx outcomes remove it, and they leave
  `beginTx` in the same step. NewConnection is the only step that changes
  `conn`, and it runs only when there are no readers. So no goroutine is
  at `beginTx` when it runs. The preservation proof needs `TypeOK` from
  `TypeCorrect`.

### ClientFactoryProofs

These hold for every set of goroutines and users, every option list and
every value of `MaxCalls`, under `FactoryAssumption`.
- `ClientFactoryTypeCorrect`: `Spec => []TypeOK`. No run checks this
  `TypeOK`. `Config` keeps only the fields the factory sets, so a wrong
  config built in their place (a fresh `&rest.Config{}` has zero values
  in every field) would still be of that type. The type is proved here
  because `ScopedInv` needs it.
- `RequestScoped`: `Spec => []RequestScopedConfig`.

`RequestScopedConfig` is not inductive. A client is safe only because of
how the build that made it went. The inductive invariant `ScopedInv`
adds two facts:
- `SharedUnimpersonated`: no shared config, nor `md` or `dyn`, ever
  carries an impersonated user. This is why the shared configs may be
  handed out.
- `BuildInv(p)`: a build in progress has no result yet. If it holds a
  copy, its method impersonates and the copy carries the request's user
  (and, after line 223, its own handler). If it holds a shared config,
  its method does not impersonate.

The proof has one lemma per action, and a framing lemma (`OtherFrame`)
for the goroutines an action does not touch.

### CrdConverterProofs

Under `CrdAssumption`, for every list of CRDs and every discovered-schema
map:
- `CrdTypeCorrect`: `Spec => []TypeOK`.
- `LoopComputesReference`: `Spec => []AnnotatedWhenListed`. When the loop
  is done after a successful List, the schemas equal the reference
  `Annotated`, which is stated over the whole list at once.

The inductive invariant `LoopInv` says that, while the loop runs, the
schemas are the reference applied to the prefix of the list already
visited. `Before(i, j)` is that prefix of CRD/version positions, and
`AnnotatedIn(crds, orig, P)` is the reference restricted to it.
`LoopShape` relates the cursor to the list: the CRD being visited is
accepted, the List failed only when nothing was changed, and nothing was
changed before List. A step of `ForVersion` extends the prefix by one
position. Lemma `InStep` shows that this is one `ForVersionMap` call, and
it rests on `EntryAdd` and `HitsStep` about the "last version with
columns" choice. The induction over the list is the invariant itself, so
no recursive definition is needed.

`Annotate` is written with record constructors rather than `EXCEPT` on
records, and the test for an accepted name is named `Accepted`. The
provers handle both forms more reliably.

### SchemaCollectionProofs

Under `SchemaAssumption`, which includes that every schema's collection
methods are a sequence of method tokens:
- `SchemaTypeCorrect`: `Spec => []TypeOK`.
- `NoStaleServed`: `Spec => []NoStaleProjection`. A request whose access
  set has not gone stale never returns a projection made for another
  access set.

`NoStaleProjection` is not inductive. A step may return what the cache
holds, or what the request computed, so the inductive invariant
`CacheInv` adds:
- `CacheTagged`: every cached projection was made for its key.
- `HeldAccess`: a request in progress holds an access set, and unless it
  went stale, that is its user's current set.
- `HeldProjection`: a request has no result before its lookup or compute,
  and the result it holds afterwards was made for the access set it
  holds.

TLC checked `CacheInv` on both `schema_cache` instances before the proof.

### SchemaProjectionProofs

This module proves `ProjectionCorrect`:
`ASSUME EmptySlots PROVE Spec => []ProjectionComplete`.

The hypothesis `EmptySlots` comes from spec section 4. Every schema that
the projector governs has a resource name and is not the synthesized
namespaces schema. Such a schema reaches the projector with empty
`collectionMethods` and `resourceMethods` slots. The projector fills
those slots. The model's `SchemaDefs` satisfy `EmptySlots`, and TLC
checked it on the `schema_cache` instance. Without it, the theorem would
be false: a schema could arrive with a method that was not granted.

`ProjectionComplete` is not inductive. It speaks about what a request
returns, and that comes from the cache, or from the shared schema list
that `Project` reads. The inductive invariant `ProjInv` has three parts:
- `RegistryFixed`: the shared list keeps every governed schema as it
  was. The data-race append of line 132 only touches the synthesized
  namespaces schema.
- `CacheComplete`: every cached projection is complete.
- `HeldComplete`: every projection a request holds is complete.

`ProjInv` is proved on top of `CacheInv` from `SchemaCollectionProofs`.
`CacheInv` gives the fact that a request's access set is one of
`AccessSets`. TLC checked `ProjInv` before the proof.

The lemmas follow what `Project` computes for one schema:
- `AnyVerbHas` and `AllowedToken`: which verb tokens the access set
  grants.
- `GovernedComplete`: for a governed schema, the projected method lists
  hold exactly the granted tokens. It starts from the empty slots and
  appends at most one token per verb.
- `ProjectComplete`: every governed schema in a projection is complete.

The sequence facts come from the library's `SequenceTheorems`. No
recursive definition is involved.

### What stays with TLC

The following stay with TLC only:
- Liveness (`EveryCallReturns`), because the provers do not handle
  fairness and ENABLED.
- The violated properties. Their runs show counterexamples, so there is
  nothing to prove.
- The protocol hazard of client.go line 79 (a read-only transaction used
  for writes gets SQLITE_BUSY). The callers that choose `forWriting` are
  not under `src/`, so the model lets only writing transactions upsert,
  as the comment on `WithTransaction` requires. `PendingWrites` in the
  refinement proof states that assumption as an invariant.

## Not modelled, and the plan

Not modelled:
- `Prepare` and the other readers (`ReadStrings`, `ReadStrings2`,
  `ReadInt`), which take the same `RLock` as `ReadObjects`.
- gob encoding and encryption (P5 round-trip).
- `extractBarredValue`.
- `applyTemplates`.
- The writers of `c.schemas`, which are not under `src/`.
- The data race of line 132 itself: a lost append. The model makes the
  append atomic.
- In the client factory: `addQuery.RoundTrip`, which rewrites HTTP
  requests and is modelled only as the Table flag. `IsImpersonating`,
  a read that changes nothing, has no action.
- `staticFields` in `crd.go`, which the functions modelled do not read.

Plan:
1. A spec-modelled policy rule index (C2), with the test's scenarios as
   checks, including the test that disagrees with spec section 3.2 for
   RoleBinding namespace names.
