----------------------------- MODULE SqlClient -----------------------------
(***************************************************************************)
(* The SQLite-backed cache client of pkg/sqlcache/db/client.go.            *)
(*                                                                         *)
(* Goroutines (Proc) call WithTransaction and NewConnection concurrently.  *)
(* Modelled shared state:                                                  *)
(*   - the handle c.conn, swapped by NewConnection: which database file    *)
(*     (generation) it points at and whether it is still open;             *)
(*   - c.connLock, a Go sync.RWMutex (writer-preferring: once Lock is      *)
(*     pending, new RLock calls block);                                    *)
(*   - SQLite's write lock on each file: with _txlock=immediate a writing  *)
(*     BeginTx takes it at BEGIN, waiting at most busy_timeout;            *)
(*   - the committed keys of each file, and each goroutine's transaction   *)
(*     as database/sql sees it (done flag, uncommitted upserts);           *)
(*   - context cancellation, after which database/sql's awaitDone          *)
(*     goroutine rolls the transaction back asynchronously.                *)
(* Object payloads, gob encoding and encryption are abstracted to keys:    *)
(* the properties only tell apart which upserts reached which file.        *)
(***************************************************************************)
EXTENDS Naturals, FiniteSets

CONSTANTS
    Proc,        \* goroutines using the client
    Keys,        \* object keys an Upsert may write
    NoProc,      \* "nobody" for the RWMutex writer and the SQLite lock
    MaxResets,   \* bound on NewConnection calls
    UseTempDir,  \* the useTempDir argument of NewClient / NewConnection
    NCFailures,  \* which NewConnection error paths the run explores
    MaxOps,      \* bound on the Upserts and queries of one body f
    TxModes,     \* the forWriting arguments callers pass to WithTransaction
    Cancels      \* whether callers cancel the ctx of a call in progress

ASSUME ConstAssumption ==
    /\ IsFiniteSet(Proc) /\ Proc # {}
    /\ NoProc \notin Proc
    /\ MaxResets \in Nat
    /\ MaxOps \in Nat
    /\ TxModes \subseteq BOOLEAN /\ TxModes # {}
    /\ Cancels \in BOOLEAN
    /\ UseTempDir \in BOOLEAN
    /\ NCFailures \subseteq {"closeErr", "removeErr", "createTempErr", "touchErr", "openErr"}

\* Database files ever created: 1 is the one NewClient opened.
Gens == 1 .. (MaxResets + 1)

VARIABLES
    pc,        \* pc[p]: where goroutine p is in its current call
    conn,      \* c.conn: [gen |-> file it opened, open |-> not yet Closed]
    lastGen,   \* newest database file created
    resets,    \* NewConnection calls made so far
    readers,   \* goroutines holding c.connLock.RLock
    writer,    \* goroutine holding or waiting for c.connLock.Lock
    fileLock,  \* fileLock[g]: goroutine holding SQLite's write lock on file g
    db,        \* db[g]: keys committed to file g
    tx,        \* tx[p]: p's transaction as database/sql tracks it
    canceled,  \* canceled[p]: the ctx of p's current call is canceled
    ncRet,     \* result of the last NewConnection call
    acked,     \* history: <<key, gen>> of every upsert WithTransaction acknowledged
    ackedSinceOpen \* history: keys acknowledged since c.conn was last (re)opened

vars == <<pc, conn, lastGen, resets, readers, writer, fileLock, db, tx,
          canceled, ncRet, acked, ackedSinceOpen>>

PcValues == {"idle", "rlockBegin", "beginTx", "body", "read",
             "commit", "rollback", "ncLock", "ncDrain"}

\* pending: the keys f upserted; they reach the file only if commit runs.
\* ops: the statements f has run so far.
TxRec == [gen: Gens, writing: BOOLEAN, done: BOOLEAN, pending: SUBSET Keys,
          ops: 0 .. MaxOps]

TypeOK ==
    /\ pc \in [Proc -> PcValues]
    /\ conn \in [gen: Gens, open: BOOLEAN]
    /\ lastGen \in Gens /\ resets \in 0 .. MaxResets
    /\ readers \subseteq Proc
    /\ writer \in Proc \cup {NoProc}
    /\ fileLock \in [Gens -> Proc \cup {NoProc}]
    /\ db \in [Gens -> SUBSET Keys]
    /\ tx \in [Proc -> TxRec]
    /\ canceled \in [Proc -> BOOLEAN]
    /\ ncRet \in {"none", "ok", "err"}
    /\ acked \subseteq Keys \X Gens
    /\ ackedSinceOpen \subseteq Keys

\* The transaction record of a goroutine with no transaction.
IdleTx == [gen |-> 1, writing |-> FALSE, done |-> TRUE, pending |-> {}, ops |-> 0]

\* The state right after NewClient returned with a fresh connection.
Init ==
    /\ pc = [p \in Proc |-> "idle"]
    /\ conn = [gen |-> 1, open |-> TRUE]
    /\ lastGen = 1 /\ resets = 0
    /\ readers = {} /\ writer = NoProc
    /\ fileLock = [g \in Gens |-> NoProc]
    /\ db = [g \in Gens |-> {}]
    /\ tx = [p \in Proc |-> IdleTx]
    /\ canceled = [p \in Proc |-> FALSE]
    /\ ncRet = "none"
    /\ acked = {} /\ ackedSinceOpen = {}

(***************************************************************************)
(* Helpers on a transaction.                                               *)
(***************************************************************************)
\* Releasing the SQLite write lock a writing transaction holds.
ReleaseLock(t) ==
    IF t.writing THEN [fileLock EXCEPT ![t.gen] = NoProc] ELSE fileLock

\* WithTransaction returns to its caller with p's transaction in state t.
\* A finished transaction is forgotten; one still open (its ctx canceled,
\* awaitDone not yet run) is kept with its ctx. Whether the call returned
\* nil is recorded by commit in acked.
Return(p, t) ==
    /\ pc' = [pc EXCEPT ![p] = "idle"]
    /\ tx' = [tx EXCEPT ![p] = IF t.done THEN IdleTx ELSE t]
    /\ canceled' = [canceled EXCEPT ![p] = @ /\ ~t.done]

(***************************************************************************)
(* withTransaction (client.go 74-97).                                      *)
(***************************************************************************)
\* A goroutine calls WithTransaction(ctx, forWriting, f) with a fresh ctx.
\* database/sql's awaitDone has rolled back any earlier transaction of p.
StartWithTransaction(p, forWriting) ==
    /\ pc[p] = "idle" /\ tx[p].done
    /\ pc' = [pc EXCEPT ![p] = "rlockBegin"]
    /\ tx' = [tx EXCEPT ![p].writing = forWriting]
    /\ canceled' = [canceled EXCEPT ![p] = FALSE]
    /\ UNCHANGED <<conn, lastGen, resets, readers, writer, fileLock, db, ncRet,
                   acked, ackedSinceOpen>>

\* Mutant: withTransaction calls c.conn.BeginTx without c.connLock.RLock().
RLockBeginUnlocked(p) ==
    /\ pc[p] = "rlockBegin"
    /\ pc' = [pc EXCEPT ![p] = "beginTx"]
    /\ UNCHANGED <<conn, lastGen, resets, readers, writer, fileLock, db, tx,
                   canceled, ncRet, acked, ackedSinceOpen>>

\* c.connLock.RLock(): blocks while a writer holds or waits for the lock.
RLockBegin(p) ==
    /\ pc[p] = "rlockBegin" /\ writer = NoProc
    /\ readers' = readers \cup {p}
    /\ pc' = [pc EXCEPT ![p] = "beginTx"]
    /\ UNCHANGED <<conn, lastGen, resets, writer, fileLock, db, tx, canceled,
                   ncRet, acked, ackedSinceOpen>>

\* Mutant: BEGIN DEFERRED instead of _txlock=immediate; a writing BeginTx
\* takes no lock at BEGIN.
BeginTxOkDeferred(p) ==
    /\ pc[p] = "beginTx"
    /\ conn.open /\ ~canceled[p]
    /\ tx' = [tx EXCEPT ![p] = [gen |-> conn.gen, writing |-> tx[p].writing,
                                done |-> FALSE, pending |-> {}, ops |-> 0]]
    /\ readers' = readers \ {p}
    /\ pc' = [pc EXCEPT ![p] = "body"]
    /\ UNCHANGED <<conn, lastGen, resets, writer, fileLock, db, canceled, ncRet,
                   acked, ackedSinceOpen>>

\* Mutant: the RUnlock after a successful BeginTx is forgotten.
BeginTxOkKeepsRLock(p) ==
    /\ pc[p] = "beginTx"
    /\ conn.open /\ ~canceled[p]
    /\ tx[p].writing => fileLock[conn.gen] = NoProc
    /\ fileLock' = IF tx[p].writing THEN [fileLock EXCEPT ![conn.gen] = p]
                                    ELSE fileLock
    /\ tx' = [tx EXCEPT ![p] = [gen |-> conn.gen, writing |-> tx[p].writing,
                                done |-> FALSE, pending |-> {}, ops |-> 0]]
    /\ pc' = [pc EXCEPT ![p] = "body"]
    /\ UNCHANGED <<conn, lastGen, resets, readers, writer, db, canceled, ncRet,
                   acked, ackedSinceOpen>>

\* c.conn.BeginTx succeeds, then c.connLock.RUnlock(). A writing BeginTx
\* runs BEGIN IMMEDIATE and so takes the file's write lock; a read-only one
\* takes no lock (WAL readers do not block).
BeginTxOk(p) ==
    /\ pc[p] = "beginTx"
    /\ conn.open /\ ~canceled[p]
    /\ tx[p].writing => fileLock[conn.gen] = NoProc
    /\ fileLock' = IF tx[p].writing THEN [fileLock EXCEPT ![conn.gen] = p]
                                    ELSE fileLock
    /\ tx' = [tx EXCEPT ![p] = [gen |-> conn.gen, writing |-> tx[p].writing,
                                done |-> FALSE, pending |-> {}, ops |-> 0]]
    /\ readers' = readers \ {p}
    /\ pc' = [pc EXCEPT ![p] = "body"]
    /\ UNCHANGED <<conn, lastGen, resets, writer, db, canceled, ncRet, acked,
                   ackedSinceOpen>>

\* c.conn.BeginTx fails, c.connLock.RUnlock(), return "begin tx" error:
\* the handle was closed by NewConnection, the ctx is canceled, or another
\* writer kept the file locked for the whole busy_timeout.
BeginTxErr(p) ==
    /\ pc[p] = "beginTx"
    /\ \/ ~conn.open
       \/ canceled[p]
       \/ tx[p].writing /\ fileLock[conn.gen] # NoProc
    /\ readers' = readers \ {p}
    /\ Return(p, tx[p])
    /\ UNCHANGED <<conn, lastGen, resets, writer, fileLock, db, ncRet, acked,
                   ackedSinceOpen>>

(***************************************************************************)
(* The body f(tx). The callers' bodies Upsert, query and read rows; any    *)
(* error they meet is returned by f.                                       *)
(***************************************************************************)
\* Upsert (client.go 353-367): encode, maybe encrypt, tx.Stmt(stmt).Exec.
\* Exec fails once the transaction is done; Encrypt may fail. Either way f
\* returns the error. Upserts happen only in writing transactions, as the
\* comment on WithTransaction requires.
Upsert(p, k) ==
    /\ pc[p] = "body" /\ tx[p].writing /\ tx[p].ops < MaxOps
    /\ \/ /\ ~tx[p].done
          /\ tx' = [tx EXCEPT ![p].pending = @ \cup {k}, ![p].ops = @ + 1]
          /\ UNCHANGED pc
       \/ /\ pc' = [pc EXCEPT ![p] = "rollback"]
          /\ UNCHANGED tx
    /\ UNCHANGED <<conn, lastGen, resets, readers, writer, fileLock, db,
                   canceled, ncRet, acked, ackedSinceOpen>>

\* QueryForRows (client.go 206-211): stmt.QueryContext under
\* c.connLock.RLock, which blocks while NewConnection holds or waits for
\* the write side. The query fails if the transaction is already done.
QueryForRows(p) ==
    /\ pc[p] = "body" /\ writer = NoProc /\ tx[p].ops < MaxOps
    /\ pc' = [pc EXCEPT ![p] = IF tx[p].done THEN "rollback" ELSE "read"]
    /\ tx' = [tx EXCEPT ![p].ops = @ + 1]
    /\ UNCHANGED <<conn, lastGen, resets, readers, writer, fileLock, db,
                   canceled, ncRet, acked, ackedSinceOpen>>

\* ReadObjects (client.go 221-248, with decryptScan and closeRowsOnError):
\* iterate the rows under c.connLock.RLock. A scan, decrypt or decode error,
\* or rows closed by the rollback of a canceled transaction, closes the
\* rows and f returns the error.
ReadObjects(p) ==
    /\ pc[p] = "read" /\ writer = NoProc
    /\ \/ ~tx[p].done /\ pc' = [pc EXCEPT ![p] = "body"]
       \/ pc' = [pc EXCEPT ![p] = "rollback"]
    /\ UNCHANGED <<conn, lastGen, resets, readers, writer, fileLock, db, tx,
                   canceled, ncRet, acked, ackedSinceOpen>>

\* f returns: nil leads to commit, an error to rollback.
FinishBody(p) ==
    /\ pc[p] = "body"
    /\ \E next \in {"commit", "rollback"} : pc' = [pc EXCEPT ![p] = next]
    /\ UNCHANGED <<conn, lastGen, resets, readers, writer, fileLock, db, tx,
                   canceled, ncRet, acked, ackedSinceOpen>>

(***************************************************************************)
(* commit and rollback (client.go 99-113) over database/sql's Tx.          *)
(***************************************************************************)
\* Mutant: commit swallows the ErrTxDone of a canceled ctx and returns nil.
commitSwallowsCanceled(p) ==
    /\ pc[p] = "commit"
    /\ IF tx[p].done /\ canceled[p]
       THEN /\ acked' = acked \cup (tx[p].pending \X {tx[p].gen})
            /\ ackedSinceOpen' = ackedSinceOpen \cup tx[p].pending
            /\ Return(p, tx[p])
            /\ UNCHANGED <<fileLock, db>>
       ELSE IF canceled[p] \/ tx[p].done
       THEN /\ Return(p, tx[p])
            /\ UNCHANGED <<fileLock, db, acked, ackedSinceOpen>>
       ELSE /\ db' = [db EXCEPT ![tx[p].gen] = @ \cup tx[p].pending]
            /\ fileLock' = ReleaseLock(tx[p])
            /\ acked' = acked \cup (tx[p].pending \X {tx[p].gen})
            /\ ackedSinceOpen' = ackedSinceOpen \cup tx[p].pending
            /\ Return(p, [tx[p] EXCEPT !.done = TRUE])
    /\ UNCHANGED <<conn, lastGen, resets, readers, writer, ncRet>>

\* tx.Commit(): with the ctx canceled it returns ErrTxDone if awaitDone
\* already rolled back (reworded by commit) or ctx.Err() without committing;
\* it returns ErrTxDone if the transaction is done; otherwise it commits.
commit(p) ==
    /\ pc[p] = "commit"
    /\ IF canceled[p] \/ tx[p].done
       THEN /\ Return(p, tx[p])
            /\ UNCHANGED <<fileLock, db, acked, ackedSinceOpen>>
       ELSE /\ db' = [db EXCEPT ![tx[p].gen] = @ \cup tx[p].pending]
            /\ fileLock' = ReleaseLock(tx[p])
            /\ acked' = acked \cup (tx[p].pending \X {tx[p].gen})
            /\ ackedSinceOpen' = ackedSinceOpen \cup tx[p].pending
            /\ Return(p, [tx[p] EXCEPT !.done = TRUE])
    /\ UNCHANGED <<conn, lastGen, resets, readers, writer, ncRet>>

\* Mutant: withTransaction returns f's error without calling c.rollback.
rollbackSkipped(p) ==
    /\ pc[p] = "rollback"
    /\ Return(p, tx[p])
    /\ UNCHANGED <<conn, lastGen, resets, readers, writer, fileLock, db, ncRet,
                   acked, ackedSinceOpen>>

\* tx.Rollback() after f failed: ErrTxDone if already done, else it rolls
\* back. WithTransaction returns f's error joined with rollback's.
rollback(p) ==
    /\ pc[p] = "rollback"
    /\ fileLock' = IF tx[p].done THEN fileLock ELSE ReleaseLock(tx[p])
    /\ Return(p, [tx[p] EXCEPT !.done = TRUE])
    /\ UNCHANGED <<conn, lastGen, resets, readers, writer, db, ncRet, acked,
                   ackedSinceOpen>>

(***************************************************************************)
(* Context cancellation and database/sql's awaitDone goroutine.           *)
(***************************************************************************)
\* The caller cancels the ctx of a WithTransaction call in progress.
Cancel(p) ==
    /\ Cancels
    /\ pc[p] \in {"rlockBegin", "beginTx", "body", "read", "commit", "rollback"}
    /\ ~canceled[p]
    /\ canceled' = [canceled EXCEPT ![p] = TRUE]
    /\ UNCHANGED <<pc, conn, lastGen, resets, readers, writer, fileLock, db, tx,
                   ncRet, acked, ackedSinceOpen>>

\* awaitDone sees ctx.Done() and rolls the open transaction back; if
\* WithTransaction already returned, the transaction is then forgotten.
AwaitDone(p) ==
    /\ canceled[p] /\ ~tx[p].done
    /\ fileLock' = ReleaseLock(tx[p])
    /\ IF pc[p] = "idle"
       THEN /\ tx' = [tx EXCEPT ![p] = IdleTx]
            /\ canceled' = [canceled EXCEPT ![p] = FALSE]
       ELSE /\ tx' = [tx EXCEPT ![p].done = TRUE]
            /\ UNCHANGED canceled
    /\ UNCHANGED <<pc, conn, lastGen, resets, readers, writer, db,
                   ncRet, acked, ackedSinceOpen>>

(***************************************************************************)
(* NewConnection (client.go 409-501).                                      *)
(***************************************************************************)
\* A goroutine calls NewConnection: c.connLock.Lock() first takes the
\* writer side (one writer at a time) and so blocks any new RLock.
StartNewConnection(p) ==
    /\ pc[p] = "idle" /\ tx[p].done
    /\ resets < MaxResets
    /\ resets' = resets + 1
    /\ pc' = [pc EXCEPT ![p] = "ncLock"]
    /\ UNCHANGED <<conn, lastGen, readers, writer, fileLock, db, tx, canceled,
                   ncRet, acked, ackedSinceOpen>>

LockConn(p) ==
    /\ pc[p] = "ncLock" /\ writer = NoProc
    /\ writer' = p
    /\ pc' = [pc EXCEPT ![p] = "ncDrain"]
    /\ UNCHANGED <<conn, lastGen, resets, readers, fileLock, db, tx, canceled,
                   ncRet, acked, ackedSinceOpen>>

\* The error paths in the order the code meets them. The file-creating
\* step that can fail depends on useTempDir: os.RemoveAll of the fixed path,
\* or os.CreateTemp.
NCOutcomes ==
    {"ok"} \cup (NCFailures \ {IF UseTempDir THEN "removeErr" ELSE "createTempErr"})

\* Mutant: no return after a failed sql.Open, so c.conn = sqlDB stores nil
\* (a handle on no file, gen 0).
NewConnectionStoresNil(p) ==
    /\ pc[p] = "ncDrain" /\ readers = {}
    /\ \E outcome \in NCOutcomes :
          IF outcome = "ok"
          THEN /\ conn' = [gen |-> lastGen + 1, open |-> TRUE]
               /\ lastGen' = lastGen + 1
               /\ ackedSinceOpen' = {}
               /\ pc' = [pc EXCEPT ![p] = "idle"]
               /\ ncRet' = "ok"
          ELSE /\ conn' = IF outcome = "openErr" THEN [gen |-> 0, open |-> FALSE]
                                                ELSE [conn EXCEPT !.open = FALSE]
               /\ UNCHANGED <<lastGen, ackedSinceOpen>>
               /\ pc' = [pc EXCEPT ![p] = "idle"]
               /\ ncRet' = IF outcome = "touchErr" THEN "ok" ELSE "err"
    /\ writer' = NoProc
    /\ UNCHANGED <<resets, readers, fileLock, db, tx, canceled, acked>>

\* Once all readers left, the body of NewConnection runs under the lock:
\* c.conn.Close() (a closed sql.DB refuses new transactions; those already
\* begun keep their own driver connection), remove or create the file,
\* touchFile, sql.Open; then Unlock. A touchFile error returns success
\* without replacing the closed handle.
NewConnection(p) ==
    /\ pc[p] = "ncDrain" /\ readers = {}
    /\ \E outcome \in NCOutcomes :
          IF outcome = "ok"
          THEN /\ conn' = [gen |-> lastGen + 1, open |-> TRUE]
               /\ lastGen' = lastGen + 1
               /\ ackedSinceOpen' = {}
               /\ pc' = [pc EXCEPT ![p] = "idle"]
               /\ ncRet' = "ok"
          ELSE /\ conn' = [conn EXCEPT !.open = FALSE]
               /\ UNCHANGED <<lastGen, ackedSinceOpen>>
               /\ pc' = [pc EXCEPT ![p] = "idle"]
               /\ ncRet' = IF outcome = "touchErr" THEN "ok" ELSE "err"
    /\ writer' = NoProc
    /\ UNCHANGED <<resets, readers, fileLock, db, tx, canceled, acked>>

(***************************************************************************)
(* The specification.                                                      *)
(***************************************************************************)
\* The steps a goroutine takes once it is inside a call, and awaitDone.
Step(p) ==
    \/ RLockBegin(p) \/ BeginTxOk(p) \/ BeginTxErr(p)
    \/ \E k \in Keys : Upsert(p, k)
    \/ QueryForRows(p) \/ ReadObjects(p) \/ FinishBody(p)
    \/ commit(p) \/ rollback(p) \/ AwaitDone(p)
    \/ LockConn(p) \/ NewConnection(p)

Next ==
    \E p \in Proc :
        \/ \E w \in TxModes : StartWithTransaction(p, w)
        \/ StartNewConnection(p)
        \/ Cancel(p)
        \/ Step(p)

\* Goroutines are scheduled by the Go runtime: one that can run eventually
\* does. Callers need not make further calls and need not cancel.
Fairness == \A p \in Proc : WF_vars(Step(p))

Spec == Init /\ [][Next]_vars /\ Fairness

(***************************************************************************)
(* Properties.                                                             *)
(***************************************************************************)
\* p has a writing transaction that database/sql has not finished.
LiveWriter(p) == tx[p].writing /\ ~tx[p].done

\* A file's write lock is held exactly by an open writing transaction on
\* that file (the lock invariant the proofs build on).
LockHeldByLiveTx ==
    /\ \A g \in Gens : fileLock[g] # NoProc =>
          LET q == fileLock[g] IN LiveWriter(q) /\ tx[q].gen = g
    /\ \A p \in Proc : LiveWriter(p) => fileLock[tx[p].gen] = p

\* No leaked SQLite lock (client.go 84-96): once WithTransaction has
\* returned to its caller, its goroutine holds no file's write lock, unless
\* the caller canceled the ctx and database/sql's awaitDone has yet to roll
\* the transaction back. Inside a call, only a goroutine past BeginTx, in
\* its body, commit or rollback, holds one. A return path that skipped
\* commit and rollback would keep the file locked, and every later writing
\* BeginTx would fail after busy_timeout.
LockReleasedOnReturn ==
    \A g \in Gens : fileLock[g] # NoProc =>
        LET q == fileLock[g] IN
            \/ pc[q] \in {"body", "read", "commit", "rollback"}
            \/ pc[q] = "idle" /\ canceled[q] /\ ~tx[q].done

\* connLock guards c.conn: while a goroutine holds RLock to begin its
\* transaction on c.conn (client.go 75-80), NewConnection neither closes
\* nor replaces the handle, so BeginTx never runs on a handle that is
\* being swapped.
ConnStableUnderRLock ==
    [][\A p \in Proc : pc[p] = "beginTx" => conn' = conn]_vars

\* An upsert for which WithTransaction returned nil is in the database file
\* its transaction wrote to: commit and rollback never acknowledge a
\* transaction that the cancel of its ctx rolled back.
AckedWritesCommitted ==
    \A e \in acked : e[1] \in db[e[2]]

\* Every WithTransaction and NewConnection call returns, although BeginTx
\* waits for the SQLite lock while holding connLock.RLock, NewConnection's
\* pending Lock blocks new RLocks, and a transaction body takes RLock again
\* in QueryForRows and ReadObjects.
EveryCallReturns ==
    \A p \in Proc : (pc[p] # "idle") ~> (pc[p] = "idle")

\* Spec section 5: an upsert whose transaction has committed is visible to
\* every later query. Stated for the connection in use: every key
\* acknowledged since c.conn was last opened is in the file c.conn reads.
AckedVisibleOnCurrentConn ==
    ackedSinceOpen \subseteq db[conn.gen]

\* Spec section 4.5, connection state machine: a NewConnection that returns
\* no error leaves c.conn OPEN.
NewConnectionLeavesOpen ==
    [][\A p \in Proc :
          (pc[p] = "ncDrain" /\ pc'[p] = "idle" /\ ncRet' = "ok") => conn'.open]_vars

\* The abstract store the client implements: c.conn's files with the SQLite
\* write lock as the owner of each file.
Store == INSTANCE SqlStore WITH Files <- Gens, owner <- fileLock

\* The client implements SqlStore: writing transactions own their file
\* from BeginTx to commit, rollback or awaitDone's rollback, only the owner
\* writes the file, its upserts reach it all at once, and only those are
\* acknowledged; NewConnection only adds a new empty file.  Every other
\* step (read locks, queries, a read-only transaction, cancel, a failed
\* NewConnection) leaves the store as it was.
StoreRefinement == Store!Spec

=============================================================================
