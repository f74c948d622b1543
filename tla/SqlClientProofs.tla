-------------------------- MODULE SqlClientProofs --------------------------
(***************************************************************************)
(* Proofs about SqlClient, for every number of goroutines, keys and        *)
(* NewConnection calls.                                                    *)
(*                                                                         *)
(* TypeOK alone is not inductive: NewConnection opens file lastGen + 1,    *)
(* which is in Gens only because each call in progress was counted in     *)
(* resets when it started. GenBound states that count.                    *)
(***************************************************************************)
EXTENDS SqlClient, FiniteSetTheorems, TLAPS

\* The goroutines inside a NewConnection call.
NCStates == {"ncLock", "ncDrain"}
InNC == {p \in Proc : pc[p] \in NCStates}

\* Every NewConnection still running was counted in resets and has not yet
\* created its file.
GenBound == lastGen + Cardinality(InNC) <= resets + 1

TypeInv == TypeOK /\ GenBound

-----------------------------------------------------------------------------
(***************************************************************************)
(* Lemmas on the set of goroutines inside NewConnection.                   *)
(***************************************************************************)
LEMMA InNCFinite ==
    ASSUME TypeOK PROVE IsFiniteSet(InNC) /\ Cardinality(InNC) \in Nat
<1>1. IsFiniteSet(InNC)
  BY ConstAssumption, FS_Subset DEF InNC
<1>2. QED
  BY <1>1, FS_CardinalityType

\* A step that moves no goroutine into or out of NewConnection keeps InNC.
LEMMA InNCUnchanged ==
    ASSUME TypeOK,
           \A q \in Proc : (pc'[q] \in NCStates) <=> (pc[q] \in NCStates)
    PROVE  InNC' = InNC
BY DEF InNC

\* The record updates the actions make keep a transaction record in TxRec
\* and the connection record in its type.
LEMMA TxRecUpdates ==
    ASSUME ConstAssumption, NEW t \in TxRec
    PROVE  /\ \A w \in BOOLEAN : [t EXCEPT !.writing = w] \in TxRec
           /\ [t EXCEPT !.done = TRUE] \in TxRec
           /\ IdleTx \in TxRec
<1>1. \A w \in BOOLEAN : [t EXCEPT !.writing = w] \in TxRec
  BY Zenon DEF TxRec
<1>2. [t EXCEPT !.done = TRUE] \in TxRec
  BY Zenon DEF TxRec
<1>3. IdleTx \in TxRec
  BY DEF IdleTx, TxRec, Gens
<1>4. QED
  BY <1>1, <1>2, <1>3

LEMMA ConnClose ==
    ASSUME NEW c \in [gen: Gens, open: BOOLEAN]
    PROVE  [c EXCEPT !.open = FALSE] \in [gen: Gens, open: BOOLEAN]
BY Zenon

-----------------------------------------------------------------------------
(***************************************************************************)
(* Type correctness.                                                       *)
(***************************************************************************)
LEMMA InitTypeInv == Init => TypeInv
<1> SUFFICES ASSUME Init PROVE TypeInv
  OBVIOUS
<1>1. TypeOK
  BY ConstAssumption DEF Init, TypeOK, PcValues, Gens, TxRec, IdleTx
<1>2. InNC = {}
  BY DEF Init, InNC, NCStates
<1>3. QED
  BY <1>1, <1>2, FS_EmptySet DEF TypeInv, GenBound, Init

\* The steps that leave every goroutine inside or outside NewConnection
\* where it was, and leave lastGen and resets alone.
LEMMA GenBoundKept ==
    ASSUME TypeInv, TypeOK',
           \A q \in Proc : (pc'[q] \in NCStates) <=> (pc[q] \in NCStates),
           UNCHANGED <<lastGen, resets>>
    PROVE  TypeInv'
BY InNCUnchanged DEF TypeInv, GenBound

LEMMA NextTypeInv == TypeInv /\ [Next]_vars => TypeInv'
<1> SUFFICES ASSUME TypeInv, [Next]_vars PROVE TypeInv'
  OBVIOUS
<1>0. TypeOK
  BY DEF TypeInv
<1> USE ConstAssumption
<1>1. ASSUME NEW p \in Proc, NEW w \in TxModes, StartWithTransaction(p, w)
      PROVE TypeInv'
  <2>1. TypeOK'
    BY <1>0, <1>1, TxRecUpdates, Zenon DEF StartWithTransaction, TypeOK, PcValues
  <2>2. QED
    BY <1>1, <2>1, GenBoundKept DEF StartWithTransaction, NCStates
<1>2. ASSUME NEW p \in Proc, StartNewConnection(p)
      PROVE TypeInv'
  <2>1. TypeOK'
    BY <1>0, <1>2 DEF StartNewConnection, TypeOK, PcValues
  <2>2. InNC' = InNC \cup {p} /\ p \notin InNC
    BY <1>0, <1>2 DEF StartNewConnection, InNC, NCStates, TypeOK, PcValues
  <2>3. IsFiniteSet(InNC) /\ Cardinality(InNC) \in Nat
    BY <1>0, InNCFinite
  <2>4. Cardinality(InNC') = Cardinality(InNC) + 1
    BY <2>2, <2>3, FS_AddElement
  <2>5. GenBound'
    BY <1>0, <1>2, <2>3, <2>4 DEF StartNewConnection, GenBound, TypeInv, TypeOK, Gens
  <2>6. QED
    BY <2>1, <2>5 DEF TypeInv
<1>3. ASSUME NEW p \in Proc, Cancel(p)
      PROVE TypeInv'
  <2>1. TypeOK'
    BY <1>0, <1>3 DEF Cancel, TypeOK, PcValues
  <2>2. QED
    BY <1>3, <2>1, GenBoundKept DEF Cancel
<1>4. ASSUME NEW p \in Proc, RLockBegin(p)
      PROVE TypeInv'
  <2>1. TypeOK'
    BY <1>0, <1>4 DEF RLockBegin, TypeOK, PcValues
  <2>2. QED
    BY <1>4, <2>1, GenBoundKept DEF RLockBegin, NCStates
<1>5. ASSUME NEW p \in Proc, BeginTxOk(p)
      PROVE TypeInv'
  <2>1. TypeOK'
    BY <1>0, <1>5 DEF BeginTxOk, TypeOK, PcValues, TxRec
  <2>2. QED
    BY <1>5, <2>1, GenBoundKept DEF BeginTxOk, NCStates
<1>6. ASSUME NEW p \in Proc, BeginTxErr(p)
      PROVE TypeInv'
  <2>1. TypeOK'
    BY <1>0, <1>6 DEF BeginTxErr, Return, IdleTx, TypeOK, PcValues, TxRec, Gens
  <2>2. QED
    BY <1>6, <2>1, GenBoundKept DEF BeginTxErr, Return, NCStates
<1>7. ASSUME NEW p \in Proc, NEW k \in Keys, Upsert(p, k)
      PROVE TypeInv'
  <2>1. TypeOK'
    BY <1>0, <1>7 DEF Upsert, TypeOK, PcValues, TxRec
  <2>2. pc' = pc \/ pc' = [pc EXCEPT ![p] = "rollback"]
    BY <1>7, Zenon DEF Upsert
  <2>3. QED
    BY <1>0, <1>7, <2>1, <2>2, GenBoundKept DEF Upsert, NCStates, TypeOK
<1>8. ASSUME NEW p \in Proc, QueryForRows(p)
      PROVE TypeInv'
  <2>1. TypeOK'
    BY <1>0, <1>8 DEF QueryForRows, TypeOK, PcValues, TxRec
  <2>2. QED
    BY <1>8, <2>1, GenBoundKept DEF QueryForRows, NCStates
<1>9. ASSUME NEW p \in Proc, ReadObjects(p)
      PROVE TypeInv'
  <2>1. TypeOK'
    BY <1>0, <1>9 DEF ReadObjects, TypeOK, PcValues
  <2>2. pc[p] = "read" /\ pc' \in {[pc EXCEPT ![p] = "body"], [pc EXCEPT ![p] = "rollback"]}
    BY <1>9 DEF ReadObjects
  <2>3. QED
    BY <1>0, <1>9, <2>1, <2>2, GenBoundKept DEF ReadObjects, NCStates, TypeOK
<1>10. ASSUME NEW p \in Proc, FinishBody(p)
       PROVE TypeInv'
  <2>1. TypeOK'
    BY <1>0, <1>10 DEF FinishBody, TypeOK, PcValues
  <2>2. QED
    BY <1>10, <2>1, GenBoundKept DEF FinishBody, NCStates
<1>11. ASSUME NEW p \in Proc, commit(p)
       PROVE TypeInv'
  <2>1. /\ pc[p] = "commit"
        /\ pc' = [pc EXCEPT ![p] = "idle"]
        /\ UNCHANGED <<conn, lastGen, resets, readers, writer, ncRet>>
    BY <1>11, Zenon DEF commit, Return
  <2>2. CASE canceled[p] \/ tx[p].done
    <3>1. /\ tx' = [tx EXCEPT ![p] = IF tx[p].done THEN IdleTx ELSE tx[p]]
          /\ canceled' = [canceled EXCEPT ![p] = @ /\ ~tx[p].done]
          /\ UNCHANGED <<fileLock, db, acked, ackedSinceOpen>>
      BY <1>11, <2>2, Zenon DEF commit, Return
    <3>2. TypeOK'
      BY <1>0, <2>1, <3>1, TxRecUpdates DEF TypeOK, PcValues
    <3>3. QED
      BY <1>0, <2>1, <3>2, GenBoundKept DEF NCStates, TypeOK
  <2>3. CASE ~(canceled[p] \/ tx[p].done)
    <3>1. /\ db' = [db EXCEPT ![tx[p].gen] = @ \cup tx[p].pending]
          /\ fileLock' = ReleaseLock(tx[p])
          /\ acked' = acked \cup (tx[p].pending \X {tx[p].gen})
          /\ ackedSinceOpen' = ackedSinceOpen \cup tx[p].pending
          /\ Return(p, [tx[p] EXCEPT !.done = TRUE])
      BY <1>11, <2>3, Zenon DEF commit
    <3>3. tx[p] \in TxRec
      BY <1>0 DEF TypeOK
    <3>6. [tx[p] EXCEPT !.done = TRUE].done = TRUE
      BY <3>3 DEF TxRec
    <3>2. tx' = [tx EXCEPT ![p] = IdleTx] /\ canceled' = [canceled EXCEPT ![p] = FALSE]
      BY <3>1, <3>6, Zenon DEF Return
    <3>4. TypeOK'
      BY <1>0, <2>1, <3>1, <3>2, <3>3, TxRecUpdates DEF TypeOK, PcValues, ReleaseLock, TxRec
    <3>5. QED
      BY <1>0, <2>1, <3>4, GenBoundKept DEF NCStates, TypeOK
  <2>4. QED
    BY <2>2, <2>3
<1>12. ASSUME NEW p \in Proc, rollback(p)
       PROVE TypeInv'
  <2>1. TypeOK'
    BY <1>0, <1>12 DEF rollback, Return, ReleaseLock, IdleTx, TypeOK, PcValues, TxRec, Gens
  <2>2. QED
    BY <1>12, <2>1, GenBoundKept DEF rollback, Return, NCStates
<1>13. ASSUME NEW p \in Proc, AwaitDone(p)
       PROVE TypeInv'
  <2>1. /\ fileLock' = ReleaseLock(tx[p])
        /\ tx' \in {[tx EXCEPT ![p] = IdleTx], [tx EXCEPT ![p].done = TRUE]}
        /\ canceled' \in {canceled, [canceled EXCEPT ![p] = FALSE]}
        /\ UNCHANGED <<pc, conn, lastGen, resets, readers, writer, db, ncRet,
                       acked, ackedSinceOpen>>
    BY <1>13, Zenon DEF AwaitDone
  <2>2. tx' \in [Proc -> TxRec]
    <3>1. tx[p] \in TxRec /\ tx \in [Proc -> TxRec]
      BY <1>0 DEF TypeOK
    <3>2. [tx[p] EXCEPT !.done = TRUE] \in TxRec /\ IdleTx \in TxRec
      BY <3>1, TxRecUpdates
    <3>3. QED
      BY <2>1, <3>1, <3>2, Zenon
  <2>3. TypeOK'
    BY <1>0, <2>1, <2>2 DEF TypeOK, PcValues, ReleaseLock, TxRec
  <2>4. QED
    BY <2>1, <2>3, GenBoundKept
<1>14. ASSUME NEW p \in Proc, LockConn(p)
       PROVE TypeInv'
  <2>1. TypeOK'
    BY <1>0, <1>14 DEF LockConn, TypeOK, PcValues
  <2>2. QED
    BY <1>14, <2>1, GenBoundKept DEF LockConn, NCStates
<1>15. ASSUME NEW p \in Proc, NewConnection(p)
       PROVE TypeInv'
  <2>1. InNC' = InNC \ {p} /\ p \in InNC
    BY <1>0, <1>15 DEF NewConnection, InNC, NCStates, TypeOK, PcValues
  <2>2. IsFiniteSet(InNC) /\ Cardinality(InNC) \in Nat
    BY <1>0, InNCFinite
  <2>3. Cardinality(InNC') = Cardinality(InNC) - 1 /\ Cardinality(InNC) >= 1
    <3>1. Cardinality(InNC \ {p}) = Cardinality(InNC) - 1
      BY <2>1, <2>2, FS_RemoveElement
    <3>2. Cardinality(InNC) # 0
      BY <2>1, <2>2, FS_EmptySet
    <3>3. QED
      BY <2>1, <2>2, <3>1, <3>2
  <2>4. lastGen + 1 \in Gens
    BY <1>0, <2>2, <2>3 DEF TypeInv, GenBound, TypeOK, Gens
  <2>5. TypeOK'
    <3>1. /\ pc' = [pc EXCEPT ![p] = "idle"] /\ writer' = NoProc
          /\ UNCHANGED <<resets, readers, fileLock, db, tx, canceled, acked>>
          /\ ncRet' \in {"ok", "err"}
          /\ lastGen' \in {lastGen, lastGen + 1}
          /\ ackedSinceOpen' \in {{}, ackedSinceOpen}
      BY <1>15, Zenon DEF NewConnection
    <3>2. conn' \in [gen: Gens, open: BOOLEAN]
      <4>1. conn' = [gen |-> lastGen + 1, open |-> TRUE]
            \/ conn' = [conn EXCEPT !.open = FALSE]
        BY <1>15, Zenon DEF NewConnection
      <4>2. [gen |-> lastGen + 1, open |-> TRUE] \in [gen: Gens, open: BOOLEAN]
        BY <2>4
      <4>3. [conn EXCEPT !.open = FALSE] \in [gen: Gens, open: BOOLEAN]
        BY <1>0, ConnClose DEF TypeOK
      <4>4. QED
        BY <4>1, <4>2, <4>3, Zenon
    <3>3. QED
      BY <1>0, <2>4, <3>1, <3>2 DEF TypeOK, PcValues
  <2>6. GenBound'
    BY <1>0, <1>15, <2>2, <2>3 DEF NewConnection, GenBound, TypeInv, TypeOK, Gens
  <2>7. QED
    BY <2>5, <2>6 DEF TypeInv
<1>16. CASE UNCHANGED vars
  BY <1>16 DEF vars, TypeInv, TypeOK, GenBound, InNC
<1>17. QED
  BY <1>1, <1>2, <1>3, <1>4, <1>5, <1>6, <1>7, <1>8, <1>9, <1>10, <1>11,
     <1>12, <1>13, <1>14, <1>15, <1>16 DEF Next, Step

\* Type correctness of the client for every instance of the constants.
THEOREM TypeCorrect == Spec => []TypeOK
<1>1. Spec => []TypeInv
  BY InitTypeInv, NextTypeInv, PTL DEF Spec
<1>2. QED
  BY <1>1, PTL DEF TypeInv


-----------------------------------------------------------------------------
(***************************************************************************)
(* The SQLite write lock. LockHeldByLiveTx is not inductive by itself: a   *)
(* goroutine on its way into BeginTx, or inside NewConnection, must not    *)
(* hold an open transaction, or BeginTxOk would overwrite a transaction    *)
(* that still owns a lock. WithTransaction and NewConnection start only    *)
(* once database/sql finished the goroutine's last transaction.            *)
(***************************************************************************)
OutsideTx == {"rlockBegin", "beginTx", "ncLock", "ncDrain"}

DoneOutsideTx == \A p \in Proc : pc[p] \in OutsideTx => tx[p].done

LockInv == TypeInv /\ DoneOutsideTx /\ LockHeldByLiveTx

LEMMA InitLockInv == Init => LockInv
<1> SUFFICES ASSUME Init PROVE LockInv
  OBVIOUS
<1>1. TypeInv
  BY InitTypeInv
<1>2. DoneOutsideTx /\ LockHeldByLiveTx
  BY ConstAssumption DEF Init, DoneOutsideTx, OutsideTx, LockHeldByLiveTx,
                         LiveWriter, IdleTx, Gens
<1>3. QED
  BY <1>1, <1>2 DEF LockInv

LEMMA NextLockInv == LockInv /\ [Next]_vars => LockInv'
<1> SUFFICES ASSUME LockInv, [Next]_vars PROVE LockInv'
  OBVIOUS
<1>0. TypeOK /\ TypeOK' /\ TypeInv'
  BY NextTypeInv DEF LockInv, TypeInv
<1> USE ConstAssumption
<1> DEFINE Inv2 == DoneOutsideTx /\ LockHeldByLiveTx
<1> SUFFICES Inv2'
  BY <1>0 DEF LockInv
<1> USE DEF LockInv, Inv2, DoneOutsideTx, OutsideTx, LockHeldByLiveTx, LiveWriter
<1>1. ASSUME NEW p \in Proc, NEW w \in TxModes, StartWithTransaction(p, w)
      PROVE Inv2'
  BY <1>0, <1>1 DEF StartWithTransaction, TypeOK, TxRec
<1>2. ASSUME NEW p \in Proc, StartNewConnection(p)
      PROVE Inv2'
  BY <1>0, <1>2 DEF StartNewConnection, TypeOK
<1>3. ASSUME NEW p \in Proc, Cancel(p)
      PROVE Inv2'
  BY <1>0, <1>3 DEF Cancel, TypeOK
<1>4. ASSUME NEW p \in Proc, RLockBegin(p)
      PROVE Inv2'
  BY <1>0, <1>4 DEF RLockBegin, TypeOK
<1>5. ASSUME NEW p \in Proc, BeginTxOk(p)
      PROVE Inv2'
  BY <1>0, <1>5 DEF BeginTxOk, TypeOK, TxRec
<1>6. ASSUME NEW p \in Proc, BeginTxErr(p)
      PROVE Inv2'
  BY <1>0, <1>6 DEF BeginTxErr, Return, IdleTx, TypeOK, TxRec
<1>7. ASSUME NEW p \in Proc, NEW k \in Keys, Upsert(p, k)
      PROVE Inv2'
  BY <1>0, <1>7 DEF Upsert, TypeOK, TxRec
<1>8. ASSUME NEW p \in Proc, QueryForRows(p)
      PROVE Inv2'
  BY <1>0, <1>8 DEF QueryForRows, TypeOK, TxRec
<1>9. ASSUME NEW p \in Proc, ReadObjects(p)
      PROVE Inv2'
  BY <1>0, <1>9 DEF ReadObjects, TypeOK
<1>10. ASSUME NEW p \in Proc, FinishBody(p)
       PROVE Inv2'
  BY <1>0, <1>10 DEF FinishBody, TypeOK
<1>11. ASSUME NEW p \in Proc, commit(p)
       PROVE Inv2'
  <2>1. pc' = [pc EXCEPT ![p] = "idle"] /\ pc[p] = "commit"
    BY <1>11, Zenon DEF commit, Return
  <2>2. CASE canceled[p] \/ tx[p].done
    <3>1. /\ tx' = [tx EXCEPT ![p] = IF tx[p].done THEN IdleTx ELSE tx[p]]
          /\ fileLock' = fileLock
      BY <1>11, <2>2, Zenon DEF commit, Return
    <3>2. QED
      BY <1>0, <2>1, <3>1 DEF IdleTx, TypeOK, TxRec
  <2>3. CASE ~(canceled[p] \/ tx[p].done)
    <3>1. tx[p] \in TxRec
      BY <1>0 DEF TypeOK
    <3>2. [tx[p] EXCEPT !.done = TRUE].done = TRUE
      BY <3>1 DEF TxRec
    <3>3. fileLock' = ReleaseLock(tx[p]) /\ tx' = [tx EXCEPT ![p] = IdleTx]
      BY <1>11, <2>3, <3>2, Zenon DEF commit, Return
    <3>4. QED
      BY <1>0, <2>1, <2>3, <3>3 DEF ReleaseLock, IdleTx, TypeOK, TxRec
  <2>4. QED
    BY <2>2, <2>3
<1>12. ASSUME NEW p \in Proc, rollback(p)
       PROVE Inv2'
  BY <1>0, <1>12 DEF rollback, Return, ReleaseLock, IdleTx, TypeOK, TxRec
<1>13. ASSUME NEW p \in Proc, AwaitDone(p)
       PROVE Inv2'
  <2>1. /\ canceled[p] /\ ~tx[p].done
        /\ fileLock' = ReleaseLock(tx[p]) /\ pc' = pc
    BY <1>13 DEF AwaitDone
  <2>2. tx[p] \in TxRec
    BY <1>0 DEF TypeOK
  <2>3. CASE pc[p] = "idle"
    <3>1. tx' = [tx EXCEPT ![p] = IdleTx]
      BY <1>13, <2>3 DEF AwaitDone
    <3>2. QED
      BY <1>0, <2>1, <3>1 DEF ReleaseLock, IdleTx, TypeOK, TxRec
  <2>4. CASE pc[p] # "idle"
    <3> DEFINE t == [tx[p] EXCEPT !.done = TRUE]
    <3>1. t.done = TRUE /\ t.writing = tx[p].writing /\ t.gen = tx[p].gen
      BY <2>2 DEF TxRec
    <3>2. tx' = [tx EXCEPT ![p] = t]
      BY <1>13, <2>4, Zenon DEF AwaitDone
    <3>3. QED
      BY <1>0, <2>1, <3>1, <3>2 DEF ReleaseLock, TypeOK, TxRec
  <2>5. QED
    BY <2>3, <2>4
<1>14. ASSUME NEW p \in Proc, LockConn(p)
       PROVE Inv2'
  BY <1>0, <1>14 DEF LockConn, TypeOK
<1>15. ASSUME NEW p \in Proc, NewConnection(p)
       PROVE Inv2'
  BY <1>0, <1>15 DEF NewConnection, TypeOK
<1>16. CASE UNCHANGED vars
  BY <1>16 DEF vars
<1>17. QED
  BY <1>1, <1>2, <1>3, <1>4, <1>5, <1>6, <1>7, <1>8, <1>9, <1>10, <1>11,
     <1>12, <1>13, <1>14, <1>15, <1>16 DEF Next, Step

\* The SQLite write lock of a file is held exactly by the open writing
\* transaction on that file, however the goroutines interleave BeginTx,
\* commit, rollback, the cancel of their ctx, awaitDone and NewConnection.
THEOREM LockSafety == Spec => []LockHeldByLiveTx
<1>1. Spec => []LockInv
  BY InitLockInv, NextLockInv, PTL DEF Spec
<1>2. QED
  BY <1>1, PTL DEF LockInv

-----------------------------------------------------------------------------
(***************************************************************************)
(* No lock after return. The holder of a file's lock is a live writer     *)
(* (LockHeldByLiveTx) and so is not on its way into a transaction nor in   *)
(* NewConnection (DoneOutsideTx). ReturnInv adds that a goroutine back at  *)
(* idle with its ctx not canceled has a finished transaction: every return *)
(* path of withTransaction either finished the transaction (commit,        *)
(* rollback, a failed BeginTx that opened none) or met a canceled ctx.     *)
(***************************************************************************)
ReturnInv == \A p \in Proc : pc[p] = "idle" /\ ~canceled[p] => tx[p].done

LEMMA InitReturnInv == Init => ReturnInv
BY DEF Init, ReturnInv, IdleTx

LEMMA NextReturnInv == LockInv /\ ReturnInv /\ [Next]_vars => ReturnInv'
<1> SUFFICES ASSUME LockInv, ReturnInv, [Next]_vars PROVE ReturnInv'
  OBVIOUS
<1>0. TypeOK /\ TypeOK'
  BY NextTypeInv DEF LockInv, TypeInv
<1> USE ConstAssumption
<1> USE DEF ReturnInv
<1>1. ASSUME NEW p \in Proc, NEW w \in TxModes, StartWithTransaction(p, w)
      PROVE ReturnInv'
  BY <1>0, <1>1 DEF StartWithTransaction, TypeOK, TxRec
<1>2. ASSUME NEW p \in Proc, StartNewConnection(p)
      PROVE ReturnInv'
  BY <1>0, <1>2 DEF StartNewConnection, TypeOK
<1>3. ASSUME NEW p \in Proc, Cancel(p)
      PROVE ReturnInv'
  BY <1>0, <1>3 DEF Cancel, TypeOK
<1>4. ASSUME NEW p \in Proc, RLockBegin(p)
      PROVE ReturnInv'
  BY <1>0, <1>4 DEF RLockBegin, TypeOK
<1>5. ASSUME NEW p \in Proc, BeginTxOk(p)
      PROVE ReturnInv'
  BY <1>0, <1>5 DEF BeginTxOk, TypeOK, TxRec
<1>6. ASSUME NEW p \in Proc, BeginTxErr(p)
      PROVE ReturnInv'
  <2>1. tx[p].done
    BY <1>6 DEF BeginTxErr, LockInv, DoneOutsideTx, OutsideTx
  <2>2. QED
    BY <1>0, <1>6, <2>1 DEF BeginTxErr, Return, IdleTx, TypeOK, TxRec
<1>7. ASSUME NEW p \in Proc, NEW k \in Keys, Upsert(p, k)
      PROVE ReturnInv'
  BY <1>0, <1>7 DEF Upsert, TypeOK, TxRec
<1>8. ASSUME NEW p \in Proc, QueryForRows(p)
      PROVE ReturnInv'
  BY <1>0, <1>8 DEF QueryForRows, TypeOK, TxRec
<1>9. ASSUME NEW p \in Proc, ReadObjects(p)
      PROVE ReturnInv'
  BY <1>0, <1>9 DEF ReadObjects, TypeOK
<1>10. ASSUME NEW p \in Proc, FinishBody(p)
       PROVE ReturnInv'
  BY <1>0, <1>10 DEF FinishBody, TypeOK
<1>11. ASSUME NEW p \in Proc, commit(p)
       PROVE ReturnInv'
  <2>1. pc' = [pc EXCEPT ![p] = "idle"]
    BY <1>11, Zenon DEF commit, Return
  <2>2. CASE canceled[p] \/ tx[p].done
    <3>1. /\ tx' = [tx EXCEPT ![p] = IF tx[p].done THEN IdleTx ELSE tx[p]]
          /\ canceled' = [canceled EXCEPT ![p] = @ /\ ~tx[p].done]
      BY <1>11, <2>2, Zenon DEF commit, Return
    <3>2. QED
      BY <1>0, <2>1, <2>2, <3>1 DEF IdleTx, TypeOK, TxRec
  <2>3. CASE ~(canceled[p] \/ tx[p].done)
    <3>1. tx[p] \in TxRec
      BY <1>0 DEF TypeOK
    <3>2. [tx[p] EXCEPT !.done = TRUE].done = TRUE
      BY <3>1 DEF TxRec
    <3>3. /\ tx' = [tx EXCEPT ![p] = IdleTx]
          /\ canceled' = [canceled EXCEPT ![p] = FALSE]
      BY <1>11, <2>3, <3>2, Zenon DEF commit, Return
    <3>4. QED
      BY <1>0, <2>1, <3>3 DEF IdleTx, TypeOK, TxRec
  <2>4. QED
    BY <2>2, <2>3
<1>12. ASSUME NEW p \in Proc, rollback(p)
       PROVE ReturnInv'
  <2>1. tx[p] \in TxRec
    BY <1>0 DEF TypeOK
  <2>2. [tx[p] EXCEPT !.done = TRUE].done = TRUE
    BY <2>1 DEF TxRec
  <2>3. /\ pc' = [pc EXCEPT ![p] = "idle"]
        /\ tx' = [tx EXCEPT ![p] = IdleTx]
        /\ canceled' = [canceled EXCEPT ![p] = FALSE]
    BY <1>12, <2>2, Zenon DEF rollback, Return
  <2>4. QED
    BY <1>0, <2>3 DEF IdleTx, TypeOK, TxRec
<1>13. ASSUME NEW p \in Proc, AwaitDone(p)
       PROVE ReturnInv'
  <2>1. pc' = pc
    BY <1>13 DEF AwaitDone
  <2>2. tx[p] \in TxRec
    BY <1>0 DEF TypeOK
  <2>3. CASE pc[p] = "idle"
    <3>1. tx' = [tx EXCEPT ![p] = IdleTx]
          /\ canceled' = [canceled EXCEPT ![p] = FALSE]
      BY <1>13, <2>3 DEF AwaitDone
    <3>2. QED
      BY <1>0, <2>1, <3>1 DEF IdleTx, TypeOK, TxRec
  <2>4. CASE pc[p] # "idle"
    <3> DEFINE t == [tx[p] EXCEPT !.done = TRUE]
    <3>1. t.done = TRUE
      BY <2>2 DEF TxRec
    <3>2. tx' = [tx EXCEPT ![p] = t] /\ canceled' = canceled
      BY <1>13, <2>4, Zenon DEF AwaitDone
    <3>3. QED
      BY <1>0, <2>1, <2>4, <3>2 DEF TypeOK
  <2>5. QED
    BY <2>3, <2>4
<1>14. ASSUME NEW p \in Proc, LockConn(p)
       PROVE ReturnInv'
  BY <1>0, <1>14 DEF LockConn, TypeOK
<1>15. ASSUME NEW p \in Proc, NewConnection(p)
       PROVE ReturnInv'
  <2>1. tx[p].done
    BY <1>15 DEF NewConnection, LockInv, DoneOutsideTx, OutsideTx
  <2>2. QED
    BY <1>0, <1>15, <2>1 DEF NewConnection, TypeOK
<1>16. CASE UNCHANGED vars
  BY <1>16 DEF vars
<1>17. QED
  BY <1>1, <1>2, <1>3, <1>4, <1>5, <1>6, <1>7, <1>8, <1>9, <1>10, <1>11,
     <1>12, <1>13, <1>14, <1>15, <1>16 DEF Next, Step

\* The lock invariant and ReturnInv give the property: a holder is a live
\* writer, so it is neither on its way into a transaction nor in
\* NewConnection, and at idle its ctx was canceled.
LEMMA ReleasedFromInv ==
    LockInv /\ ReturnInv => LockReleasedOnReturn
<1> SUFFICES ASSUME LockInv, ReturnInv, NEW g \in Gens, fileLock[g] # NoProc
             PROVE  LET q == fileLock[g] IN
                      \/ pc[q] \in {"body", "read", "commit", "rollback"}
                      \/ pc[q] = "idle" /\ canceled[q] /\ ~tx[q].done
  BY DEF LockReleasedOnReturn
<1>1. fileLock[g] \in Proc /\ ~tx[fileLock[g]].done
  BY DEF LockInv, TypeInv, TypeOK, LockHeldByLiveTx, LiveWriter
<1>2. pc[fileLock[g]] \in PcValues \ OutsideTx
  BY <1>1 DEF LockInv, TypeInv, TypeOK, DoneOutsideTx
<1>3. QED
  BY <1>1, <1>2 DEF ReturnInv, PcValues, OutsideTx

\* No leaked SQLite lock: once WithTransaction has returned, its goroutine
\* holds no file's write lock unless its ctx was canceled and awaitDone has
\* yet to roll back, for every interleaving of calls, cancels and
\* NewConnection.
THEOREM LockReleased == Spec => []LockReleasedOnReturn
<1>1. Spec => [](LockInv /\ ReturnInv)
  <2>1. LockInv /\ ReturnInv /\ [Next]_vars => (LockInv /\ ReturnInv)'
    BY NextLockInv, NextReturnInv
  <2>2. Init => LockInv /\ ReturnInv
    BY InitLockInv, InitReturnInv
  <2>3. QED
    BY <2>1, <2>2, PTL DEF Spec
<1>2. QED
  BY <1>1, ReleasedFromInv, PTL

-----------------------------------------------------------------------------
(***************************************************************************)
(* Acknowledged upserts. Only commit changes db or acked, and it adds to   *)
(* acked exactly what it adds to the file; no step removes from a file.   *)
(***************************************************************************)
LEMMA NextAcked ==
    TypeOK /\ AckedWritesCommitted /\ [Next]_vars => AckedWritesCommitted'
<1> SUFFICES ASSUME TypeOK, AckedWritesCommitted, [Next]_vars
             PROVE  AckedWritesCommitted'
  OBVIOUS
<1>1. ASSUME NEW p \in Proc, commit(p)
      PROVE AckedWritesCommitted'
  <2>1. CASE canceled[p] \/ tx[p].done
    <3>1. UNCHANGED <<db, acked>>
      BY <1>1, <2>1, Zenon DEF commit
    <3>2. QED
      BY <3>1 DEF AckedWritesCommitted
  <2>2. CASE ~(canceled[p] \/ tx[p].done)
    <3>1. /\ db' = [db EXCEPT ![tx[p].gen] = @ \cup tx[p].pending]
          /\ acked' = acked \cup (tx[p].pending \X {tx[p].gen})
      BY <1>1, <2>2, Zenon DEF commit
    <3>2. tx[p].gen \in Gens
      BY DEF TypeOK, TxRec
    <3>3. QED
      BY <3>1, <3>2 DEF AckedWritesCommitted, TypeOK
  <2>3. QED
    BY <2>1, <2>2
<1>2. ASSUME NEW p \in Proc,
             \/ \E w \in TxModes : StartWithTransaction(p, w)
             \/ StartNewConnection(p) \/ Cancel(p) \/ RLockBegin(p)
             \/ BeginTxOk(p) \/ BeginTxErr(p) \/ \E k \in Keys : Upsert(p, k)
             \/ QueryForRows(p) \/ ReadObjects(p) \/ FinishBody(p)
             \/ rollback(p) \/ AwaitDone(p) \/ LockConn(p) \/ NewConnection(p)
      PROVE AckedWritesCommitted'
  <2>1. UNCHANGED <<db, acked>>
    BY <1>2, Zenon DEF StartWithTransaction, StartNewConnection, Cancel,
       RLockBegin, BeginTxOk, BeginTxErr, Upsert, QueryForRows, ReadObjects,
       FinishBody, rollback, AwaitDone, LockConn, NewConnection
  <2>2. QED
    BY <2>1 DEF AckedWritesCommitted
<1>3. CASE UNCHANGED vars
  BY <1>3 DEF vars, AckedWritesCommitted
<1>4. QED
  BY <1>1, <1>2, <1>3 DEF Next, Step

\* An upsert for which WithTransaction returned nil is in the file its
\* transaction wrote to, in every behaviour of every instance: commit never
\* acknowledges a transaction rolled back by the cancel of its ctx.
THEOREM AckedSafety == Spec => []AckedWritesCommitted
<1>1. Init => AckedWritesCommitted
  BY DEF Init, AckedWritesCommitted
<1>2. Spec => []TypeOK
  BY TypeCorrect
<1>3. QED
  BY <1>1, <1>2, NextAcked, PTL DEF Spec

-----------------------------------------------------------------------------
(***************************************************************************)
(* Refinement of SqlStore.  The mapping keeps lastGen, db and acked and     *)
(* takes the SQLite write locks as the owners of the files.  Three facts    *)
(* beyond LockInv make every step a SqlStore step or a stutter:            *)
(*   - a goroutine outside a transaction, or between calls, with its       *)
(*     transaction finished has upserted nothing, so WithTransaction       *)
(*     starts with nothing pending;                                        *)
(*   - only a writing transaction has upserts pending, so the commit of a  *)
(*     read-only one changes no file;                                      *)
(*   - c.conn is on a file that exists, so a writing BeginTx locks one.    *)
(***************************************************************************)
CleanOutsideTx ==
    \A p \in Proc : pc[p] \in OutsideTx \cup {"idle"} /\ tx[p].done =>
        tx[p].pending = {}

PendingWrites == \A p \in Proc : tx[p].pending # {} => tx[p].writing

ConnGen == conn.gen <= lastGen

RefInv == LockInv /\ CleanOutsideTx /\ PendingWrites /\ ConnGen

LEMMA InitRefInv == Init => RefInv
<1> SUFFICES ASSUME Init PROVE RefInv
  OBVIOUS
<1>1. LockInv
  BY InitLockInv
<1>2. CleanOutsideTx /\ PendingWrites /\ ConnGen
  BY DEF Init, CleanOutsideTx, PendingWrites, ConnGen, IdleTx
<1>3. QED
  BY <1>1, <1>2 DEF RefInv

LEMMA NextRefInv == RefInv /\ [Next]_vars => RefInv'
<1> SUFFICES ASSUME RefInv, [Next]_vars PROVE RefInv'
  OBVIOUS
<1>0. TypeOK /\ TypeOK' /\ LockInv'
  BY NextLockInv DEF RefInv, LockInv, TypeInv
<1> USE ConstAssumption
<1> DEFINE Inv3 == CleanOutsideTx /\ PendingWrites /\ ConnGen
<1> SUFFICES Inv3'
  BY <1>0 DEF RefInv
<1> USE DEF RefInv, Inv3, CleanOutsideTx, PendingWrites, ConnGen, OutsideTx
<1>1. ASSUME NEW p \in Proc, NEW w \in TxModes, StartWithTransaction(p, w)
      PROVE Inv3'
  BY <1>0, <1>1 DEF StartWithTransaction, TypeOK, TxRec
<1>2. ASSUME NEW p \in Proc, StartNewConnection(p)
      PROVE Inv3'
  BY <1>0, <1>2 DEF StartNewConnection, TypeOK
<1>3. ASSUME NEW p \in Proc, Cancel(p)
      PROVE Inv3'
  BY <1>0, <1>3 DEF Cancel, TypeOK
<1>4. ASSUME NEW p \in Proc, RLockBegin(p)
      PROVE Inv3'
  BY <1>0, <1>4 DEF RLockBegin, TypeOK
<1>5. ASSUME NEW p \in Proc, BeginTxOk(p)
      PROVE Inv3'
  BY <1>0, <1>5 DEF BeginTxOk, TypeOK, TxRec
<1>6. ASSUME NEW p \in Proc, BeginTxErr(p)
      PROVE Inv3'
  BY <1>0, <1>6 DEF BeginTxErr, Return, IdleTx, TypeOK, TxRec
<1>7. ASSUME NEW p \in Proc, NEW k \in Keys, Upsert(p, k)
      PROVE Inv3'
  BY <1>0, <1>7 DEF Upsert, TypeOK, TxRec
<1>8. ASSUME NEW p \in Proc, QueryForRows(p)
      PROVE Inv3'
  BY <1>0, <1>8 DEF QueryForRows, TypeOK, TxRec
<1>9. ASSUME NEW p \in Proc, ReadObjects(p)
      PROVE Inv3'
  BY <1>0, <1>9 DEF ReadObjects, TypeOK
<1>10. ASSUME NEW p \in Proc, FinishBody(p)
       PROVE Inv3'
  BY <1>0, <1>10 DEF FinishBody, TypeOK
<1>11. ASSUME NEW p \in Proc, commit(p)
       PROVE Inv3'
  <2>1. pc' = [pc EXCEPT ![p] = "idle"] /\ pc[p] = "commit" /\ UNCHANGED <<conn, lastGen>>
    BY <1>11, Zenon DEF commit, Return
  <2>2. CASE canceled[p] \/ tx[p].done
    <3>1. tx' = [tx EXCEPT ![p] = IF tx[p].done THEN IdleTx ELSE tx[p]]
      BY <1>11, <2>2, Zenon DEF commit, Return
    <3>2. QED
      BY <1>0, <2>1, <3>1 DEF IdleTx, TypeOK, TxRec
  <2>3. CASE ~(canceled[p] \/ tx[p].done)
    <3>1. tx[p] \in TxRec
      BY <1>0 DEF TypeOK
    <3>2. [tx[p] EXCEPT !.done = TRUE].done = TRUE
      BY <3>1 DEF TxRec
    <3>3. tx' = [tx EXCEPT ![p] = IdleTx]
      BY <1>11, <2>3, <3>2, Zenon DEF commit, Return
    <3>4. QED
      BY <1>0, <2>1, <3>3 DEF IdleTx, TypeOK, TxRec
  <2>4. QED
    BY <2>2, <2>3
<1>12. ASSUME NEW p \in Proc, rollback(p)
       PROVE Inv3'
  BY <1>0, <1>12 DEF rollback, Return, IdleTx, TypeOK, TxRec
<1>13. ASSUME NEW p \in Proc, AwaitDone(p)
       PROVE Inv3'
  <2>1. UNCHANGED <<pc, conn, lastGen>>
    BY <1>13 DEF AwaitDone
  <2>2. tx[p] \in TxRec
    BY <1>0 DEF TypeOK
  <2>3. CASE pc[p] = "idle"
    <3>1. tx' = [tx EXCEPT ![p] = IdleTx]
      BY <1>13, <2>3 DEF AwaitDone
    <3>2. QED
      BY <1>0, <2>1, <3>1 DEF IdleTx, TypeOK, TxRec
  <2>4. CASE pc[p] # "idle"
    <3> DEFINE t == [tx[p] EXCEPT !.done = TRUE]
    <3>1. t.pending = tx[p].pending /\ t.writing = tx[p].writing
      BY <2>2 DEF TxRec
    <3>2. tx' = [tx EXCEPT ![p] = t]
      BY <1>13, <2>4, Zenon DEF AwaitDone
    <3>3. pc[p] \notin OutsideTx \cup {"idle"}
      BY <1>13, <2>4 DEF AwaitDone, DoneOutsideTx, LockInv
    <3>4. QED
      BY <1>0, <2>1, <3>1, <3>2, <3>3 DEF TypeOK, TxRec
  <2>5. QED
    BY <2>3, <2>4
<1>14. ASSUME NEW p \in Proc, LockConn(p)
       PROVE Inv3'
  BY <1>0, <1>14 DEF LockConn, TypeOK
<1>15. ASSUME NEW p \in Proc, NewConnection(p)
       PROVE Inv3'
  <2>1. pc' = [pc EXCEPT ![p] = "idle"] /\ pc[p] = "ncDrain" /\ UNCHANGED tx
    BY <1>15, Zenon DEF NewConnection
  <2>2. \/ conn' = [gen |-> lastGen + 1, open |-> TRUE] /\ lastGen' = lastGen + 1
        \/ conn' = [conn EXCEPT !.open = FALSE] /\ lastGen' = lastGen
    BY <1>15, Zenon DEF NewConnection
  <2>3. ConnGen'
    <3>1. conn \in [gen: Gens, open: BOOLEAN]
      BY <1>0 DEF TypeOK
    <3>2. [conn EXCEPT !.open = FALSE].gen = conn.gen
      BY <3>1
    <3>3. lastGen \in Nat /\ conn.gen \in Nat /\ conn.gen <= lastGen
      BY <1>0, <3>1 DEF TypeOK, Gens
    <3>4. CASE conn' = [gen |-> lastGen + 1, open |-> TRUE] /\ lastGen' = lastGen + 1
      BY <3>4
    <3>5. CASE conn' = [conn EXCEPT !.open = FALSE] /\ lastGen' = lastGen
      BY <3>2, <3>3, <3>5
    <3>6. QED
      BY <2>2, <3>4, <3>5
  <2>4. QED
    BY <1>0, <2>1, <2>3 DEF TypeOK
<1>16. CASE UNCHANGED vars
  BY <1>16 DEF vars
<1>17. QED
  BY <1>1, <1>2, <1>3, <1>4, <1>5, <1>6, <1>7, <1>8, <1>9, <1>10, <1>11,
     <1>12, <1>13, <1>14, <1>15, <1>16 DEF Next, Step

\* The SqlStore variables under the refinement mapping.
StoreVars == <<lastGen, db, fileLock, acked>>

\* A step that leaves the files, their owners and the acknowledgements
\* alone is a SqlStore stutter.
LEMMA StoreStutter == UNCHANGED StoreVars => [Store!Next]_Store!vars
BY DEF StoreVars, Store!vars

\* A writing transaction p holds on file g ends: SqlStore's owner releases
\* the file, by Commit of what it upserted or by Abort.
LEMMA StoreRelease ==
    ASSUME RefInv, NEW p \in Proc, tx[p].writing, ~tx[p].done,
           fileLock' = ReleaseLock(tx[p]), lastGen' = lastGen,
           \/ UNCHANGED <<db, acked>>
           \/ /\ db' = [db EXCEPT ![tx[p].gen] = @ \cup tx[p].pending]
              /\ acked' = acked \cup (tx[p].pending \X {tx[p].gen})
    PROVE  [Store!Next]_Store!vars
<1>1. tx[p] \in TxRec /\ tx[p].gen \in Gens /\ tx[p].pending \in SUBSET Keys
  BY DEF RefInv, LockInv, TypeInv, TypeOK, TxRec
<1>2. fileLock[tx[p].gen] = p
  BY DEF RefInv, LockInv, LockHeldByLiveTx, LiveWriter
<1>3. fileLock' = [fileLock EXCEPT ![tx[p].gen] = NoProc]
  BY DEF ReleaseLock
<1>4. CASE UNCHANGED <<db, acked>>
  <2>1. Store!Abort(p, tx[p].gen)
    BY <1>2, <1>3, <1>4 DEF Store!Abort
  <2>2. QED
    BY <1>1, <2>1 DEF Store!Next
<1>5. CASE /\ db' = [db EXCEPT ![tx[p].gen] = @ \cup tx[p].pending]
           /\ acked' = acked \cup (tx[p].pending \X {tx[p].gen})
  <2>1. Store!Commit(p, tx[p].gen, tx[p].pending)
    BY <1>2, <1>3, <1>5 DEF Store!Commit
  <2>2. QED
    BY <1>1, <2>1 DEF Store!Next
<1>6. QED
  BY <1>4, <1>5

LEMMA NextStore == RefInv /\ TypeOK' /\ [Next]_vars => [Store!Next]_Store!vars
<1> SUFFICES ASSUME RefInv, TypeOK', [Next]_vars PROVE [Store!Next]_Store!vars
  OBVIOUS
<1>0. TypeOK
  BY DEF RefInv, LockInv, TypeInv
<1> USE ConstAssumption
<1>1. ASSUME NEW p \in Proc, BeginTxOk(p)
      PROVE [Store!Next]_Store!vars
  <2>1. CASE tx[p].writing
    <3>2. /\ pc[p] = "beginTx" /\ fileLock[conn.gen] = NoProc
          /\ fileLock' = [fileLock EXCEPT ![conn.gen] = p]
          /\ UNCHANGED <<lastGen, db, acked>>
      BY <1>1, <2>1 DEF BeginTxOk
    <3>3. tx[p].done
      BY <3>2 DEF RefInv, LockInv, DoneOutsideTx, OutsideTx
    <3>4. \A h \in Gens : fileLock[h] # p
      BY <3>3 DEF RefInv, LockInv, LockHeldByLiveTx, LiveWriter
    <3>5. conn.gen \in Gens /\ conn.gen <= lastGen
      BY <1>0 DEF RefInv, ConnGen, TypeOK
    <3>6. Store!Begin(p, conn.gen)
      BY <3>2, <3>4, <3>5 DEF Store!Begin
    <3>7. QED
      BY <3>5, <3>6 DEF Store!Next
  <2>8. CASE ~tx[p].writing
    BY <1>1, <2>8, StoreStutter DEF BeginTxOk, StoreVars
  <2>9. QED
    BY <2>1, <2>8
<1>2. ASSUME NEW p \in Proc, commit(p)
      PROVE [Store!Next]_Store!vars
  <2>1. CASE canceled[p] \/ tx[p].done
    BY <1>2, <2>1, StoreStutter, Zenon DEF commit, StoreVars
  <2>2. CASE ~(canceled[p] \/ tx[p].done)
    <3>1. /\ db' = [db EXCEPT ![tx[p].gen] = @ \cup tx[p].pending]
          /\ fileLock' = ReleaseLock(tx[p])
          /\ acked' = acked \cup (tx[p].pending \X {tx[p].gen})
          /\ lastGen' = lastGen
      BY <1>2, <2>2, Zenon DEF commit
    <3>2. CASE tx[p].writing
      <4>1. ~tx[p].done
        BY <2>2
      <4>2. \/ UNCHANGED <<db, acked>>
            \/ /\ db' = [db EXCEPT ![tx[p].gen] = @ \cup tx[p].pending]
               /\ acked' = acked \cup (tx[p].pending \X {tx[p].gen})
        BY <3>1
      <4>3. QED
        BY <3>1, <3>2, <4>1, <4>2, StoreRelease
    <3>3. CASE ~tx[p].writing
      <4>1. tx[p].pending = {} /\ tx[p].gen \in Gens
        BY <1>0, <3>3 DEF RefInv, PendingWrites, TypeOK, TxRec
      <4>2. UNCHANGED StoreVars
        BY <1>0, <3>1, <3>3, <4>1 DEF ReleaseLock, TypeOK, StoreVars
      <4>3. QED
        BY <4>2, StoreStutter
    <3>4. QED
      BY <3>2, <3>3
  <2>3. QED
    BY <2>1, <2>2
<1>3. ASSUME NEW p \in Proc, rollback(p)
      PROVE [Store!Next]_Store!vars
  <2>1. /\ fileLock' = IF tx[p].done THEN fileLock ELSE ReleaseLock(tx[p])
        /\ UNCHANGED <<lastGen, db, acked>>
    BY <1>3 DEF rollback
  <2>2. CASE tx[p].writing /\ ~tx[p].done
    BY <2>1, <2>2, StoreRelease
  <2>3. CASE ~(tx[p].writing /\ ~tx[p].done)
    BY <2>1, <2>3, StoreStutter DEF ReleaseLock, StoreVars
  <2>4. QED
    BY <2>2, <2>3
<1>4. ASSUME NEW p \in Proc, AwaitDone(p)
      PROVE [Store!Next]_Store!vars
  <2>1. /\ ~tx[p].done /\ fileLock' = ReleaseLock(tx[p])
        /\ UNCHANGED <<lastGen, db, acked>>
    BY <1>4 DEF AwaitDone
  <2>2. CASE tx[p].writing
    BY <2>1, <2>2, StoreRelease
  <2>3. CASE ~tx[p].writing
    BY <2>1, <2>3, StoreStutter DEF ReleaseLock, StoreVars
  <2>4. QED
    BY <2>2, <2>3
<1>5. ASSUME NEW p \in Proc, NewConnection(p)
      PROVE [Store!Next]_Store!vars
  <2>1. /\ lastGen' \in {lastGen, lastGen + 1}
        /\ UNCHANGED <<db, fileLock, acked>>
    BY <1>5, Zenon DEF NewConnection
  <2>2. CASE lastGen' = lastGen + 1
    <3>1. lastGen + 1 \in Gens
      BY <2>2 DEF TypeOK
    <3>2. Store!NewFile
      BY <2>1, <2>2, <3>1 DEF Store!NewFile
    <3>3. QED
      BY <3>2 DEF Store!Next
  <2>3. CASE lastGen' = lastGen
    BY <2>1, <2>3, StoreStutter DEF StoreVars
  <2>4. QED
    BY <2>1, <2>2, <2>3
<1>6. ASSUME NEW p \in Proc,
             \/ \E w \in TxModes : StartWithTransaction(p, w)
             \/ StartNewConnection(p) \/ Cancel(p) \/ RLockBegin(p)
             \/ BeginTxErr(p) \/ \E k \in Keys : Upsert(p, k)
             \/ QueryForRows(p) \/ ReadObjects(p) \/ FinishBody(p)
             \/ LockConn(p)
      PROVE [Store!Next]_Store!vars
  <2>1. UNCHANGED StoreVars
    BY <1>6, Zenon DEF StartWithTransaction, StartNewConnection, Cancel,
       RLockBegin, BeginTxErr, Upsert, QueryForRows, ReadObjects,
       FinishBody, LockConn, StoreVars
  <2>2. QED
    BY <2>1, StoreStutter
<1>7. CASE UNCHANGED vars
  BY <1>7, StoreStutter DEF vars, StoreVars
<1>8. QED
  BY <1>1, <1>2, <1>3, <1>4, <1>5, <1>6, <1>7 DEF Next, Step

\* The client implements SqlStore for every instance: however goroutines
\* interleave BeginTx, upserts, commit, rollback, the cancel of their ctx,
\* awaitDone and NewConnection, the files change only by an atomic commit
\* of the transaction that owns the file's write lock, exactly the keys
\* committed are acknowledged, and a new file is created empty.
THEOREM Refinement == Spec => StoreRefinement
<1>1. Spec => []RefInv
  BY InitRefInv, NextRefInv, PTL DEF Spec
<1>2. Init => Store!Init
  BY DEF Init, Store!Init
<1>3. QED
  BY <1>1, <1>2, TypeCorrect, NextStore, PTL DEF Spec, StoreRefinement, Store!Spec


-----------------------------------------------------------------------------
(***************************************************************************)
(* c.conn under connLock. A goroutine about to call c.conn.BeginTx holds  *)
(* connLock.RLock (line 75), and NewConnection, the only step that closes *)
(* or replaces c.conn, runs only once every reader has left (Lock waits   *)
(* for them).                                                              *)
(***************************************************************************)
BeginInRLock == \A p \in Proc : pc[p] = "beginTx" => p \in readers

LEMMA InitBeginInRLock == Init => BeginInRLock
BY DEF Init, BeginInRLock

LEMMA NextBeginInRLock ==
    TypeOK /\ BeginInRLock /\ [Next]_vars => BeginInRLock'
<1> SUFFICES ASSUME TypeOK, BeginInRLock, [Next]_vars PROVE BeginInRLock'
  OBVIOUS
<1>1. ASSUME NEW p \in Proc, RLockBegin(p) PROVE BeginInRLock'
  BY <1>1 DEF RLockBegin, BeginInRLock, TypeOK
<1>2. ASSUME NEW p \in Proc, BeginTxOk(p) \/ BeginTxErr(p) PROVE BeginInRLock'
  <2>1. /\ pc[p] = "beginTx" /\ readers' = readers \ {p}
        /\ pc' = [pc EXCEPT ![p] = IF BeginTxOk(p) THEN "body" ELSE "idle"]
    BY <1>2 DEF BeginTxOk, BeginTxErr, Return
  <2>2. QED
    BY <2>1 DEF BeginInRLock, TypeOK
<1>3. ASSUME NEW p \in Proc,
             \/ \E w \in TxModes : StartWithTransaction(p, w)
             \/ StartNewConnection(p) \/ \E k \in Keys : Upsert(p, k)
             \/ QueryForRows(p) \/ ReadObjects(p) \/ FinishBody(p)
             \/ commit(p) \/ rollback(p) \/ LockConn(p) \/ NewConnection(p)
      PROVE  BeginInRLock'
  <2>1. /\ readers' = readers /\ pc[p] # "beginTx"
        /\ \E v \in PcValues \ {"beginTx"} : pc' = [pc EXCEPT ![p] = v]
    <3>1. CASE \E w \in TxModes : StartWithTransaction(p, w)
      BY <3>1 DEF StartWithTransaction, PcValues
    <3>2. CASE StartNewConnection(p)
      BY <3>2 DEF StartNewConnection, PcValues
    <3>3. CASE \E k \in Keys : Upsert(p, k)
      <4>1. PICK k \in Keys : Upsert(p, k)
        BY <3>3
      <4>2. /\ pc[p] = "body" /\ readers' = readers
            /\ \/ pc' = pc
               \/ pc' = [pc EXCEPT ![p] = "rollback"]
        BY <4>1 DEF Upsert
      <4>3. pc = [pc EXCEPT ![p] = "body"]
        BY <4>2 DEF TypeOK
      <4>4. QED
        BY <4>2, <4>3 DEF PcValues
    <3>4. CASE QueryForRows(p)
      BY <3>4 DEF QueryForRows, PcValues
    <3>5. CASE ReadObjects(p)
      BY <3>5 DEF ReadObjects, PcValues
    <3>6. CASE FinishBody(p)
      BY <3>6 DEF FinishBody, PcValues
    <3>7. CASE commit(p)
      BY <3>7 DEF commit, Return, PcValues
    <3>8. CASE rollback(p)
      BY <3>8 DEF rollback, Return, PcValues
    <3>9. CASE LockConn(p)
      BY <3>9 DEF LockConn, PcValues
    <3>10. CASE NewConnection(p)
      BY <3>10 DEF NewConnection, PcValues
    <3>11. QED
      BY <1>3, <3>1, <3>2, <3>3, <3>4, <3>5, <3>6, <3>7, <3>8, <3>9, <3>10
  <2>2. QED
    BY <2>1 DEF BeginInRLock, TypeOK
<1>4. ASSUME NEW p \in Proc, Cancel(p) \/ AwaitDone(p) PROVE BeginInRLock'
  BY <1>4 DEF Cancel, AwaitDone, BeginInRLock
<1>5. CASE UNCHANGED vars
  BY <1>5 DEF vars, BeginInRLock
<1>6. QED
  BY <1>1, <1>2, <1>3, <1>4, <1>5 DEF Next, Step

\* Only NewConnection changes c.conn, and it waits for the readers.
LEMMA ConnStep ==
    BeginInRLock /\ [Next]_vars => [\A p \in Proc : pc[p] = "beginTx" => conn' = conn]_vars
<1> SUFFICES ASSUME BeginInRLock, [Next]_vars
             PROVE  \A p \in Proc : pc[p] = "beginTx" => conn' = conn
  OBVIOUS
<1>1. CASE \E q \in Proc : NewConnection(q)
  BY <1>1 DEF NewConnection, BeginInRLock
<1>2. CASE ~\E q \in Proc : NewConnection(q)
  <2>1. UNCHANGED conn
    BY <1>2, Zenon DEF Next, Step, StartWithTransaction, StartNewConnection,
       Cancel, RLockBegin, BeginTxOk, BeginTxErr, Upsert, QueryForRows,
       ReadObjects, FinishBody, commit, rollback, AwaitDone, LockConn, vars
  <2>2. QED
    BY <2>1
<1>3. QED
  BY <1>1, <1>2

\* connLock protects c.conn: while a goroutine holds RLock to begin its
\* transaction, NewConnection neither closes nor replaces the handle, for
\* every instance and interleaving of WithTransaction, cancels and
\* NewConnection calls.
THEOREM ConnStable == Spec => ConnStableUnderRLock
<1>1. Spec => []BeginInRLock
  <2>1. TypeOK /\ BeginInRLock /\ [Next]_vars => BeginInRLock'
    BY NextBeginInRLock
  <2>2. QED
    BY <2>1, InitBeginInRLock, TypeCorrect, PTL DEF Spec
<1>2. QED
  BY <1>1, ConnStep, PTL DEF Spec, ConnStableUnderRLock

=============================================================================
