------------------------------ MODULE SqlStore ------------------------------
(***************************************************************************)
(* What the SQL cache client promises about its database files, without    *)
(* connections, read locks, contexts or database/sql: spec section 4.5     *)
(* (writers serialize on the file lock taken at BEGIN, a transaction       *)
(* commits all of its upserts or none).  Writers serialize per file only:  *)
(* after NewConnection a writer on the old file and one on the new file    *)
(* may be open at once, so this is weaker than spec P7, which promises    *)
(* that the second writer begins only after the first ended.             *)
(*                                                                         *)
(* A writer owns one file from its BEGIN to its commit or rollback; only   *)
(* the owner commits, atomically, and a committed key is acknowledged to   *)
(* the caller with the file it went to.  NewConnection replaces the file  *)
(* by a new, empty one.                                                    *)
(***************************************************************************)
EXTENDS Naturals

CONSTANTS
    Proc,       \* callers of WithTransaction
    Keys,       \* object keys
    NoProc,     \* the owner of a file nobody writes
    Files       \* the database files that may be created: 1 .. n

VARIABLES
    lastGen,    \* the newest file
    db,         \* db[g]: keys committed to file g
    owner,      \* owner[g]: the writer between BEGIN and commit/rollback on g
    acked       \* <<key, file>> of every upsert whose commit returned nil

vars == <<lastGen, db, owner, acked>>

Init ==
    /\ lastGen = 1
    /\ db = [g \in Files |-> {}]
    /\ owner = [g \in Files |-> NoProc]
    /\ acked = {}

\* A writer that owns no file begins a writing transaction on an existing,
\* unowned file.
Begin(p, g) ==
    /\ g <= lastGen
    /\ owner[g] = NoProc
    /\ \A h \in Files : owner[h] # p
    /\ owner' = [owner EXCEPT ![g] = p]
    /\ UNCHANGED <<lastGen, db, acked>>

\* The owner commits the set K of keys it upserted, all at once, and is
\* told so.
Commit(p, g, K) ==
    /\ owner[g] = p
    /\ db' = [db EXCEPT ![g] = @ \cup K]
    /\ acked' = acked \cup (K \X {g})
    /\ owner' = [owner EXCEPT ![g] = NoProc]
    /\ UNCHANGED lastGen

\* The owner's transaction ends without writing anything.
Abort(p, g) ==
    /\ owner[g] = p
    /\ owner' = [owner EXCEPT ![g] = NoProc]
    /\ UNCHANGED <<lastGen, db, acked>>

\* A new, empty database file.
NewFile ==
    /\ lastGen + 1 \in Files
    /\ lastGen' = lastGen + 1
    /\ UNCHANGED <<db, owner, acked>>

Next ==
    \/ \E p \in Proc, g \in Files :
          \/ Begin(p, g)
          \/ \E K \in SUBSET Keys : Commit(p, g, K)
          \/ Abort(p, g)
    \/ NewFile

Spec == Init /\ [][Next]_vars

=============================================================================
