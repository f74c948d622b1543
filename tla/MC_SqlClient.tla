---------------------------- MODULE MC_SqlClient ----------------------------
(* Instances of SqlClient for TLC: three goroutines, the fewest with which *)
(* a body, a NewConnection and a waiting BeginTx can all block each other.  *)
EXTENDS SqlClient, TLC

CONSTANTS p1, p2, p3, k1

MCProc == {p1, p2, p3}
MCKeys == {k1}

\* Goroutines are interchangeable; used only by the safety runs.
ProcSymmetry == Permutations(MCProc)
=============================================================================
