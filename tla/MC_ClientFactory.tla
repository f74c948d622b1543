--------------------------- MODULE MC_ClientFactory ---------------------------
EXTENDS ClientFactory, TLC

CONSTANTS p1, p2, alice, bob

MCProcs == {p1, p2}
MCUsers == {alice, bob}

\* No option, and one WithQPSAndBurst option.
MCOptionLists == {<< >>, << [qps |-> 50, burst |-> 5] >>}

\* Goroutines are interchangeable, and so are users.
MCSymmetry == Permutations(MCProcs) \cup Permutations(MCUsers)
=============================================================================
