--------------------------- MODULE MCStoreControl ---------------------------
EXTENDS StoreControl, TLC

CONSTANTS c1, c2, c3, q1, q2, s1, s2

MCCallers == {c1, c2, c3}
MCReaders == {q1, q2}
MCStores == {s1, s2}
Symmetry == Permutations(MCCallers) \cup Permutations(MCReaders)
            \cup Permutations(MCStores)
=============================================================================
