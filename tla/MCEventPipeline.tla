-------------------------- MODULE MCEventPipeline --------------------------
EXTENDS EventPipeline, TLC

CONSTANTS e1, e2, r1, r2

MCEvents == {e1, e2}
MCReplays == {r1, r2}
Symmetry == Permutations(MCEvents) \cup Permutations(MCReplays)
=============================================================================
