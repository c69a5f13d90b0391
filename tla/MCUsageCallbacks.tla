-------------------------- MODULE MCUsageCallbacks --------------------------
EXTENDS UsageCallbacks, TLC

CONSTANTS t1, t2, t3

MCTasks == {t1, t2, t3}
\* Any two of them meet the length limit of 2, the first two exceed the byte
\* limit of 3 together, and each of them fits beside the third.
MCSize == t1 :> 2 @@ t2 :> 2 @@ t3 :> 1
=============================================================================
