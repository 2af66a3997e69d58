---------------------------- MODULE MCDelivery ----------------------------
\* Two authors, with the branches and the jobs that MCMergeGate gives them.
EXTENDS MCMergeGate, Delivery
=============================================================================
