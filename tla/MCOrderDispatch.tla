-------------------------- MODULE MCOrderDispatch --------------------------
EXTENDS OrderDispatch, TLC

WorkerSymmetry == Permutations(Workers)

=============================================================================
