--------------------------- MODULE MCBrokerWorker ---------------------------
EXTENDS BrokerWorker, TLC

WorkerSymmetry == Permutations(Workers)

=============================================================================
