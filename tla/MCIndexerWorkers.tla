-------------------------- MODULE MCIndexerWorkers --------------------------
(* Instances of IndexerWorkers for TLC; the .cfg files give the sizes.      *)
EXTENDS IndexerWorkers, TLC

CONSTANTS w1, w2

OneReplica  == {w1}
TwoReplicas == {w1, w2}

\* No action tells one WORKER_ID from another (not used for liveness).
Symmetry == Permutations(Workers)

NoFaults    == {}
ExitFaults  == {"redis", "crash", "stop"}
CrashFaults == {"crash"}
ProviderFaults == {"io", "analysis"}
=============================================================================
