-------------------------- MODULE MCIndexerClient --------------------------
(* Instances of IndexerClient for TLC; the .cfg files give the sizes.       *)
EXTENDS IndexerClient

CONSTANTS t1, t2, h1, h2, i1

TwoTasks == {t1, t2}
TwoHandlers == {h1, h2}
OneHandler == {h1}
OwnHandler == [t \in Tasks |-> IF t = t1 \/ h2 \notin Handlers THEN h1 ELSE h2]
OneId == {i1}
AllOps == Ops
OnlyMetadata == {Metadata}
=============================================================================
