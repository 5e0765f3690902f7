--------------------------- MODULE MCTxLifecycle ---------------------------
(* Instances of TxLifecycle for TLC; the .cfg files give the sizes.         *)
EXTENDS TxLifecycle

CONSTANTS b1, x1, x2, n1, n2

OneBroadcast == {b1}
TwoTxids == {x1, x2}
OneTxid == {x1}
BroadcastTxid == [t \in {b1} |-> x1]
TwoNodes == {n1, n2}
OneNode == {n1}
NodePriority == [n \in Nodes |-> IF n = n1 THEN 1 ELSE 2]
=============================================================================
