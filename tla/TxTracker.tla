----------------------------- MODULE TxTracker -----------------------------
(***************************************************************************)
(* TransactionStatusTracker of the library                                 *)
(* (packages/ordinalsplus/src/transactions/transaction-status-tracker.ts): *)
(* the transactions it holds, by id, with the operations other components  *)
(* call on it.  An operation maps the tracker before to the tracker after, *)
(* so that a handler that makes several calls is one action.  The chain is *)
(* here too: both the broadcaster and the confirmation service face it.    *)
(***************************************************************************)
EXTENDS Integers, FiniteSets, Sequences

CONSTANTS
    Ids,       \* tracking ids made by the broadcaster (generateId)
    Txids,     \* transaction ids of the network
    TxidOf     \* the txid a broadcast ends up with, by tracking id

\* The broadcaster tracks under an id of its own, the orchestrator and the
\* confirmation service under the txid: both are keys of the same map.
Keys == Ids \cup Txids

ASSUME KeysAssumption ==
    /\ TxidOf \in [Ids -> Txids]
    /\ Ids \cap Txids = {}

VARIABLES
    tracker,   \* transactions: an entry or Untracked, by key
    mempool,   \* txids some node has accepted
    depth      \* confirmations, by txid: 0, 1 or FinalDepth

Status == {"PENDING", "CONFIRMING", "CONFIRMED", "FAILED",
           "PENDING_CONFIRMATION", "MEMPOOL", "FINALIZED",
           "DROPPED_OR_REPLACED", "UNWATCHED", "ERROR"}

FinalDepth == 6

NoTxid == "no txid"
Untracked == [status |-> "untracked"]
Entry == [status : Status, txid : Txids \cup {NoTxid},
          error : {"none", "failed", "cancelled"}]

NewEntry(x) == [status |-> "PENDING", txid |-> x, error |-> "none"]

Tracked(tr, k) == tr[k] # Untracked

\* addTransaction
Add(tr, k, entry) == [tr EXCEPT ![k] = entry]

\* setTransactionStatus: any status may follow any other, no entry is made
SetStatus(tr, k, status) ==
    IF Tracked(tr, k) THEN [tr EXCEPT ![k].status = status] ELSE tr

\* setTransactionError
SetError(tr, k, error) ==
    IF Tracked(tr, k) THEN [tr EXCEPT ![k].error = error] ELSE tr

\* updateTransactionTxid
SetTxid(tr, k, x) ==
    IF Tracked(tr, k) THEN [tr EXCEPT ![k].txid = x] ELSE tr

\* (mutant of ConfirmedStatus: the first confirmation is enough)
HastyStatus(status, confirmations) ==
    IF status \in {"PENDING", "CONFIRMING"} /\ confirmations >= 1
    THEN "CONFIRMED"
    ELSE status

\* updateConfirmations: the two conditions on the status, one after the other
ConfirmedStatus(status, confirmations) ==
    LET once == IF confirmations >= 1 /\ status = "PENDING"
                THEN "CONFIRMING" ELSE status
    IN  IF confirmations >= FinalDepth /\ once = "CONFIRMING"
        THEN "CONFIRMED" ELSE once

UpdateConfirmations(tr, k, confirmations) ==
    IF Tracked(tr, k)
    THEN [tr EXCEPT ![k].status = ConfirmedStatus(@, confirmations)]
    ELSE tr

TrackerInit ==
    /\ tracker = [k \in Keys |-> Untracked]
    /\ mempool = {}
    /\ depth = [x \in Txids |-> 0]

\* The chain: a transaction some node holds is mined and buried.
Mine(x) ==
    /\ x \in mempool
    /\ depth[x] < FinalDepth
    /\ depth' = [depth EXCEPT ![x] = IF @ = 0 THEN 1 ELSE FinalDepth]
    /\ UNCHANGED <<tracker, mempool>>

\* The block that held it is replaced; a final block never is.
Reorg(x) ==
    /\ depth[x] = 1
    /\ depth' = [depth EXCEPT ![x] = 0]
    /\ UNCHANGED <<tracker, mempool>>

\* It is replaced or evicted before it is mined.
Evict(x) ==
    /\ x \in mempool
    /\ depth[x] = 0
    /\ mempool' = mempool \ {x}
    /\ UNCHANGED <<tracker, depth>>

TrackerTypeOK ==
    /\ tracker \in [Keys -> Entry \cup {Untracked}]
    /\ mempool \subseteq Txids
    /\ depth \in [Txids -> {0, 1, FinalDepth}]
=============================================================================
