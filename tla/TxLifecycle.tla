---------------------------- MODULE TxLifecycle ----------------------------
(***************************************************************************)
(* A transaction from its broadcast to its finality, as the library's      *)
(* documentation has an application do it                                  *)
(* (.aigne/doc-smith/docs/api-reference-transactions.md:31): the           *)
(* broadcaster and the confirmation service over one tracker and one       *)
(* chain.  Transactions the orchestrator sends are in the tracker under    *)
(* their txid, those of the broadcaster under a tracking id.               *)
(***************************************************************************)
EXTENDS TxBroadcast, TxConfirmation

CONSTANT MaxReorgs    \* bound: blocks replaced, transactions evicted

ASSUME ReorgsAssumption == MaxReorgs \in Nat

VARIABLE reorgs

chainVars == <<tracker, mempool, depth>>
vars == <<chainVars, broadcastVars, confirmVars, reorgs>>

Init ==
    /\ TrackerInit
    /\ BroadcastInit
    /\ ConfirmInit
    /\ reorgs = 0

\* The orchestrator has sent a commit or a reveal and tracks it.
OrchestratorSends(x) ==
    /\ ~Tracked(tracker, x)
    /\ x \notin {TxidOf[t] : t \in Ids}
    /\ tracker' = Add(tracker, x, NewEntry(x))
    /\ mempool' = mempool \cup {x}
    /\ UNCHANGED <<depth, broadcastVars, confirmVars, reorgs>>

\* The application hands the confirmations it read to the tracker.
ApplicationUpdates(k) ==
    /\ Tracked(tracker, k)
    /\ tracker[k].txid # NoTxid
    /\ tracker' = UpdateConfirmations(tracker, k, depth[tracker[k].txid])
    /\ UNCHANGED <<mempool, depth, broadcastVars, confirmVars, reorgs>>

ChainMoves ==
    /\ \/ /\ \E x \in Txids : Mine(x)
          /\ UNCHANGED reorgs
       \/ /\ reorgs < MaxReorgs
          /\ reorgs' = reorgs + 1
          /\ \E x \in Txids : Reorg(x) \/ Evict(x)
    /\ UNCHANGED <<broadcastVars, confirmVars>>

\* The application watches a txid a broadcast or the orchestrator gave it.
Known(x) == \E k \in Keys : Tracked(tracker, k) /\ tracker[k].txid = x

Next ==
    \/ BroadcastNext /\ UNCHANGED <<confirmVars, reorgs>>
    \/ /\ \/ \E x \in Txids : Known(x) /\ Watch(x)
          \/ \E x \in Txids : Unwatch(x)
          \/ \E c \in Chains : ConfirmStep(c)
          \/ ForceCheckAll
          \/ \E f \in 1..MaxForced : SweepGoesOn(f)
       /\ UNCHANGED <<broadcastVars, reorgs>>
    \/ \E x \in Txids : OrchestratorSends(x)
    \/ \E k \in Keys : ApplicationUpdates(k)
    \/ ChainMoves

Spec == Init /\ [][Next]_vars

\* Timers fire and requests are answered; nothing makes the caller, the
\* chain or the application act.
FairSpec ==
    /\ Spec
    /\ \A t \in Ids :
         WF_vars(BroadcastStep(t) /\ UNCHANGED <<confirmVars, reorgs>>)
    /\ \A c \in Chains :
         WF_vars(ConfirmStep(c) /\ UNCHANGED <<broadcastVars, reorgs>>)

-----------------------------------------------------------------------------
TypeOK ==
    /\ TrackerTypeOK
    /\ BroadcastTypeOK
    /\ ConfirmTypeOK
    /\ reorgs \in 0..MaxReorgs

\* The broadcaster's own entries are called CONFIRMED only when final: they
\* are out of the confirmation service's reach and move through
\* updateConfirmations alone, and a failed or cancelled one never does.
BroadcastConfirmedIsFinal ==
    \A t \in Ids :
        Tracked(tracker, t) /\ tracker[t].status = "CONFIRMED"
          => depth[TxidOf[t]] = FinalDepth
=============================================================================
