----------------------------- MODULE IndexLedger -----------------------------
(***************************************************************************)
(* What the indexer promises a reader of its Redis                         *)
(* (packages/ordinals-plus-indexer/src/index.ts, ResourceStorage): a       *)
(* ledger of inscription numbers.  An entry is made only for an            *)
(* inscription that exists, an indexed number is never indexed again and   *)
(* no single entry is ever taken back: only a reset forgets, and then all. *)
(* Replicas, claims, the cursor, blocks and every failure are invisible    *)
(* here.                                                                   *)
(***************************************************************************)
EXTENDS Integers

CONSTANTS InitTip, MaxTip

VARIABLES
    tip,       \* the newest inscription
    indexed,   \* numbers in indexed:inscriptions
    errored    \* numbers with an indexer:error:* hash

ledger == <<tip, indexed, errored>>

Init ==
    /\ tip = InitTip
    /\ indexed = {}
    /\ errored = {}

\* A block adds any number of inscriptions.
Inscribe ==
    /\ tip' \in (tip + 1)..MaxTip
    /\ UNCHANGED <<indexed, errored>>

Index(n) ==
    /\ n <= tip
    /\ n \notin indexed
    /\ indexed' = indexed \cup {n}
    /\ UNCHANGED <<tip, errored>>

Report(n) ==
    /\ n <= tip
    /\ n \notin errored
    /\ errored' = errored \cup {n}
    /\ UNCHANGED <<tip, indexed>>

\* The operator resets the index: all entries of a kind go at once.
Forget ==
    \/ indexed' = {} /\ UNCHANGED <<tip, errored>>
    \/ errored' = {} /\ UNCHANGED <<tip, indexed>>

Next ==
    \/ Inscribe
    \/ Forget
    \/ \E n \in 0..MaxTip : Index(n) \/ Report(n)

Spec == Init /\ [][Next]_ledger
=============================================================================
