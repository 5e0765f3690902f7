----------------------- MODULE CollectionInscriptions -----------------------
(***************************************************************************)
(* CollectionInscriptionService of the API                                 *)
(* (packages/ordinals-plus-api/src/services/collectionInscriptionService.ts*)
(* and repositories/collectionInscriptionRepository.ts): records of        *)
(* inscriptions of collections, each with a workflow that runs detached    *)
(* from the request that started it.                                       *)
(*                                                                         *)
(* The service drives a stub (lines 24-32): nothing is sent, the commit    *)
(* and the reveal of every workflow have the same made-up ids, and no step *)
(* of the stub fails.  So a workflow is what it writes into its record and *)
(* what may come in at its awaits.  One action runs up to the next await.  *)
(***************************************************************************)
EXTENDS FiniteSets

CONSTANTS
    Inscriptions,    \* ids of inscription records
    InscribedIds     \* ids of collections

VARIABLES
    live,            \* collections the repository has
    records,         \* the records, by id
    running,         \* where the workflow of each record is
    cancelling       \* records whose cancellation was allowed, not yet noted

inscriptionVars == <<live, records, running, cancelling>>

None == "none"
NoRecord == [status |-> "absent"]

\* 'mock-commit-txid', 'mock-reveal-txid' and what getInscriptionIdFromTransaction
\* makes of the second.
MockCommit == "mock-commit-txid"
MockReveal == "mock-reveal-txid"
MockInscription == "mock-reveal-txidi0"

Statuses == {"PENDING", "IN_PROGRESS", "COMPLETED", "FAILED", "CANCELLED"}
Record == [collection : InscribedIds, batched : BOOLEAN, status : Statuses,
           commit : {MockCommit, None}, reveal : {MockReveal, None},
           inscription : {MockInscription, None}]

\* Where a workflow may wait: for the repositories, or two seconds after the commit
\* and after the reveal.
Places == {"none", "begin", "load", "prepare", "committed", "revealed", "ended", "stuck"}

At(r, place) == running[r] = place
GoTo(r, place) == running' = [running EXCEPT ![r] = place]

InscriptionInit ==
    /\ live = InscribedIds
    /\ records = [r \in Inscriptions |-> NoRecord]
    /\ running = [r \in Inscriptions |-> "none"]
    /\ cancelling = {}

\* The collection is refused when its stored metadata has an inscriptionId.
\* It never has: processInscription sets it on its own parsed copy and calls
\* updateCollection with the name alone.
StoredInscriptionId(col) == None

\* startInscription by the curator.  A record is batched when the caller or
\* the size of the collection asks for it.
StartInscription(r, col) ==
    /\ records[r] = NoRecord
    /\ col \in live
    /\ StoredInscriptionId(col) = None
    /\ \E batched \in BOOLEAN :
         records' = [records EXCEPT ![r] =
             [collection |-> col, batched |-> batched, status |-> "PENDING",
              commit |-> None, reveal |-> None, inscription |-> None]]
    /\ GoTo(r, "begin")
    /\ UNCHANGED <<live, cancelling>>

\* updateInscription.  For a batched record every update without a batching
\* part throws, after nothing was changed: 'newBatchInscriptionIds' is looked
\* for in undefined.
Updatable(r) == ~records[r].batched
SetRecordStatus(r, status) == records' = [records EXCEPT ![r].status = status]

\* (mutant of Fail: the error is logged only)
FailureSwallowed(r) ==
    /\ GoTo(r, "ended")
    /\ UNCHANGED records

\* The catch of processInscription.
Fail(r) ==
    /\ SetRecordStatus(r, "FAILED")
    /\ GoTo(r, "ended")

\* processInscription: for a batched record the first update throws, and so
\* does the one that would note the failure.
Begin(r) ==
    /\ At(r, "begin")
    /\ IF Updatable(r)
       THEN SetRecordStatus(r, "IN_PROGRESS") /\ GoTo(r, "load")
       ELSE GoTo(r, "stuck") /\ UNCHANGED records
    /\ UNCHANGED <<live, cancelling>>

Load(r) ==
    /\ At(r, "load")
    /\ IF records[r].collection \in live
       THEN GoTo(r, "prepare") /\ UNCHANGED records
       ELSE Fail(r)
    /\ UNCHANGED <<live, cancelling>>

\* inscribeCollection up to the first wait: the stub prepares, selects, calculates
\* fees and commits; the fees and the commit are noted.
Commit(r) ==
    /\ At(r, "prepare")
    /\ records' = [records EXCEPT ![r].commit = MockCommit]
    /\ GoTo(r, "committed")
    /\ UNCHANGED <<live, cancelling>>

\* Two seconds later.
Reveal(r) ==
    /\ At(r, "committed")
    /\ records' = [records EXCEPT ![r].reveal = MockReveal]
    /\ GoTo(r, "revealed")
    /\ UNCHANGED <<live, cancelling>>

\* Two seconds later the record is completed, whatever its status is, and whether
\* the collection is still there or not.
CompleteInscription(r) ==
    /\ At(r, "revealed")
    /\ records' = [records EXCEPT ![r].status = "COMPLETED",
                                  ![r].inscription = MockInscription]
    /\ GoTo(r, "ended")
    /\ UNCHANGED <<live, cancelling>>

\* cancelInscription: the status is read, then set after an await.
StartCancel(r) ==
    /\ records[r].status \in {"PENDING", "IN_PROGRESS"}
    /\ r \notin cancelling
    /\ cancelling' = cancelling \cup {r}
    /\ UNCHANGED <<live, records, running>>

FinishCancel(r) ==
    /\ r \in cancelling
    /\ cancelling' = cancelling \ {r}
    /\ IF Updatable(r) THEN SetRecordStatus(r, "CANCELLED") ELSE UNCHANGED records
    /\ UNCHANGED <<live, running>>

DeleteInscribed(col) ==
    /\ live' = live \ {col}
    /\ UNCHANGED <<records, running, cancelling>>

InscriptionNext ==
    \/ \E r \in Inscriptions :
         \/ \E col \in InscribedIds : StartInscription(r, col)
         \/ Begin(r)
         \/ Load(r)
         \/ Commit(r)
         \/ Reveal(r)
         \/ CompleteInscription(r)
         \/ StartCancel(r)
         \/ FinishCancel(r)
    \/ \E col \in live : DeleteInscribed(col)

InscriptionSpec == InscriptionInit /\ [][InscriptionNext]_inscriptionVars

-----------------------------------------------------------------------------
InscriptionTypeOK ==
    /\ live \subseteq InscribedIds
    /\ records \in [Inscriptions -> Record \cup {NoRecord}]
    /\ running \in [Inscriptions -> Places]
    /\ cancelling \subseteq Inscriptions

\* A record tells what its workflow did, however the deletion of its collection and
\* a cancellation that was allowed earlier fall in between: a record that is pending
\* or in progress has a workflow that will go on, unless it is batched; one that says
\* COMPLETED has its inscription and both transactions; one that says FAILED has
\* none of them, and its collection is gone (collectionInscriptionService.ts:172-223).
RecordsTell ==
    \A r \in Inscriptions :
        LET rec == records[r]
        IN  /\ rec.status \in {"PENDING", "IN_PROGRESS"} => rec.batched \/ ~At(r, "ended")
            /\ rec.status = "COMPLETED" => None \notin {rec.commit, rec.reveal, rec.inscription}
            /\ rec.status = "FAILED" =>
                 /\ {rec.commit, rec.reveal, rec.inscription} = {None}
                 /\ rec.collection \notin live

-----------------------------------------------------------------------------
\* Expected of this code, and not so.

\* A cancelled inscription goes on and is completed.
CancelledStays ==
    [][\A r \in Inscriptions :
          records[r].status = "CANCELLED" => records'[r].status = "CANCELLED"]_inscriptionVars

\* A cancellation never takes back a completed inscription: its status is set after
\* the workflow has ended.
CompletedStays ==
    [][\A r \in Inscriptions :
          records[r].status = "COMPLETED" => records'[r].status = "COMPLETED"]_inscriptionVars

\* "handles the on-chain inscription of collection data"
\* (collectionInscriptionService.ts:4): every completed record has the same id.
InscriptionsDiffer ==
    \A r, s \in Inscriptions :
        r # s /\ records[r].status = "COMPLETED" /\ records[s].status = "COMPLETED"
            => records[r].inscription # records[s].inscription

\* A record that has no workflow any more is not pending: a batched one stays so, and
\* cannot be cancelled either.
PendingGoesOn == \A r \in Inscriptions : records[r].status = "PENDING" => ~At(r, "stuck")
=============================================================================
