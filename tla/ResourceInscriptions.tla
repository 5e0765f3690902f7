------------------------ MODULE ResourceInscriptions ------------------------
(***************************************************************************)
(* ResourceInscriptionService of the API                                   *)
(* (packages/ordinals-plus-api/src/services/resourceInscriptionService.ts) *)
(* with the store and the handlers of its controller                       *)
(* (controllers/resourceInscriptionController.ts): an inscription that a   *)
(* client starts, has prepared, funds, and reveals, in requests of which   *)
(* several may be under way.  Each request reads the record, awaits, and   *)
(* merges its update into whatever the record is by then.                  *)
(***************************************************************************)
EXTENDS Naturals

CONSTANTS
    Requests,       \* bound: requests that may be under way at once
    MaxPrepares,    \* bound: preparations, each with a key pair of its own
    MaxUpdates      \* bound: commits and reveals reported

VARIABLES
    record,         \* the record, or NotStarted
    requests,       \* what each request has read and will write
    prepared,       \* preparations made, the numbers of their key pairs
    updates         \* commits and reveals reported

resourceVars == <<record, requests, prepared, updates>>

NotStarted == [status |-> "absent"]
NoKey == 0
KeyPairs == 1..MaxPrepares

\* address and secret are those of the key pair that was prepared last: the
\* one the client is told to pay to, the other what a reveal is signed with.
\* noFeeRate: prepare replaces the fees without the fee rate they had.
ResourceRecord ==
    [status : {"pending", "in-progress", "completed"},
     address : KeyPairs \cup {NoKey}, secret : KeyPairs \cup {NoKey},
     commit : KeyPairs \cup {NoKey}, reveal : BOOLEAN, inscriptionId : BOOLEAN,
     noFeeRate : BOOLEAN]

Waiting == [op |-> "none"]
StartRequest(q, what) ==
    /\ requests[q] = Waiting
    /\ requests' = [requests EXCEPT ![q] = what]
EndRequest(q) == requests' = [requests EXCEPT ![q] = Waiting]

ResourceInit ==
    /\ record = NotStarted
    /\ requests = [q \in Requests |-> Waiting]
    /\ prepared = 0
    /\ updates = 0

\* startInscription, once for each resource of a batch: the size, the DID and
\* the satoshi are checked before anything is stored.
StartResource ==
    /\ record = NotStarted
    /\ record' = [status |-> "pending", address |-> NoKey, secret |-> NoKey,
                  commit |-> NoKey, reveal |-> FALSE, inscriptionId |-> FALSE,
                  noFeeRate |-> FALSE]
    /\ UNCHANGED <<requests, prepared, updates>>

\* prepare: a fresh key pair, whatever the status of the record is, and a
\* call of the library that is awaited or throws.
StartPrepare(q) ==
    /\ record # NotStarted
    /\ prepared < MaxPrepares
    /\ prepared' = prepared + 1
    /\ StartRequest(q, [op |-> "prepare", key |-> prepared + 1])
    /\ UNCHANGED <<record, updates>>

FinishPrepare(q) ==
    /\ requests[q].op = "prepare"
    /\ record' = [record EXCEPT !.status = "in-progress",
                                !.address = requests[q].key,
                                !.secret = requests[q].key,
                                !.noFeeRate = TRUE]
    /\ EndRequest(q)
    /\ UNCHANGED <<prepared, updates>>

PrepareFails(q) ==
    /\ requests[q].op = "prepare"
    /\ EndRequest(q)
    /\ UNCHANGED <<record, prepared, updates>>

\* acceptCommit: the client has paid to an address it was given.
StartCommitted(q) ==
    /\ record # NotStarted
    /\ updates < MaxUpdates
    /\ updates' = updates + 1
    /\ record.address # NoKey
    /\ StartRequest(q, [op |-> "commit", key |-> record.address])
    /\ UNCHANGED <<record, prepared>>

\* The transactions are replaced: a reveal that was noted is forgotten.
FinishCommitted(q) ==
    /\ requests[q].op = "commit"
    /\ record' = [record EXCEPT !.status = "in-progress",
                                !.commit = requests[q].key,
                                !.reveal = FALSE]
    /\ EndRequest(q)
    /\ UNCHANGED <<prepared, updates>>

\* finalizeReveal: the commit it writes back is the one it has read.
StartRevealed(q) ==
    /\ record # NotStarted
    /\ updates < MaxUpdates
    /\ updates' = updates + 1
    /\ StartRequest(q, [op |-> "reveal", commit |-> record.commit])
    /\ UNCHANGED <<record, prepared>>

FinishRevealed(q) ==
    /\ requests[q].op = "reveal"
    /\ record' = [record EXCEPT !.status = "completed",
                                !.commit = requests[q].commit,
                                !.reveal = TRUE,
                                !.inscriptionId = TRUE]
    /\ EndRequest(q)
    /\ UNCHANGED <<prepared, updates>>

ResourceNext ==
    \/ StartResource
    \/ \E q \in Requests :
         \/ StartPrepare(q)
         \/ FinishPrepare(q)
         \/ PrepareFails(q)
         \/ StartCommitted(q)
         \/ FinishCommitted(q)
         \/ StartRevealed(q)
         \/ FinishRevealed(q)

-----------------------------------------------------------------------------
ResourceTypeOK ==
    /\ record \in ResourceRecord \cup {NotStarted}
    /\ \A q \in Requests : requests[q].op \in {"none", "prepare", "commit", "reveal"}
    /\ prepared \in 0..MaxPrepares
    /\ updates \in 0..MaxUpdates

\* What the comment "Persist the reveal private key for the reveal step"
\* (resourceInscriptionService.ts:320) is for: the key that can reveal the
\* address that was paid to is kept.
CommitKeyKept ==
    record # NotStarted /\ record.commit # NoKey => record.secret = record.commit
=============================================================================
