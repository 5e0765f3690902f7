--------------------------- MODULE IndexerWorkers ---------------------------
(***************************************************************************)
(* The replicas of the Ordinals Plus indexer                               *)
(* (packages/ordinals-plus-indexer/src/index.ts): ScalableIndexerWorker    *)
(* processes that share one Redis through ResourceStorage.  A worker       *)
(* claims a batch of inscription numbers, asks the provider for each,      *)
(* records what it finds, moves the global cursor and sweeps the claims.   *)
(*                                                                         *)
(* One action is one Redis call (a Lua script and a MULTI are one call) or *)
(* one provider answer; everything between two awaits is part of the       *)
(* action that precedes it.  Inscriptions are identified with their        *)
(* numbers: 0..tip exist.                                                  *)
(***************************************************************************)
EXTENDS Integers, FiniteSets

CONSTANTS
    Workers,            \* WORKER_IDs of the replicas
    BatchSize,          \* BATCH_SIZE
    Concurrency,        \* CONCURRENT_PROCESSING
    StartInscription,   \* START_INSCRIPTION
    InitTip,            \* newest inscription when the replicas start
    MaxTip,             \* bound: newest inscription ever made
    MaxNumber,          \* bound: last number of any batch
    Epoch,              \* clock, in seconds since 1970, at the start
    MaxHours,           \* bound: hours that may pass
    MaxExits,           \* bound: crashes and graceful stops
    Faults              \* which of AllFaults may happen

AllFaults == {"io", "analysis", "redis", "crash", "stop"}

ASSUME SizesAssumption ==
    /\ BatchSize \in Nat \ {0}
    /\ Concurrency \in Nat \ {0}
    /\ StartInscription \in Nat
    /\ InitTip \in Nat
    /\ MaxTip \in Nat
    /\ MaxNumber \in Nat
    /\ InitTip <= MaxTip
    /\ MaxHours \in Nat
    /\ MaxExits \in Nat
    /\ Faults \subseteq AllFaults

ASSUME WorkersAssumption == IsFiniteSet(Workers)

VARIABLES
    \* Redis
    cursor,      \* indexer:cursor, NoCursor while the key does not exist
    claims,      \* the values under indexer:claim:*, one per owner
    indexed,     \* indexed:inscriptions
    copies,      \* how often the MULTI of a store ran for a number
    errored,     \* numbers with an indexer:error:* hash
    \* chain and clock
    tip,
    now,
    \* the memory of each worker
    pc,          \* the call the worker makes next
    batch,       \* the BatchClaim it processes
    checked,     \* numbers found absent by sIsMember, store not yet run
    found,       \* results 'ordinals' and 'non-ordinals'
    failed,      \* results 'error'
    missing,     \* results 'missing'
    target,      \* the value it is about to write to the cursor
    scan,        \* owners of the claim keys a KEYS returned
    doomed,      \* owners whose claim the sweep decided to delete
    stopping,    \* workers inside stop()
    \* bookkeeping of the model
    exits,       \* crashes and stops so far (bounded by MaxExits)
    givenUp      \* history: numbers somebody stopped being responsible for

redisVars == <<cursor, claims, indexed, copies, errored>>
envVars   == <<tip, now>>
itemVars  == <<checked, found, failed, missing>>
scanVars  == <<scan, doomed>>
lifeVars  == <<stopping, exits>>
vars == <<redisVars, envVars, pc, batch, itemVars, target, scanVars,
          lifeVars, givenUp>>

NoCursor == -1
NoBatch == [start |-> 1, end |-> 0]

Claim == [owner : Workers, start : Nat, end : Nat, claimedAt : Nat]
Batch == [start : Nat, end : Nat]
Phase == {"off", "init", "idle", "work", "complete", "keys", "sweep",
          "release", "clear", "clearDel", "latest", "reset"}

Max2(a, b) == IF a >= b THEN a ELSE b

-----------------------------------------------------------------------------
(* Claims.                                                                  *)

\* claimNextBatch tries that many consecutive batches.
MaxAttempts == 10

\* The EX of a claim and the age cleanupExpiredClaims compares with.
ClaimTtlSeconds == 3600
ClaimTtlMs == 3600000
MsPerSecond == 1000

ASSUME EpochAssumption ==
    /\ Epoch \in Nat
    /\ MsPerSecond * Epoch - Epoch > ClaimTtlMs   \* long after January 1970

CursorValue == IF cursor = NoCursor THEN StartInscription ELSE cursor

\* (mutant of AttemptStart: the attempts leave a number out between them)
AttemptStartWithGaps(k) == CursorValue + 1 + k * (BatchSize + 1)

AttemptStart(k) == CursorValue + 1 + k * BatchSize
AttemptEnd(k)   == AttemptStart(k) + BatchSize - 1

\* (mutant of Overlaps: only the first number of the attempt is compared)
OverlapsAtStart(s, e, c) == s \in c.start .. c.end /\ s <= e

Overlaps(s, e, c) == s <= c.end /\ e >= c.start

Available(k) ==
    \A c \in claims : ~Overlaps(AttemptStart(k), AttemptEnd(k), c)

\* now is Date.now() in seconds: cleanupExpiredClaims subtracts the claim's
\* redis TIME, which counts seconds, from the milliseconds of Date.now().
LooksExpired(c) == MsPerSecond * now - c.claimedAt > ClaimTtlMs

ClaimsWithout(owners) == {c \in claims : c.owner \notin owners}

ClaimOwners == {c.owner : c \in claims}

-----------------------------------------------------------------------------
(* The batch a worker processes.                                           *)

Numbers(w)  == batch[w].start .. batch[w].end
Answered(w) == found[w] \cup failed[w] \cup missing[w]
Chunk(w, n) == (n - batch[w].start) \div Concurrency

\* n has not been asked for and every chunk before its own is answered.
Ready(w, n) ==
    /\ pc[w] = "work"
    /\ n \in Numbers(w) \ (Answered(w) \cup checked[w])
    /\ \A m \in Numbers(w) : Chunk(w, m) < Chunk(w, n) => m \in Answered(w)

Failures(w) == Cardinality(failed[w]) + Cardinality(missing[w])

Overshoot(w) == found[w] = {} /\ Failures(w) = BatchSize

\* failureRate > HIGH_FAILURE_THRESHOLD, which is 0.8
HighFailure(w) == 10 * Failures(w) > 8 * BatchSize

\* Numbers of w's batch that are neither recorded as indexed nor as errored.
Unfinished(w) == Numbers(w) \ (found[w] \cup failed[w])

\* A worker forgets its batch when it returns to the head of workerLoop.
Forget(w) ==
    /\ batch' = [batch EXCEPT ![w] = NoBatch]
    /\ checked' = [checked EXCEPT ![w] = {}]
    /\ found' = [found EXCEPT ![w] = {}]
    /\ failed' = [failed EXCEPT ![w] = {}]
    /\ missing' = [missing EXCEPT ![w] = {}]
    /\ target' = [target EXCEPT ![w] = 0]
    /\ scan' = [scan EXCEPT ![w] = {}]
    /\ doomed' = [doomed EXCEPT ![w] = {}]

memoryVars == <<batch, itemVars, target, scanVars>>

Goto(w, phase) == pc' = [pc EXCEPT ![w] = phase]

-----------------------------------------------------------------------------
Init ==
    /\ cursor = NoCursor
    /\ claims = {}
    /\ indexed = {}
    /\ copies = [n \in 0..MaxTip |-> 0]
    /\ errored = {}
    /\ tip = InitTip
    /\ now = Epoch
    /\ pc = [w \in Workers |-> "off"]
    /\ batch = [w \in Workers |-> NoBatch]
    /\ checked = [w \in Workers |-> {}]
    /\ found = [w \in Workers |-> {}]
    /\ failed = [w \in Workers |-> {}]
    /\ missing = [w \in Workers |-> {}]
    /\ target = [w \in Workers |-> 0]
    /\ scan = [w \in Workers |-> {}]
    /\ doomed = [w \in Workers |-> {}]
    /\ stopping = {}
    /\ exits = 0
    /\ givenUp = {}

-----------------------------------------------------------------------------
(* Start up: connect().                                                     *)

\* EXISTS indexer:cursor
Connect(w) ==
    /\ pc[w] = "off"
    /\ Goto(w, IF cursor = NoCursor THEN "init" ELSE "idle")
    /\ UNCHANGED <<redisVars, envVars, memoryVars, lifeVars, givenUp>>

\* SET indexer:cursor START_INSCRIPTION, whatever happened since the EXISTS
InitCursor(w) ==
    /\ pc[w] = "init"
    /\ cursor' = StartInscription
    /\ Goto(w, "idle")
    /\ UNCHANGED <<claims, indexed, copies, errored, envVars, memoryVars,
                   lifeVars, givenUp>>

-----------------------------------------------------------------------------
(* claimNextBatch: the Lua script.                                          *)

\* The first attempt that overlaps no claim, the worker's own included, is
\* claimed, in place of the claim the worker had.
MakeClaim(w, k) ==
    /\ AttemptEnd(k) <= MaxNumber
    /\ Available(k)
    /\ \A j \in 0 .. k - 1 : ~Available(j)
    /\ claims' = ClaimsWithout({w})
                   \cup {[owner |-> w, start |-> AttemptStart(k),
                          end |-> AttemptEnd(k), claimedAt |-> now]}

\* Numbers of the attempts passed over that no claim covers.
SteppedOver(k) ==
    {n \in CursorValue + 1 .. AttemptStart(k) - 1 :
        \A c \in claims : n \notin c.start .. c.end}

ClaimBatch(w) ==
    /\ pc[w] = "idle"
    /\ w \notin stopping
    /\ \E k \in 0 .. MaxAttempts - 1 :
        /\ MakeClaim(w, k)
        /\ batch' = [batch EXCEPT ![w] = [start |-> AttemptStart(k),
                                          end   |-> AttemptEnd(k)]]
        /\ givenUp' = givenUp \cup SteppedOver(k)
    /\ Goto(w, "work")
    /\ UNCHANGED <<cursor, indexed, copies, errored, envVars, itemVars,
                   target, scanVars, lifeVars>>

\* The script ran and its answer is lost: claimNextBatch returns null.
ClaimUnheard(w) ==
    /\ "redis" \in Faults
    /\ pc[w] = "idle"
    /\ w \notin stopping
    /\ \E k \in 0 .. MaxAttempts - 1 :
        /\ MakeClaim(w, k)
        /\ givenUp' = givenUp \cup SteppedOver(k)
                        \cup (AttemptStart(k) .. AttemptEnd(k))
    /\ UNCHANGED <<cursor, indexed, copies, errored, envVars, pc, memoryVars,
                   lifeVars>>

-----------------------------------------------------------------------------
(* processBatchParallel: one promise per number of a chunk.                 *)

\* (mutant of NotThere: an error is recorded for a missing inscription)
NotThereReported(w, n) ==
    /\ Ready(w, n)
    /\ n > tip
    /\ errored' = errored \cup {n}
    /\ missing' = [missing EXCEPT ![w] = @ \cup {n}]
    /\ UNCHANGED <<cursor, claims, indexed, copies, envVars, pc, batch,
                   checked, found, failed, target, scanVars, lifeVars,
                   givenUp>>

\* The provider has no such inscription.
NotThere(w, n) ==
    /\ Ready(w, n)
    /\ n > tip
    /\ missing' = [missing EXCEPT ![w] = @ \cup {n}]
    /\ UNCHANGED <<redisVars, envVars, pc, batch, checked, found, failed,
                   target, scanVars, lifeVars, givenUp>>

\* The inscription is fetched and analysed, then SISMEMBER answers.
CheckIndexed(w, n) ==
    /\ Ready(w, n)
    /\ n <= tip
    /\ \/ /\ n \in indexed
          /\ found' = [found EXCEPT ![w] = @ \cup {n}]
          /\ UNCHANGED checked
       \/ /\ n \notin indexed
          /\ checked' = [checked EXCEPT ![w] = @ \cup {n}]
          /\ UNCHANGED found
    /\ UNCHANGED <<redisVars, envVars, pc, batch, failed, missing,
                   target, scanVars, lifeVars, givenUp>>

\* (mutant of StoreResource: the MULTI has no SADD indexed:inscriptions)
StoreWithoutMark(w, n) ==
    /\ n \in checked[w]
    /\ copies' = [copies EXCEPT ![n] = @ + 1]
    /\ checked' = [checked EXCEPT ![w] = @ \ {n}]
    /\ found' = [found EXCEPT ![w] = @ \cup {n}]
    /\ UNCHANGED <<cursor, claims, indexed, errored, envVars, pc, batch,
                   failed, missing, target, scanVars, lifeVars, givenUp>>

\* The MULTI of storeOrdinalsResource or storeNonOrdinalsResource.
StoreResource(w, n) ==
    /\ n \in checked[w]
    /\ indexed' = indexed \cup {n}
    /\ copies' = [copies EXCEPT ![n] = @ + 1]
    /\ checked' = [checked EXCEPT ![w] = @ \ {n}]
    /\ found' = [found EXCEPT ![w] = @ \cup {n}]
    /\ UNCHANGED <<cursor, claims, errored, envVars, pc, batch, failed,
                   missing, target, scanVars, lifeVars, givenUp>>

\* analyzeInscription returns an error and storeInscriptionError keeps it.
AnalysisFails(w, n) ==
    /\ "analysis" \in Faults
    /\ Ready(w, n)
    /\ n <= tip
    /\ errored' = errored \cup {n}
    /\ failed' = [failed EXCEPT ![w] = @ \cup {n}]
    /\ UNCHANGED <<cursor, claims, indexed, copies, envVars, pc, batch,
                   checked, found, missing, target, scanVars, lifeVars,
                   givenUp>>

\* A store, or the HSET of an error, took place and its answer is lost.
StoreUnheard(w, n) ==
    /\ "io" \in Faults
    /\ \/ /\ n \in checked[w]
          /\ indexed' = indexed \cup {n}
          /\ copies' = [copies EXCEPT ![n] = @ + 1]
          /\ UNCHANGED errored
       \/ /\ Ready(w, n)
          /\ n <= tip
          /\ errored' = errored \cup {n}
          /\ UNCHANGED <<indexed, copies>>
    /\ missing' = [missing EXCEPT ![w] = @ \cup {n}]
    /\ checked' = [checked EXCEPT ![w] = @ \ {n}]
    /\ UNCHANGED <<cursor, claims, envVars, pc, batch, found, failed, target,
                   scanVars, lifeVars, givenUp>>

\* Any call of the promise throws: the catch answers 'missing'.
CallThrows(w, n) ==
    /\ "io" \in Faults
    /\ \/ Ready(w, n) /\ n <= tip
       \/ n \in checked[w]
    /\ missing' = [missing EXCEPT ![w] = @ \cup {n}]
    /\ checked' = [checked EXCEPT ![w] = @ \ {n}]
    /\ UNCHANGED <<redisVars, envVars, pc, batch, found, failed, target,
                   scanVars, lifeVars, givenUp>>

-----------------------------------------------------------------------------
(* workerLoop: what it does with the results.                               *)

BatchAnswered(w) == pc[w] = "work" /\ Answered(w) = Numbers(w)

\* All misses or errors: release, clear, look for the tip, reset.
FinishOvershoot(w) ==
    /\ BatchAnswered(w)
    /\ Overshoot(w)
    /\ Goto(w, "release")
    /\ givenUp' = givenUp \cup missing[w]
    /\ UNCHANGED <<redisVars, envVars, memoryVars, lifeVars>>

\* last is the number completeBatch is called with: just before the first
\* missing one after a high failure rate, else the end of the batch.
CompletesUpTo(w, last) ==
    IF HighFailure(w) /\ missing[w] # {}
    THEN last + 1 \in missing[w] /\ \A n \in missing[w] : last < n
    ELSE last = batch[w].end

FinishBatch(w) ==
    /\ BatchAnswered(w)
    /\ ~Overshoot(w)
    /\ \E last \in Numbers(w) :
         /\ CompletesUpTo(w, last)
         /\ target' = [target EXCEPT ![w] = last]
    /\ givenUp' = givenUp \cup missing[w]
    /\ Goto(w, "complete")
    /\ UNCHANGED <<redisVars, envVars, batch, itemVars, scanVars, lifeVars>>

\* "No inscriptions processed": the cursor and the worker's claim stay.
FinishUnprocessed(w) ==
    /\ BatchAnswered(w)
    /\ ~Overshoot(w)
    /\ CompletesUpTo(w, batch[w].start - 1)
    /\ givenUp' = givenUp \cup missing[w]
    /\ Forget(w)
    /\ Goto(w, "idle")
    /\ UNCHANGED <<redisVars, envVars, lifeVars>>

\* (mutant of CompleteBatch: the cursor is the next number to claim)
CompleteExclusive(w) ==
    /\ pc[w] = "complete"
    /\ cursor' = target[w] + 1
    /\ Goto(w, "keys")
    /\ UNCHANGED <<claims, indexed, copies, errored, envVars, memoryVars,
                   lifeVars, givenUp>>

\* completeBatch: SET indexer:cursor
CompleteBatch(w) ==
    /\ pc[w] = "complete"
    /\ cursor' = target[w]
    /\ Goto(w, "keys")
    /\ UNCHANGED <<claims, indexed, copies, errored, envVars, memoryVars,
                   lifeVars, givenUp>>

\* cleanupExpiredClaims: KEYS indexer:claim:*
CleanupKeys(w) ==
    /\ pc[w] = "keys"
    /\ scan' = [scan EXCEPT ![w] = ClaimOwners]
    /\ Goto(w, "sweep")
    /\ UNCHANGED <<redisVars, envVars, batch, itemVars, target, doomed,
                   lifeVars, givenUp>>

\* GET of the claim of k, which may be gone or renewed since the KEYS
CleanupGet(w, k) ==
    /\ pc[w] = "sweep"
    /\ k \in scan[w]
    /\ doomed[w] = {}
    /\ scan' = [scan EXCEPT ![w] = @ \ {k}]
    /\ doomed' = [doomed EXCEPT ![w] =
                     {c.owner : c \in {d \in claims :
                                         d.owner = k /\ LooksExpired(d)}}]
    /\ UNCHANGED <<redisVars, envVars, pc, batch, itemVars, target,
                   lifeVars, givenUp>>

\* DEL of the claim that looked expired, whatever is stored there by now
CleanupDel(w) ==
    /\ pc[w] = "sweep"
    /\ doomed[w] # {}
    /\ claims' = ClaimsWithout(doomed[w])
    /\ doomed' = [doomed EXCEPT ![w] = {}]
    /\ UNCHANGED <<cursor, indexed, copies, errored, envVars, pc, batch,
                   itemVars, target, scan, lifeVars, givenUp>>

CleanupDone(w) ==
    /\ pc[w] = "sweep"
    /\ scan[w] = {}
    /\ doomed[w] = {}
    /\ Forget(w)
    /\ Goto(w, "idle")
    /\ UNCHANGED <<redisVars, envVars, lifeVars, givenUp>>

-----------------------------------------------------------------------------
(* workerLoop: the overshoot branch.                                        *)

\* releaseWorkerClaim: DEL of the worker's own claim
ReleaseClaim(w) ==
    /\ pc[w] = "release"
    /\ claims' = ClaimsWithout({w})
    /\ Goto(w, "clear")
    /\ UNCHANGED <<cursor, indexed, copies, errored, envVars, memoryVars,
                   lifeVars, givenUp>>

\* clearAllClaims: KEYS, then one DEL of all the keys it returned
ClearKeys(w) ==
    /\ pc[w] = "clear"
    /\ scan' = [scan EXCEPT ![w] = ClaimOwners]
    /\ Goto(w, IF ClaimOwners = {} THEN "latest" ELSE "clearDel")
    /\ UNCHANGED <<redisVars, envVars, batch, itemVars, target, doomed,
                   lifeVars, givenUp>>

ClearDel(w) ==
    /\ pc[w] = "clearDel"
    /\ claims' = ClaimsWithout(scan[w])
    /\ Goto(w, "latest")
    /\ UNCHANGED <<cursor, indexed, copies, errored, envVars, memoryVars,
                   lifeVars, givenUp>>

\* What getLatestInscriptionNumber may return: the tip, or, when calls it
\* makes are rejected, whatever the search is left with.
LatestNumbers == IF "io" \in Faults THEN 0 .. tip ELSE {tip}

FindLatest(w) ==
    /\ pc[w] = "latest"
    /\ \E latest \in LatestNumbers :
         target' = [target EXCEPT ![w] =
                      IF latest > 0 THEN Max2(0, latest - 1)
                      ELSE Max2(0, batch[w].start - BatchSize)]
    /\ Goto(w, "reset")
    /\ UNCHANGED <<redisVars, envVars, batch, itemVars, scanVars, lifeVars,
                   givenUp>>

\* setCursor(target): what lies between the old value and the new is skipped
ResetCursor(w) ==
    /\ pc[w] = "reset"
    /\ cursor' = target[w]
    /\ givenUp' = givenUp \cup (CursorValue + 1 .. target[w])
    /\ Forget(w)
    /\ Goto(w, "idle")
    /\ UNCHANGED <<claims, indexed, copies, errored, envVars, lifeVars>>

-----------------------------------------------------------------------------
(* Faults, shutdown and the environment.                                    *)

\* The SET of the cursor fails, or its answer is lost: the loop's catch sleeps
\* and starts over, claim kept.
LoopError(w) ==
    /\ "redis" \in Faults
    /\ pc[w] \in {"complete", "reset"}
    /\ \/ UNCHANGED <<cursor, givenUp>>
       \/ /\ cursor' = target[w]
          /\ givenUp' = givenUp \cup (IF pc[w] = "reset"
                                      THEN CursorValue + 1 .. target[w] ELSE {})
    /\ Forget(w)
    /\ Goto(w, "idle")
    /\ UNCHANGED <<claims, indexed, copies, errored, envVars, lifeVars>>

\* A call of a sweep, a release or a clearing fails: caught where it is made.
CleanupError(w) ==
    /\ "redis" \in Faults
    /\ \/ pc[w] \in {"keys", "sweep"} /\ Forget(w) /\ Goto(w, "idle")
       \/ pc[w] = "release" /\ Goto(w, "clear") /\ UNCHANGED memoryVars
       \/ pc[w] \in {"clear", "clearDel"} /\ Goto(w, "latest")
                                         /\ UNCHANGED memoryVars
    /\ UNCHANGED <<redisVars, envVars, lifeVars, givenUp>>

\* The process is gone: its memory is lost, its claim stays.
Exit(w) ==
    /\ givenUp' = givenUp \cup (IF pc[w] = "work" THEN Unfinished(w) ELSE {})
    /\ Forget(w)
    /\ Goto(w, "off")
    /\ stopping' = stopping \ {w}

Crash(w) ==
    /\ "crash" \in Faults
    /\ pc[w] # "off"
    /\ exits < MaxExits
    /\ exits' = exits + 1
    /\ Exit(w)
    /\ UNCHANGED <<redisVars, envVars>>

\* stop(): running is false and the claim is deleted, the loop still runs
StopSignal(w) ==
    /\ "stop" \in Faults
    /\ pc[w] \notin {"off", "init"}
    /\ w \notin stopping
    /\ exits < MaxExits
    /\ exits' = exits + 1
    /\ stopping' = stopping \cup {w}
    /\ claims' = ClaimsWithout({w})
    /\ UNCHANGED <<cursor, indexed, copies, errored, envVars, pc, memoryVars,
                   givenUp>>

\* process.exit(0)
StopExit(w) ==
    /\ w \in stopping
    /\ Exit(w)
    /\ UNCHANGED <<redisVars, envVars, exits>>

\* A new inscription is confirmed.
Inscribe ==
    /\ tip < MaxTip
    /\ tip' = tip + 1
    /\ UNCHANGED <<redisVars, now, pc, memoryVars, lifeVars, givenUp>>

\* An hour passes.
Tick ==
    /\ now < Epoch + MaxHours * ClaimTtlSeconds
    /\ now' = now + ClaimTtlSeconds
    /\ UNCHANGED <<redisVars, tip, pc, memoryVars, lifeVars, givenUp>>

\* Redis drops a claim whose EX has run out.
ClaimExpires(c) ==
    /\ now - c.claimedAt >= ClaimTtlSeconds
    /\ claims' = claims \ {c}
    /\ UNCHANGED <<cursor, indexed, copies, errored, envVars, pc, memoryVars,
                   lifeVars, givenUp>>

-----------------------------------------------------------------------------
Process(w) ==
    \E n \in Numbers(w) :
        \/ NotThere(w, n)
        \/ CheckIndexed(w, n)
        \/ StoreResource(w, n)
        \/ AnalysisFails(w, n)
        \/ StoreUnheard(w, n)
        \/ CallThrows(w, n)

Conclude(w) ==
    \/ FinishOvershoot(w)
    \/ FinishBatch(w)
    \/ FinishUnprocessed(w)

Cleanup(w) ==
    \/ CompleteBatch(w)
    \/ CleanupKeys(w)
    \/ \E k \in scan[w] : CleanupGet(w, k)
    \/ CleanupDel(w)
    \/ CleanupDone(w)

Recover(w) ==
    \/ ReleaseClaim(w)
    \/ ClearKeys(w)
    \/ ClearDel(w)
    \/ FindLatest(w)
    \/ ResetCursor(w)

Step(w) ==
    \/ Connect(w)
    \/ InitCursor(w)
    \/ ClaimBatch(w)
    \/ Process(w)
    \/ Conclude(w)
    \/ Cleanup(w)
    \/ Recover(w)

Disturb(w) ==
    \/ ClaimUnheard(w)
    \/ LoopError(w)
    \/ CleanupError(w)
    \/ Crash(w)
    \/ StopSignal(w)
    \/ StopExit(w)

Environment ==
    \/ Inscribe
    \/ Tick
    \/ \E c \in claims : ClaimExpires(c)

Next ==
    \/ \E w \in Workers : Step(w) \/ Disturb(w)
    \/ Environment

Spec == Init /\ [][Next]_vars

\* Every replica keeps running: each await of its loop is answered.
FairSpec == Spec /\ \A w \in Workers : WF_vars(Step(w))

-----------------------------------------------------------------------------
(* Properties.                                                              *)

TypeOK ==
    /\ cursor \in Nat \cup {NoCursor}
    /\ claims \subseteq Claim
    /\ indexed \subseteq 0..MaxTip
    /\ copies \in [0..MaxTip -> Nat]
    /\ errored \subseteq 0..MaxTip
    /\ tip \in 0..MaxTip
    /\ now \in Nat
    /\ pc \in [Workers -> Phase]
    /\ batch \in [Workers -> Batch]
    /\ checked \in [Workers -> SUBSET (0..MaxTip)]
    /\ found \in [Workers -> SUBSET (0..MaxTip)]
    /\ failed \in [Workers -> SUBSET (0..MaxTip)]
    /\ missing \in [Workers -> SUBSET Nat]
    /\ target \in [Workers -> Nat]
    /\ scan \in [Workers -> SUBSET Workers]
    /\ doomed \in [Workers -> SUBSET Workers]
    /\ stopping \subseteq Workers
    /\ exits \in Nat
    /\ givenUp \subseteq Nat

\* The claims stored in Redis never overlap and no worker has two: the script
\* of claimNextBatch is atomic, and nothing else writes a claim.
ClaimsDisjoint ==
    \A c, d \in claims :
        c # d => c.owner # d.owner /\ (c.end < d.start \/ d.end < c.start)

\* SISMEMBER and the MULTI are two calls, so replicas that process the same
\* number can both store it, but no replica ever adds a second copy: a number
\* has at most as many list entries and counts as there are replicas.
CopiesBounded ==
    \A n \in 0..MaxTip : copies[n] <= Cardinality(Workers)

\* A number the indexer is still responsible for: recorded, or in the batch
\* a replica is processing right now.
Recorded(n) == n \in indexed \/ n \in errored
InFlight(n) == \E w \in Workers : pc[w] = "work" /\ n \in Unfinished(w)

\* Whatever fails, a number the cursor has passed is recorded, in the hands
\* of a replica, or was given up in one of the five ways givenUp records: it
\* was answered 'missing', its replica exited, an overshoot reset jumped over
\* it, a claim stepped over it to get past a claim it half overlaps, or the
\* answer to the claim that covers it was lost.
PassedIsAccounted ==
    \A n \in StartInscription + 1 .. CursorValue :
        Recorded(n) \/ InFlight(n) \/ n \in givenUp

\* Every inscription after the first number ends up recorded for good.
EventuallyIndexed ==
    <>[](\A n \in StartInscription + 1 .. InitTip : Recorded(n))

\* Seen through Redis alone the replicas implement the ledger: an entry is
\* only ever made for an existing inscription and never taken back.
Ledger == INSTANCE IndexLedger
LedgerSpec == Ledger!Spec

-----------------------------------------------------------------------------
(* What comments and the README of the indexer say, and the code does not.  *)

\* index.ts:401 "Update cursor to the highest completed inscription"
CompletionAdvancesCursor ==
    [][\A w \in Workers : CompleteBatch(w) => cursor' >= cursor]_vars

\* README.md:21 "Claims expire automatically after 1 hour to handle worker
\* failures": what a crashed replica had claimed is processed in the end.
CrashedBatchRecovered == EventuallyIndexed
=============================================================================
