------------------------------ MODULE BatchFlow ------------------------------
(***************************************************************************)
(* The explorer's batch inscriptions                                       *)
(* (packages/ordinals-plus-explorer/src/components/batch-inscription):     *)
(* upload a package, run it, look at the summary.  A run builds one batch  *)
(* with one commit and one reveal, which the user reviews and confirms, or *)
(* splits the package into chunks, each with a commit and a reveal of its  *)
(* own that are sent without review.  Labels of results are left out.      *)
(*                                                                         *)
(* Batches are numbered as they are prepared; the number stands for the    *)
(* batch, the key of its reveal, its commit transaction and its txid.      *)
(* Amounts, sizes and satoshis are left out: whether they suffice, exceed  *)
(* the limit or match the credentials is open.  The network takes a commit *)
(* while the funding UTXO of the manifest is unspent, and a reveal of the  *)
(* batch whose commit it spends.                                           *)
(***************************************************************************)
EXTENDS Integers, FiniteSets

CONSTANTS
    Packages,     \* packages to upload
    Pinned,       \* those whose manifest has satpoints
    NoPackage,
    MaxBatches,   \* bound: batches prepared
    MaxExtras     \* bound: commits sent from the summary

ASSUME BatchAssumption ==
    /\ Pinned \subseteq Packages /\ NoPackage \notin Packages
    /\ MaxBatches \in Nat /\ MaxExtras \in Nat

VARIABLES
    \* BatchFlowContainer
    batchStep,   \* step: 0 upload, 1 run, 2 summary
    pkg,         \* pkg
    results,     \* resultItems: commit and reveal of each chunk
    uploads,     \* packages that are being read
    \* the BatchRunStep that is mounted
    job,         \* the handler that runs: running is job.at # "off"
    awaiting,    \* awaitingRevealConfirm
    issues,      \* vcIssues is not empty
    prepared,    \* preparedBatchRef: a batch, or 0
    commitHex,   \* commitHexRef and commitPrepRef
    commitTxid,  \* commitTxidRef
    built,       \* batches prepared so far
    \* BatchSummaryStep
    extra,       \* the commit under way there
    polling,     \* isPolling
    extras,      \* commits it sent: their reveal keys are gone
    \* the network
    committed,   \* batches whose commit was accepted
    revealed     \* reveals that were accepted

runPage == <<awaiting, issues, prepared, commitHex, commitTxid>>
batchSummary == <<extra, polling, extras>>
batchNetwork == <<committed, revealed>>
batchVars == <<batchStep, pkg, results, uploads, job, runPage, built, batchSummary, batchNetwork>>

Batches == 1..MaxBatches
Reveals == [batch : Batches, bumped : BOOLEAN]
Reveal(b, bumped) == [batch |-> b, bumped |-> bumped]

NoJob == [at |-> "off", batch |-> 0, chunk |-> 0, chunks |-> 0, done |-> {}]
JobAt(where) == job' = [job EXCEPT !.at = where]
EndJob == job' = NoJob
RunIdle == batchStep = 1 /\ job.at = "off"

BatchInit ==
    /\ batchStep = 0 /\ pkg = NoPackage /\ results = {} /\ uploads = {}
    /\ job = NoJob /\ awaiting = FALSE /\ issues = FALSE
    /\ prepared = 0 /\ commitHex = 0 /\ commitTxid = 0 /\ built = 0
    /\ extra = "off" /\ polling = FALSE /\ extras = 0
    /\ committed = {} /\ revealed = {}

\* A run step that is mounted starts with no batch.
Remounted ==
    /\ awaiting' = FALSE /\ issues' = FALSE
    /\ prepared' = 0 /\ commitHex' = 0 /\ commitTxid' = 0

(***************************************************************************)
(* Upload                                                                  *)
(***************************************************************************)
Upload(p) ==
    /\ batchStep = 0 /\ p \notin uploads
    /\ uploads' = uploads \cup {p}
    /\ UNCHANGED <<batchStep, pkg, results, job, runPage, built, batchSummary, batchNetwork>>

\* onPackageLoaded and onNext, whatever step is shown by then.
UploadRead(p) ==
    /\ p \in uploads
    /\ uploads' = uploads \ {p}
    /\ pkg' = p
    /\ batchStep' = 1
    /\ IF batchStep = 1 THEN UNCHANGED runPage ELSE Remounted
    /\ UNCHANGED <<results, job, built, batchSummary, batchNetwork>>

\* No manifest, or one that cannot be parsed.
UploadFails(p) ==
    /\ p \in uploads
    /\ uploads' = uploads \ {p}
    /\ UNCHANGED <<batchStep, pkg, results, job, runPage, built, batchSummary, batchNetwork>>

UploadNext ==
    /\ batchStep = 0
    /\ batchStep' = 1
    /\ Remounted
    /\ UNCHANGED <<pkg, results, uploads, job, built, batchSummary, batchNetwork>>

(***************************************************************************)
(* Run                                                                     *)
(***************************************************************************)
\* A return or an exception of runLocalMultiInscription.
RunEnds ==
    /\ EndJob
    /\ UNCHANGED <<batchStep, pkg, results, uploads, runPage, built, batchSummary, batchNetwork>>

RunBegins == pkg # NoPackage /\ JobAt("files")

StartRun ==
    /\ RunIdle /\ ~awaiting
    /\ RunBegins
    /\ UNCHANGED <<batchStep, pkg, results, uploads, runPage, built, batchSummary, batchNetwork>>

\* rebuildWithFee; its timer of 0 ms fires before anything else is clicked.
RebuildWithFee ==
    /\ RunIdle /\ awaiting
    /\ awaiting' = FALSE
    /\ RunBegins
    /\ UNCHANGED <<batchStep, pkg, results, uploads, issues, prepared, commitHex, commitTxid,
                   built, batchSummary, batchNetwork>>

\* The files of the manifest are read; with none of them the run ends.
FilesRead ==
    /\ job.at = "files"
    /\ JobAt("sats")
    /\ UNCHANGED <<batchStep, pkg, results, uploads, runPage, built, batchSummary, batchNetwork>>

\* getSatNumber; a credential that does not name its satoshi adds an issue.
SatsResolved(mismatch) ==
    /\ job.at = "sats"
    /\ issues' = (issues \/ mismatch)
    /\ JobAt("utxos")
    /\ UNCHANGED <<batchStep, pkg, results, uploads, awaiting, prepared, commitHex, commitTxid,
                   built, batchSummary, batchNetwork>>

\* One batch for the whole package is prepared; the coins may not suffice.
SingleBuilt(suffices) ==
    /\ job.at = "utxos" /\ built < MaxBatches
    /\ built' = built + 1
    /\ prepared' = built'
    /\ IF suffices THEN job' = [job EXCEPT !.at = "sign", !.batch = built'] ELSE EndJob
    /\ UNCHANGED <<batchStep, pkg, results, uploads, awaiting, issues, commitHex, commitTxid,
                   batchSummary, batchNetwork>>

\* The next chunk is prepared, the first one once all are measured; each is
\* funded from the UTXO of the manifest.
ChunkPrepared(done) ==
    /\ built < MaxBatches
    /\ built' = built + 1
    /\ job' = [job EXCEPT !.at = "sign", !.batch = built', !.chunk = @ + 1, !.done = done]

SplitBuilt(n) ==
    /\ job.at = "utxos" /\ built < MaxBatches
    /\ built' = built + 1
    /\ job' = [job EXCEPT !.at = "sign", !.batch = built', !.chunk = 1, !.chunks = n]
    /\ UNCHANGED <<batchStep, pkg, results, uploads, runPage, batchSummary, batchNetwork>>

\* What ends a run early: no valid input, no satoshi, a funding UTXO that is
\* not listed or holds an inscription, coins that do not suffice, a wallet that
\* rejects, a broadcast that fails.
RunFails == job.at \in {"files", "sats", "utxos", "sign", "commit", "reveal"} /\ RunEnds

\* The commit is signed: a single batch is shown for review, a chunk is sent.
CommitSigned ==
    /\ job.at = "sign"
    /\ IF job.chunks = 0
       THEN commitHex' = job.batch /\ awaiting' = TRUE /\ EndJob
       ELSE JobAt("commit") /\ UNCHANGED <<commitHex, awaiting>>
    /\ UNCHANGED <<batchStep, pkg, results, uploads, issues, prepared, commitTxid, built,
                   batchSummary, batchNetwork>>

Takes(b) == committed = {}                      \* the funding UTXO is unspent
Spends(b, c) == b = c /\ c \in committed        \* the commit output is locked to the batch's key

\* A broadcast that the network takes; its answer may be lost.
ChunkCommits(heard) ==
    /\ job.at = "commit" /\ Takes(job.batch)
    /\ committed' = committed \cup {job.batch}
    /\ IF heard THEN JobAt("reveal") ELSE EndJob
    /\ UNCHANGED <<batchStep, pkg, results, uploads, runPage, built, batchSummary, revealed>>

\* Show the summary of what was sent.
Finish(items) ==
    /\ results' = items
    /\ batchStep' = 2
    /\ polling' = FALSE
    /\ Remounted
    /\ EndJob

ChunkReveals(heard) ==
    /\ job.at = "reveal" /\ Spends(job.batch, job.batch)
    /\ revealed' = revealed \cup {Reveal(job.batch, FALSE)}
    /\ LET done == job.done \cup {[commit |-> job.batch, reveal |-> Reveal(job.batch, FALSE)]}
       IN  \/ ~heard /\ EndJob /\ UNCHANGED <<batchStep, results, polling, runPage, built>>
           \/ /\ heard /\ job.chunk = job.chunks
              /\ Finish(done)
              /\ UNCHANGED built
           \/ /\ heard /\ job.chunk < job.chunks
              /\ ChunkPrepared(done)
              /\ UNCHANGED <<batchStep, results, polling, runPage>>
    /\ UNCHANGED <<pkg, uploads, extra, extras, committed>>

CancelReview ==
    /\ RunIdle /\ awaiting
    /\ awaiting' = FALSE
    /\ UNCHANGED <<batchStep, pkg, results, uploads, job, issues, prepared, commitHex, commitTxid,
                   built, batchSummary, batchNetwork>>

BackToUpload ==
    /\ RunIdle
    /\ batchStep' = 0
    /\ Remounted
    /\ UNCHANGED <<pkg, results, uploads, job, built, batchSummary, batchNetwork>>

(***************************************************************************)
(* Confirm: commit, unless its txid is known, and reveal, once more at a   *)
(* higher fee when the node will not replace an earlier one.               *)
(***************************************************************************)
Confirm ==
    /\ RunIdle /\ awaiting /\ ~issues /\ commitHex # 0
    /\ JobAt(IF commitTxid = 0 THEN "send" ELSE "open")
    /\ UNCHANGED <<batchStep, pkg, results, uploads, runPage, built, batchSummary, batchNetwork>>

ConfirmCommits(heard) ==
    /\ job.at = "send" /\ Takes(commitHex)
    /\ committed' = committed \cup {commitHex}
    /\ IF heard THEN commitTxid' = commitHex /\ JobAt("open") ELSE EndJob /\ UNCHANGED commitTxid
    /\ UNCHANGED <<batchStep, pkg, results, uploads, awaiting, issues, prepared, commitHex, built,
                   batchSummary, revealed>>

ConfirmReveals(heard) ==
    LET r == Reveal(prepared, job.at = "bump") IN
    /\ job.at \in {"open", "bump"} /\ Spends(prepared, commitTxid) /\ r \notin revealed
    /\ job.at = "bump" \/ Reveal(prepared, TRUE) \notin revealed
    /\ revealed' = revealed \cup {r}
    /\ IF heard
       THEN Finish({[commit |-> commitTxid, reveal |-> r]})
       ELSE EndJob /\ UNCHANGED <<batchStep, results, polling, runPage>>
    /\ UNCHANGED <<pkg, uploads, built, extra, extras, committed>>

\* "insufficient fee, rejecting replacement": a reveal that pays to an address
\* the wallet had before is in the mempool.
RevealNotReplaced ==
    /\ job.at = "open" /\ Reveal(prepared, FALSE) \in revealed
    /\ JobAt("bump")
    /\ UNCHANGED <<batchStep, pkg, results, uploads, runPage, built, batchSummary, batchNetwork>>

\* (mutant of ConfirmFails) the last refusal is swallowed, and the batch counts as completed
ConfirmGoesOn ==
    /\ job.at \in {"open", "bump"}
    /\ Finish({[commit |-> commitTxid, reveal |-> Reveal(prepared, job.at = "bump")]})
    /\ UNCHANGED <<pkg, uploads, built, extra, extras, batchNetwork>>

\* Any other refusal, or no answer: the review stays open for another try.
ConfirmFails == job.at \in {"send", "open", "bump"} /\ RunEnds

(***************************************************************************)
(* Summary.  The items carry ids of the form commit:index, which the API   *)
(* does not know: every acceptCommit after a commit fails, and a refresh   *)
(* leaves the items as they were.                                          *)
(***************************************************************************)
\* handleBuildSignCombinedCommit: keys for the reveals are generated and
\* dropped; handleRunAllWithSatpoints: one commit per item, and the failing
\* acceptCommit keeps its reveal from being sent.
ExtraStart(kind) ==
    /\ batchStep = 2 /\ extra = "off" /\ ~polling /\ extras < MaxExtras
    /\ kind = IF pkg \in Pinned THEN "satpoints" ELSE "combined"
    /\ extra' = kind
    /\ UNCHANGED <<batchStep, pkg, results, uploads, job, runPage, built, polling, extras,
                   batchNetwork>>

\* A satpoint run goes on with the next item whatever became of this one.
ExtraSent ==
    /\ extra # "off" /\ extras < MaxExtras
    /\ extras' = extras + 1
    /\ extra' \in IF extra = "satpoints" THEN {"off", "satpoints"} ELSE {"off"}
    /\ UNCHANGED <<batchStep, pkg, results, uploads, job, runPage, built, polling, batchNetwork>>

\* No file, no coins, no signature, or a commit refused also at a higher fee.
ExtraEnds ==
    /\ extra # "off"
    /\ extra' = "off"
    /\ UNCHANGED <<batchStep, pkg, results, uploads, job, runPage, built, polling, extras,
                   batchNetwork>>

RefreshItems ==
    /\ polling \/ batchStep = 2
    /\ polling' = ~polling
    /\ UNCHANGED <<batchStep, pkg, results, uploads, job, runPage, built, extra, extras,
                   batchNetwork>>

BatchNext ==
    \/ \E p \in Packages : Upload(p) \/ UploadRead(p) \/ UploadFails(p)
    \/ UploadNext
    \/ StartRun \/ RebuildWithFee \/ FilesRead \/ \E m \in BOOLEAN : SatsResolved(m)
    \/ \E s \in BOOLEAN : SingleBuilt(s)
    \/ \E n \in 1..2 : SplitBuilt(n)
    \/ RunFails \/ CommitSigned
    \/ \E h \in BOOLEAN : ChunkCommits(h) \/ ChunkReveals(h)
    \/ CancelReview \/ BackToUpload \/ Confirm
    \/ \E h \in BOOLEAN : ConfirmCommits(h) \/ ConfirmReveals(h)
    \/ RevealNotReplaced \/ ConfirmFails
    \/ \E k \in {"combined", "satpoints"} : ExtraStart(k)
    \/ ExtraSent \/ ExtraEnds \/ RefreshItems

BatchSpec == BatchInit /\ [][BatchNext]_batchVars

-----------------------------------------------------------------------------
BatchTypeOK ==
    /\ batchStep \in 0..2 /\ pkg \in Packages \cup {NoPackage} /\ uploads \subseteq Packages
    /\ results \subseteq [commit : Batches, reveal : Reveals]
    /\ job.at \in {"off", "files", "sats", "utxos", "sign", "commit", "reveal",
                   "send", "open", "bump"}
    /\ job.batch \in 0..built /\ job.chunk \in 0..2 /\ job.chunks \in 0..2
    /\ awaiting \in BOOLEAN /\ issues \in BOOLEAN /\ polling \in BOOLEAN
    /\ {prepared, commitHex, commitTxid} \subseteq 0..built /\ built \in 0..MaxBatches
    /\ extra \in {"off", "combined", "satpoints"} /\ extras \in 0..MaxExtras
    /\ committed \subseteq Batches /\ revealed \subseteq Reveals

\* What the user reviews and confirms is the batch that was prepared and signed
\* last, whatever runs failed, were cancelled or rebuilt before: the keys of the
\* reveal and the commit it would be sent with belong together
\* (BatchRunStep.tsx:344, 383, 402, 525).
ReviewedIsSent == awaiting => prepared = commitHex /\ prepared = built

\* What the summary calls completed is on the network: its commit was accepted,
\* and so was the reveal it names, which spends that commit with the key it is
\* locked to, after any refusals, retries and lost answers; and what is under review
\* is what would be sent (BatchRunStep.tsx:494-506, 552-575).
CompletedWasAccepted ==
    /\ ReviewedIsSent
    /\ \A item \in results :
          /\ item.commit \in committed /\ item.reveal \in revealed
          /\ item.reveal.batch = item.commit

\* Expected to fail.  What the "Cancel" and "Start" buttons offer is safe: a
\* commit that is out is never combined with another batch's reveal.  A new run
\* replaces the batch and keeps commitTxidRef, so that its own commit is never
\* sent and its reveal spends a commit it has no key for (BatchRunStep.tsx:529).
RevealsOwnCommit == job.at = "open" => prepared = commitTxid
=============================================================================
