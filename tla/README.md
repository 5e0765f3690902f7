# Ordinals Plus: formal models

TLA+ models of the stateful parts of Ordinals Plus, checked with TLC and, for the
results that matter most, proved with TLAPS. Every definition is translated from the
TypeScript under `src/`; `PROJECT.json` maps each one to the lines it stands for.

    tlc -workers 2 -config IndexerReplicas.cfg MCIndexerWorkers.tla
    tlapm IndexerWorkersProofs.tla

## 1. The system

Ordinals Plus is a monorepo of four packages.

| Part | State it keeps | Operations | Who shares it |
|---|---|---|---|
| **Indexer** (`packages/ordinals-plus-indexer`), any number of replicas | Redis: cursor, claims, indexed set, resource lists, errors, statistics; a block loop its height in memory | claim a batch, process, complete, sweep; or follow blocks; scripts that add one inscription or clear Redis | replicas and scripts share one Redis and nothing else |
| **Transaction library** (`packages/ordinalsplus/src/transactions`) | tracker entries; bookkeeping of broadcasts; watches, timers; the amounts of a commit and its reveal | broadcast, cancel; watch, unwatch, check; build, sign, bump | broadcaster, confirmation service and orchestrator call one tracker |
| **Indexer client** (`packages/ordinalsplus/src/indexer`) | breaker state (module-global), dead letter queue, database, cache | get an inscription or its metadata, search, sync | all clients of a process share the breaker of a service key |
| **Keys, credentials, audit** (`.../key-management`, `vc`, `utils/audit-logger.ts`) | keys with aliases, plain or encrypted; hash-chained log files | generate, rotate, revoke, change password; issue, verify; log, rotate, verify | operations of one process over one storage or log |
| **DIDs and resources** (`.../did`, `resources`) | documents in memory; the inscriptions of a sat; crawls | resolve, update, rotate; list from either end | providers answer from a chain that grows |
| **API** (`packages/ordinals-plus-api`) | in-memory collections, credentials, inscription records, verification cache | create, edit, issue, revoke; start, prepare, commit, reveal; verify; list, look up | requests of one process over the same maps; it reads the Redis that the indexer writes |
| **Explorer** (`packages/ordinals-plus-explorer`) | state of the mounted page, browser storage | wizard of five pages, batches, wallet, DIDs, credentials, collections, lists | calls the API; pages share a reducer or browser storage |

What is hard, by part:

* *Indexer*: replicas interleave between any two Redis calls; replicas delete each other's
  claims; the cursor moves forwards and backwards; a process may die, be stopped, or lose the
  answer of a call that took effect; the provider may miss, fail or be ahead of the claims. A
  block loop persists nothing, and reads lists of a sat that grow behind its cache.
* *Transactions*: three awaits per POST, cancellation at any of them; checks that work for a
  watch that is gone or replaced; several chains of timers on one watch; a chain that
  reorganises between a check and the next; fees refused after the commit is out.
* *Client*: retries nested in retries, each behind the same breaker; calls admitted under one
  state of the breaker that come back under another; syncs that overlap.
* *API and library services*: each operation reads, awaits, and writes what it made of what it
  read. Objects handed out by in-memory stores are shared with those who got them earlier.
* *Explorer*: an await started on one page is answered on another, or after a reload; answers come
  in another order than their questions, and nothing cancels one that is no longer wanted.

What makes each part correct is stated by the properties of section 3; `PROJECT.json` lists the
places in the code where they can go wrong (`hazards`).

## 2. Modules

| Module | Models | Runs in |
|---|---|---|
| `IndexerWorkers` | `ScalableIndexerWorker` and `ResourceStorage` in batch mode | `MCIndexerWorkers` |
| `IndexLedger` | what the indexer promises a reader of Redis (abstract specification) | instantiated as `Ledger` by `IndexerWorkers` and `BlockTail` |
| `IndexStore` | the Redis keys of the block modes, and the scripts that write them | `BlockTail` |
| `BlockTail` | tail, reverse and one-shot block loops with the analyser and its caches | `MCBlockTail` |
| `TxTracker` | `TransactionStatusTracker`, and the chain the others face | `TxLifecycle` |
| `TxBroadcast`, `TxConfirmation` | `TransactionBroadcaster`; `TransactionConfirmationService` | `TxLifecycle` |
| `TxLifecycle` | both over one tracker and one chain, with the orchestrator's entries | `MCTxLifecycle` |
| `IndexerClient` | `CircuitBreaker`, `withRetry`, `ErrorHandler.handle`, three operations of `OrdinalsIndexer` | `MCIndexerClient` |
| `CollectionCredentials` | collections with their indexes and backups, and `CollectionCredentialService` over them and `CredentialRepository` | `MCApiServices` |
| `CollectionInscriptions` | `CollectionInscriptionService`, which drives a stub of an orchestrator | `MCApiServices` |
| `ResourceInscriptions` | `ResourceInscriptionService` and its controller | `MCApiServices` |
| `Verification` | `VerificationService` with its caches, `VCService` | `MCApiServices` |
| `ApiClient` | `createFetchClient`, `createResilientClient` and the breakers of `VCService` | `MCApiServices` |
| `ResourceListing` | the paged list of resources, from Redis through `resourceManager` to `DidExplorer` | `MCApiServices` |
| `KeyManagement` | `KeyManager` over plain and encrypted storage; what the kind of a key decides | `MCLibraryServices` |
| `AuditLog` | `AuditLogger` and its files | `MCLibraryServices` |
| `ClientSync` | the operations of `OrdinalsIndexer` that fill its database | `MCLibraryServices` |
| `ClientCaches` | `MemoryCache` under `CacheManager` | `MCLibraryServices` |
| `TxConstruction` | the amounts of commits, reveals and payments | `MCLibraryServices` |
| `DidResolution`, `DidDocuments` | resolving a DID; changing its document | `MCLibraryServices` |
| `ResourceCrawl` | listing resources from either end; `ResourceResolver` | `MCLibraryServices` |
| `ErrorRecovery` | error codes, retries and tracker entries of a reveal's construction; the dead letter queue | `MCLibraryServices` |
| `ProviderQueries` | questions to a provider about outputs, addresses and inscriptions while blocks come | `MCLibraryServices` |
| `InscriptionWizard` | the explorer's wizard with the library call behind it | `MCExplorerServices` |
| `BatchFlow` | the explorer's batch inscription | `MCExplorerServices` |
| `ExplorerWallet` | the wallet hook, the network context, the page of UTXOs | `MCExplorerServices` |
| `DidPage` | the page of a DID, its cards and their verification, the lists of linked resources | `MCExplorerServices` |
| `VcExchange` | VC API providers from the API's environment to the settings and the metadata page | `MCExplorerServices` |
| `InscriptionContents` | content page, types, what is accepted, and the keys of the commit address | `MCExplorerServices` |
| `CollectionPages` | the form, list, gallery and verification of collections | `MCExplorerServices` |

`MCIndexerWorkers`, `MCBlockTail`, `MCTxLifecycle` and `MCIndexerClient` only give constants their
values. Operators marked *(mutant of X)* are the mutations of X used to show that a property depends
on the code: with X replaced by the mutant, TLC violates the property.

`MCApiServices`, `MCLibraryServices` and `MCExplorerServices` put six, eleven and seven parts that share
no state into one specification: the variable `part` is chosen at the start, and only that part moves.
Their behaviours are those of the parts, one after the other; nothing is claimed of a product that the
code does not have. Each part has a specification of its own (`AuditSpec`, `WizardSpec`, ...), and that
is what the theorems are about.

The proofs are in seven modules: `IndexerWorkersProofs`, `BlockTailProofs`, `TxLifecycleProofs` (with
broadcaster, confirmation service and tracker), `IndexerClientProofs`, and by package `LibraryProofs`,
`ApiProofs` and `ExplorerProofs`, with one section for each part.

### IndexerWorkers

*Grain.* One action is one Redis call (a Lua script or a MULTI is one call) or one provider
answer; what the code does up to the next await belongs to the action before it. `pc[w]` names
the call replica `w` makes next:

    off -> (init) -> idle -> work -> complete -> keys -> sweep -> idle
                               \--> release -> clear -> clearDel -> latest -> reset -> idle

| Variable | Code |
|---|---|
| `cursor`, `claims`, `indexed`, `errored` | `indexer:cursor`, `indexer:claim:*`, `indexed:inscriptions`, `indexer:error:*` |
| `copies` | how often the MULTI of a store ran for a number: list entries and statistics |
| `batch`, `found`, `failed`, `missing` | the claim in hand and the results of `processBatchParallel` |
| `checked` | numbers between `sIsMember` and the MULTI |
| `target`, `scan`, `doomed` | the cursor about to be written; the KEYS a sweep or a clearing works through |
| `givenUp` | history: numbers somebody stopped being responsible for |

Inscriptions are identified with their numbers. Ordinals Plus resources and others are stored by
the same control flow (test, then one MULTI) and are not told apart. Failures: a call that throws
(`CallThrows`), one that took effect although its answer is lost (`ClaimUnheard`, `StoreUnheard`,
half of `LoopError`), an analysis that fails, a search of the tip that is answered wrongly
(`LatestNumbers`), failing sweeps and clearings (`CleanupError`), crashes, `stop()` beside a
running loop. The comparison in `cleanupExpiredClaims` mixes seconds and milliseconds; it is
modelled as it is (`LooksExpired`), so claims of live replicas do get deleted in every run.

The worker loop runs when `BLOCK_TAIL_MODE=false` (`npm run start:forward`).
`START_FROM_CURRENT`, the migration of claims in an old format, and the statistics keys are left
out. Exactly one loop iteration of `getLatestInscriptionNumber`'s search is one action, because it
only reads.

### IndexStore and BlockTail

`IndexStore` has the keys all block modes share and the two scripts that write them without
asking: `manual-index` (key by key, with a resource id of its own) and `reset-index` (pattern by
pattern, and it may stop in between). Neither looks for a live indexer, so both run beside processes
in any state, and processes start beside them. Two histories say what a reset did: `wiped` is what it
deleted an entry of, `torn` what may be a member of `indexed:inscriptions` and in no list: stored
while the reset was between the members and the lists, kept as a member because that deletion failed
and the one of the lists did not, or described by `manual-index` after a reset took the id. The chain
is a constant sequence of blocks; `height` is its tip, and `OnSat` the list of a sat as the provider
gives it at that height.

In `BlockTail` a process takes a block from `next` (`FetchBlock`). If the answer carries no list of
inscriptions it asks `getBlockInscriptions` for one (`ListBlock`), which answers an empty list to
every error (`ListFails`): the code then counts the block as processed, `unread` is the history of
those blocks, and `done` has those whose list was read. A process works through `todo`, and per
inscription asks the provider, looks up the sat's list (`satCache`, an hour old at most), tests,
stores, or reports an error. `lost` is the history of inscriptions that a caught error gave up.
Restarts empty what a process holds: `FirstHeight` is where the tail loop begins again.

### Transactions

`TxTracker` gives each tracker call as an operator from tracker to tracker, so that a handler that
makes several is one action. Broadcasts are tracked under an id of their own (`Ids`), orchestrated
transactions and watches under the txid: both are keys of one map, as in the code, and
`setTransactionStatus` on a key without an entry does nothing.

`TxBroadcast.phase[t]` is what `broadcastWithRetry` awaits: `headers` of a POST (bounded by the
abort timer), `body` (bounded by nothing: the timer is cleared), `backoff`. `PostFails` may leave
the transaction in the mempool; `HeadersArrive(t, FALSE)` is any error status. `Cancel` does
exactly what `cancelBroadcast` does. `posts` is a history of POSTs.

`TxConfirmation` numbers watches, so that a check can belong to an older watch than the one in the
map (`chains[c].watch`). Each watch and each forced sweep owns a chain: `timer -> asked -> answered
-> timer ...`. Calls that find nothing to do (`watchTransaction` of a watched txid, `cancelBroadcast`
of a settled one that is not PENDING) are left out since they change nothing. The status of a transaction and the
height of the tip are read by two requests and modelled as one; five blocks between the two are
left out. `depth` is 0, 1 or 6: only these are told apart.

`TxConstruction` follows one inscription from its plan to the reveal that the node accepts, with
the amounts the code computes at each `stage`; the formulas for sizes and fees are the code's, and
`Vsize` is the size of a signed reveal. Bumps of a refused reveal are rebuilt as the code does.

### IndexerClient, ClientSync, ClientCaches

`at[t][o]` is where handle `o` of call `t` stands; `attempt` and `settled` are microtasks of the
current turn of the event loop, during which nothing else happens (`Quiet`). Errors are raw
(`network`, `busy` for a status such as 503, `notFound`) until `handle` transforms them, and
`Transformed` shows what `transformError` makes of each: an error with a status has no
`isNetworkError` and ends as the generic, non-transient error. The failure count is followed up to
its threshold, and time only as `cooled`: `resetTimeout` has passed since the last counted
failure. `trials` belongs to the handler, the rest of the breaker to the service key, as in the
code.

`ClientSync` has the database with and without its time to live: inscriptions and credentials by
inscription, documents by DID, so that the document of a second inscription on a satoshi takes the
place of the first one's. An operation is its place between two awaits with what it has read. `ClientCaches` keeps `metrics` beside the entries they count.

### API services

An operation of `CollectionCredentials` reads a collection, awaits a service that signs or
revokes, and writes what it made of what it had read; the indexes of the collections are one
relation from the values of its fields to ids, taken apart by what was read. `CollectionInscriptions`
runs the background work of several records. The service drives a stub (lines 24 to 32) that sends
nothing, never fails, and answers every workflow with the same made-up ids; so a workflow is what it
writes into its record, and what comes in at its awaits: cancellations that were allowed earlier, and
the deletion of the collection. `ResourceInscriptions` numbers key pairs: `address` is what the client
was told to pay to, `secret` what its reveal will be signed with. `Verification` stamps entries with
the time of their last caching and the time of the checks they repeat (`origin`).

`ApiClient` has the two breakers a request of `VCService` may pass: the service's own, around
each operation, and the one `createResilientClient` puts around `client.request`. `get` and
`post` are closed over the request before it was replaced, so they pass the first only; both
ways are modelled. `stage[f]` is what request `f` awaits, a fetch, its body, a pause, and
`timer[b]` is when the breaker's reset timer is due.

### Library services

`KeyManagement` names a stored object by its key and the store that made it, because the in-memory
storage hands out the object it holds. `AuditLog` represents a hash by the events it was computed
over, so that verification is equality of what is hashed; `noisy` collects the circumstances
`QuietLogVerifies` excepts. `DidResolution` tells three contents of an inscription apart: a document
with its key, the deactivation mark, anything else. `DidDocuments` keeps the lists apart from the
documents that name them, because copies are shallow; an id made from the time names a millisecond, and
two rotations within one choose the same (`rushed` is the history of that). `ResourceCrawl` numbers
inscriptions.

`KeyManagement` lets a signature be made with the object that was looked up before the curve's module
was awaited, and has it verified under the name it was made with; which public key, address, DID and
scheme a kind of key has are functions beside the state.

`ProviderQueries` has one `question` at a time, with what is still to be asked (`todo`) and what was
answered (`got`), over `blocks` that spend outputs and inscribe between two requests; `span` keeps
what was true at some time, and all the time, since the question was put. An answer about an output may
come without a list of inscriptions (`BareOutputRead`); the code takes that for none, so such an output
is offered whatever it holds (`bare`).

### ResourceListing

Redis is the set `rids` and the `hashes`, which the indexer writes together and its scripts apart
(`half`, `resetting`). A request of the page reads both several times (`request[r].at`); `steady[r]`
is the history of what was listed ever since `r` began, the only thing a list can be held to while
others write. The page's state is what `DidExplorer` keeps, late answers included.

### The explorer

In the wizard the reducer's fields are variables; an attempt (one click on "Create Inscription") stands for its
key and its two transactions. What awaits (`looking`, `reading`, `exchanging`, `checks`, `phase`)
survives the page that started it, and is answered on whatever page is shown.

`BatchFlow` has the three pages of a batch. A batch is one preparation: its reveal key, the
package and the fee it was prepared with. What the page holds for the next click (the refs of
`BatchRunStep`) is apart from what was sent and what the node took, so that a repeated or lost step
shows. `ExplorerWallet` keeps what each open question was asked for (the wallet and network of the
render that asked) beside the state its answer is written to. UniSat's own network is state
(`unisatNet`): its user may switch it at any time, which tells the page nothing, as no effect listens;
`span` is the history of the networks it was on since it was first asked, and any of them may be the
answer. `App` and `main` mount the contexts in
different orders, and the order of `App` is the one modelled.

`DidPage`: a lookup, a load of linked resources and the verification of a card are open questions
that carry what they were asked for; whatever page is mounted by then gets the answer. `VcExchange`: `kept` is the browser's
storage, `environment` what the API was started with; `runs` are exchanges, each at one of its awaits,
and go on when the page is left. `InscriptionContents`: a content is an item in a form (text, bytes,
data URL, and JSON spelled anew by `prepareContent`), since only these are told apart by what handles it;
each has a size of its own, and only the first three are measured. A file with nothing in it (`Blank`)
has a data URL that is not recognised, and stays one. `CollectionPages`: one page at a time,
whose state is forgotten when it is left; `sent` is the history of what was sent, from which form and
step, and `departures` the timers that are still to open a page.

`ErrorRecovery`'s tables are those of the code, checked against each other by assumptions; a moment
stands for a millisecond, because entries of the tracker are named by it.

## 3. What is checked

All runs end with no error unless said otherwise. `PROJECT.json` names each run's properties; the
comment above a property says what it means for the code.

| Run | Instance | Shows |
|---|---|---|
| `IndexerReplicas` | 2 replicas, batches of 2, tip 4, no faults, fair | claims never overlap; everything is recorded in the end; no deadlock |
| `IndexerExits` | 2 replicas, batches of 2, tip 2, one exit, one hour, Redis faults | `CopiesBounded`; `PassedIsAccounted`: a number behind the cursor is recorded, in flight, or given up in one of five named ways |
| `IndexerSparse` | 1 replica, batches of 6, tip 2 to 3, provider and analysis fail at will | the replicas implement `IndexLedger` (`LedgerSpec`) |
| `BlockTail` | 3 processes (tail, reverse, one-shot), three blocks with one, none and two inscriptions, all on one sat, lookback 2, 2 starts, 1 fault, 1 script, beside live processes | `BlockDoneIsAccounted`: each inscription of a block whose list was read is stored, reported, lost in a named way or wiped by a reset; `TailLeavesNoGap`: every height passed was read, or its list could not be, but after an outage; `IndexedIsListed`: what counts as indexed is listed unless a reset tore it, under the id of its position unless a stale list was used; `LedgerSpec` |
| `TxLifecycle` | 1 broadcast to 2 nodes, 1 txid, 2 watches, 1 forced sweep, 1 reorganisation or eviction | `WatchedIsPolled`, `FinalizedOncePerWatch`, `BroadcastConfirmedIsFinal` |
| `TxProgress` | 1 broadcast to 2 nodes, 2 txids, a toggle, cancellation, fair | `BookkeepingMatches`: what the broadcaster shows as running runs, and what it reports as rejected was put to every node of its plan in every round; every broadcast settles |
| `IndexerClient` | 2 calls, 2 handlers, 1 retry, threshold 2, 2 trials | `DeadLettersMatchOutcome`, `OpenUntilTimeout` |
| `ClientRecovers` | 2 calls, 1 handler, metadata only, fair | when faults stop, the breaker closes for good (`BreakerCloses`) |
| `ExplorerServices` | seven parts, see below | what the wizard shows as confirming is on the chain; what is shown of a batch as complete was accepted, as reviewed; the network settles on one that the wallet was on since it was asked; `ComparedWithOwnSat`; `ExchangeIsOfItsForm`; `InscribedAsPrepared`; `PickedIsKept` |
| `ApiServices` | six parts: 2 or 3 overlapping requests on 1 or 2 records, 1 or 2 time-outs; a list of 3 ids under 2 requests | the index of collections is complete and a deleted one stays deleted; the record of an inscription tells what its workflow did (`RecordsTell`); cached answers are recent; an open breaker has a timer; a list shows what stayed listed (`ListsWhatStays`) |
| `LibraryServices` | eleven parts: 2 tasks, 2 keys or sats, up to 4 stores, 3 heights or days; 3 outputs, 2 inscriptions, 2 transactions | a revocation outlives a rotation and stops signatures begun after it; a quiet log verifies; a synced height means stored inscriptions, documents and credentials; amounts add up; the cache's books balance; a rotated key is refused; a crawl hands out what it fetched; documents refer to methods they have; builds that ended are marked so; answers were true at some time of their question (`AnswersWereTrue`) |

The parts of `ExplorerServices`:

| Part | Instance | Shows |
|---|---|---|
| wizard | 2 attempts, 1 await of each kind, 1 reload | `ConfirmingIsOnChain` |
| batch | 2 packages, 3 batches, 1 extra commit | `CompletedWasAccepted` |
| wallet | 3 wallets, 2 networks, 1 update | `NetworkSettles` |
| did | 3 DIDs on 2 sats, 2 moves, 2 loads | no card calls a credential one about its satoshi that is about another (`ComparedWithOwnSat`) |
| vc | 2 slots, environments with both and with none, 2 exchanges, 1 restart, 3 visits | credential, provider, exchange and variables that the wizard keeps are of one form (`ExchangeIsOfItsForm`) |
| contents | two JSON texts, one of them longer once spelled anew, and one that is none; files: a JPEG, an empty PNG, a text that is not JSON, an oversized one of unknown type; 3 types offered, 1 order, 1 read | what is inscribed is what the click was made for, within the size in the form that was measured (`InscribedAsPrepared`) |
| collections | 1 required text (the code checks both alike), 2 inscriptions to pick, 3 collections, 1 per page, 2 sent, 3 requests of the list | a collection is sent as it was put together and the gallery shows what matches (`PickedIsKept`) |

One run is to be refuted, against a sentence of the repository: `IndexerCrashLoss`. The indexer's
README (line 21) says that expiring claims "handle worker failures"; in the trace the cursor has
passed the crashed batch, which is never indexed.

The other sentences the code contradicts need no run: `PROJECT.json` lists them under `findings`
with the line that says so and the line that does otherwise. Where a module states the sentence,
the definition's comment says "Expected to fail": `CompletionAdvancesCursor`, `CancelStops`,
`FailuresAreRetried`, `NotFoundIsNotCounted`, `CompletionIsInscribed`, `StoredIsReachable`,
`OnlyRevokedIsDetached`, `CommitKeyKept`, `ResolvesMostRecent`, `ResourceIdsUnique`,
`RevealsOwnCommit`, `XverseKeepsItsNetwork`, `NetworkFollowsWallet`, `SelectedIsStored`,
`ListedIsConnected`, `NetworkFollowsSwitch`, `ReturnedIsConfirming`, `ThrownIsTracked`,
`TerminalIsFinal`, `NewestDocumentHeld`, `FoundIsLive`, `HandedOutOnce`; of the block modes
`MembersListed` and `PassedBlocksAccounted`; of records of inscriptions `CancelledStays`,
`CompletedStays`, `InscriptionsDiffer` and `PendingGoesOn`; of the list of resources `GrowthHidesNothing`, `WayBack` and `ShowsWhatWasAsked` (which needs three requests); of the
page of a DID `ShowsItsDid`, `PageIsOfOneAnswer`, `ErrorOrDocument`, `ListIsTheOneAskedFor`; of
exchanges `IssuedBySelected`, `LastRunStands`, `SettingsShowSelected`, `KeptAreListed`; of providers
`HasIsTrue`, `LocationsAgree`, `NothingLeftOut`, `OfferedIsFree`; of contents `TypeIsOfFile`, `ImagesAreBytes`,
`ExplicitTypeKept`, `AddressesOpen`, `JsonIsJson`, `AcceptedIsInscribable`, `NothingOversizeMade`; of collections
`ReviewedBeforeSent`, `CreatedOnce`, `RefusalSeen`, `LeavesFromItsForm`, `ListShowsItsPage`,
`FilterAgreesWithCards`, `VerdictIsOfEntered`; of keys `RevokedNeverSigns`, `SignedVerifies`,
`KindsAreNamed`. TLC finds a counterexample to each under the configuration of its component's run.

*Why the bounds are enough.* Two replicas with batches of two and a tip of four give claims in
front of, around and beyond the tip, attempts that half overlap a claim, sweeps of a live claim,
an overshoot by either replica while the other works on each side of it; a third replica adds
no new pair of actions. `MaxNumber` bounds the last number of a batch: it is never reached in
`IndexerReplicas` and `IndexerCrashLoss`, where overshoot turns the replicas back; in
`IndexerExits` and `IndexerSparse` it does stop claims. Six numbers per batch are the fewest
for which a batch can fail above 80% without failing altogether. In `BlockTail` a second start after
two blocks of outage is the shortest that leaves the lookback, a sat inscribed twice in a block after
one that inscribed it before gives every list that can be stale, and one fault is either the list that
cannot be read or a deletion that fails. One script lets a reset run beside processes, but not
`manual-index` beside a reset; the proofs have any number of both. In the transactions one round of
retries and two nodes reach every transition of the broadcast loop, two watches of one txid the
stale checks, one forced sweep the parallel chains. Two calls over a client let one be admitted, wait and
return while the other moves the breaker through all its states; a threshold of two tells counting
from resetting. In the services two overlapping requests put every step of one between any two
steps of the other; the bounds on calls, stores and starts are one or two above the number the
longest scenario needs (revoke between the reads and writes of a rotation, restart after a
rotation of the log). In the crawl pages of three and five inscriptions, made one after the other, let
one appear between two pages of a crawl from the newest, which shifts what is still to come:
`HandedOutOnce` fails there. One expiry is enough for a sync whose database forgets, two milliseconds
for rotations within one and in different ones.

*Deadlock.* It is checked in `IndexerReplicas`, `IndexerClient` and `ClientRecovers`. In the other
runs the system rightly stops: a bound stops the claims, transactions settle, requests are used up.

*Symmetry* (of replicas, or of the requests, keys and ids nobody orders) is used in
`IndexerExits`, `ApiServices` and `LibraryServices`, where no liveness is checked.

*Fairness.* Indexer: weak fairness of `Step(w)` for each replica: every await of its loop is
answered, and the loop only sleeps for fixed times. No fairness for faults, the chain or the
clock. Transactions: weak fairness of a broadcast's steps and of each chain: timers fire,
requests are answered and bodies arrive. The last point is an assumption about the nodes: the
code bounds the headers only. Nothing makes the caller or the chain act. Client: strong fairness
of each call's steps, of the reset timer and of the application calling again: requests settle
(the client aborts them), and strong because a step waits while another call's turn lasts. The
other runs check safety only.

## 4. What is proved

The theorems hold for every value of the constants that satisfies the named assumptions. Those say
no more than the code gives: bounds, sizes and prices are natural numbers; batches, pages,
thresholds and retention are not zero; sets of processes, nodes, coins, outputs and collections are
finite; an order of the gallery gives no two collections one place, as sorting does not
(`CollectionPagesAssumption`); the value that stands for "nothing" is not an element (`NoCoin \notin
Coins`); the keys of two maps that share a store differ (`KeysAssumption`); no inscription is twice
in the chain (`ChainAssumption`); a transaction with one output more is at least 31 vbytes longer
(`ConstructionAssumption`); the clock is past January 1970 (`EpochAssumption`, needed for nothing
but the meaning of `LooksExpired`). TLC evaluates every one of them for the constants of the runs.

Every proof has the same outline: an inductive invariant; a lemma that the initial states satisfy
it; a lemma for each group of actions; the theorem, by `PTL`. Where an action works on a list or a
set, a lemma says first what the operator does. The predicates that a step must keep are
parameterised by the values they speak of (`BreakerFits(c)`, `JobFits(j)`), so that the same lemma
serves the state before and after.

| Theorem | Argument |
|---|---|
| `IndexerWorkersProofs!TypeCorrect` | one lemma per group of actions; the work is in the intervals of the claim script (`AttemptTyped`, `MakeClaimTyped`) |
| `ClaimsNeverOverlap` | `ClaimsDisjoint` is inductive once typed: only the script adds a claim (`OnlyTheScriptAddsClaims`), and it removes its owner's and tests all others (`MakeClaimKeepsDisjoint`) |
| `ImplementsLedger` | every step is a step of the ledger or leaves its variables alone (`RecordingSteps`) |
| `CopiesNeverExceedReplicas` | `CopiesInv`: the copies of a number plus the replicas between test and store of it are at most the replicas; after the first MULTI no replica enters (needs cardinality lemmas) |
| `NothingLostSilently` | see below |
| `IndexerClientProofs!TypeCorrect` | needs `BackoffCounted`: an operation in back-off has a retry left |
| `ClosedIsBelowThreshold`, `OpensOnlyAfterTimeout` | every step changes the breaker by one of its three operations or not at all (`EveryBreakerStep`); each is judged once |
| `LettersMatchOutcomes` | `LettersInv`: of the three nested operations of a call at most one is at work, those around it wait in their handler, and letters are there only once the work has ended, on the way out; so each operation meets the list without a letter of its own |
| `BlockTailProofs!TypeCorrect`, `BlocksAccounted`, `NoGap`, `MembersAreListed`, `ImplementsLedger` | one invariant, `TailInv`, see below |
| `TxLifecycleProofs!TypeCorrect`, `BooksTrue`, `WatchedPolled`, `FinalizedOnce`, `ConfirmedFinal` | one invariant of the three services, `LifecycleInv`, see below |
| `ApiProofs!ClientTypeCorrect`, `OpenAlwaysHasTimer`, `TrialsAlwaysWait` | `ClientInv`: types, a `Sound` clause per breaker (a timer runs exactly when it is open, the last failure lies in the past, the timer is due no later than `ResetTimeout` after it) and what a request in a stage has behind it (`CallsSound`); every step leaves each breaker sound |
| `CollectionsTypeCorrect`, `CollectionsIndexed`, `DeletedIsGone`, `CuratorsIssue` | `CollectionsInv`: what each call has read and what it is about to write (`CallHolds`); a collection that is found by id has the entries of every field. `Curated` adds that a credential named by any copy, stored, held by a call or in a file, was issued for that collection by its curator |
| `AnswersListWhatStays` | `ListingInv`: while something stays listed the three counts of a request only grow; the ids still to be found and those found are no more than were counted and have among them what stays; hashes are told apart by their times, so the sorted list exists and names all (`SortedIdsAreAll`), and nothing is cut off it (`NothingIsCutOff`) |
| `InscriptionsTypeCorrect`, `RecordsAlwaysTell` | `RecordsInv`: each record fits the place of its workflow and the collections that are left (`RecordFits`), however cancellations that were allowed earlier are noted late |
| `VerificationTypeCorrect`, `AnswersRecent` | `VerificationInv`: an entry of the cache was true at a time no further back than its stamp and the age of the check that wrote it; a check in flight knows since when |
| `LibraryProofs!SyncedStored` | `SyncInv`: what an operation has passed is stored, and what is before its cursor counts as passed (`OperationAhead`); else the next page could raise `synced` over a gap. A document once stored for a DID is replaced, never removed, until something expires (`ExtractedKeeps`) |
| `QuietLog` | `AuditInv`: while nothing overlapped or failed, the lines of a file verify and those in the buffer, in the pending write and in the rotated batch go on from its last hash |
| `CachesBalance` | `CachesInv`: the four counters and the size, and that every loop of the cache removes what it counts (cardinality lemmas) |
| `RotatedKeysRefused` | `ResolutionInv`: a call holds no more inscriptions than are on the sat, and since when it runs |
| `ReferencesStayLive` | `DocInv`: the references of the last document that was gone on from are ids of live methods of it; ids that the operations choose count the keys of that list (`Own`) or are times that no id has (`TimesApart`), unless the caller chose one or two rotations were in one millisecond, which the property excepts |
| `EndedAreMarked` | `ErrorInv` with `BuildMarked`: the entries of a build still at work are FAILED but for the last |
| `AnswersTrue` | `QueriesInv`: `span` holds what was true at some or at all times of the question, and the pages read lie in it; of outputs answered without a list only that they were unspent |
| `CrawlsAreComplete` | `CrawlInv`: what a crawl from the oldest has passed (`OldestFits`), and that what a crawl from the newest has not handed out is past its cursor, in the numbering of the pages of now (`NewestFits`) |
| `RevocationIsKept` | `KeyInv`: numbers of stored objects never repeat; an object that a manager or a call holds is no newer than the stored one, and has its mark if it is the same |
| `AmountsAlwaysBalance` | `ConstructionInv`: `CommitFits`, `RevealFits` and `PaymentFits` with the selection, the change and the sizes. The wallet's loop of selection is a fold over the coins, its sum a lemma on subsets (`TotalIsNat`, `TotalAdds`), by least counterexample. A bump keeps the fee that it adds to |
| `ExplorerProofs!NetworkAlwaysSettles` | `WalletInv` with `Settling`: if the network shown is none that the wallet was on since it was asked (`span`), a question is open |
| `ComparedRight` | `PageInv`: a lookup under way was asked for a DID that was shown; a card that was never disturbed compares with the satoshi of its own DID |
| `ExchangesOfTheirForm` | `VcInv`: what form, settings, run and metadata page keep is of one run (`FormFits`, `RunFits`, `MetadataFits`) |
| `CompletedAccepted` | `BatchInv`: the job's chunks are those of one batch (`JobFits`) and what is under review is what is sent |
| `InscribedIsPrepared` | `ContentsInv`: the inscription of an order fits the form it was placed from, and a finished order does not change; what was measured is the text that the compact form was made from |
| `PicksAreKept` | `PagesInv`: the draft's items are its ordered ones and distinct, over every toggle and move (`Only` keeps what it is told, by least counterexample), and what was sent was a draft that passed; the gallery's page begins before its last match, and as the places of the matches are all numbers up to their count (`PlacesAreTaken`, by injection), one match is on it |
| `ConfirmingOnChain` | `WizardInv`: an attempt that is at its reveal has had its commit accepted, and the transactions the page shows are of one attempt |

The type theorems of the parts of the library and the explorer (`SyncTypeCorrect`, …,
`WizardTypeCorrect`) are consequences of the same invariants.

**`PassedIsAccounted`** is not inductive: when `completeBatch` runs, it has to be known that all
numbers up to `target` are accounted for. The invariant is `AccountInv`, the conjunction of

* `ResultsRecorded`: what a replica holds as found or failed is in Redis;
* `BehindCursor`: the property itself;
* `BehindBatch`: all numbers before the batch in hand are accounted for, although the cursor may
  have moved since it was claimed;
* `BehindTarget`: the same for a cursor about to be written;
* `Claimed`: a claim lies in front of numbers that are accounted for, whoever owns it by now.

The heart is lemma `AccountedStays`: a number that is recorded, in flight or given up stays so in
every step of every replica, crash and stop included.

**`TailInv`** of the block modes: types (`StoreTyped`, `Local`); per process, where it is in its block
(`Placed`: all inscriptions before the one in hand are accounted for), what it has asked
(`Informed`) and that no height between its first and its next is missing from those passed
(`Gapless`); and for the store `BlockDoneIsAccounted`, `IdsTrue` and `TornOrListed`: a member is in
the lists, in the hands of the one process that is between the two writes, or torn. Nothing is assumed
of when a reset runs: what it deletes enters `wiped`, and whatever it may have left without a list
enters `torn` in the same step, which is what makes `TornOrListed` inductive.

**`LifecycleInv`** of the transactions joins what each service needs and what crosses between them:
the tracker's entries (`EntriesTrue`: a confirmed one is of a transaction that was seen at its final
depth), the broadcaster's loop (`BroadcastInv`: `LoopTyped`, and for each broadcast its `Place`,
`Counts` and `Markers`) and the confirmation service's watches (`ConfirmInv`). `FinalizedOnce` needs
most of the latter: checks are of watches that were begun (`ChecksOfWatches`), a watch whose end was
announced is over (`NotifiedIsOver`), a final answer that is still to be read stays final
(`FinalAnswersStand`), and what the history calls finalized was notified (`FinalizedIsNotified`).

**Refinement.** `IndexLedger` says what an indexer promises its readers. Both the batch mode
(`IndexerWorkersProofs!ImplementsLedger`) and the block modes (`BlockTailProofs!ImplementsLedger`) are
proved to implement it, with the refinement mappings of the modules' INSTANCE.

**Induction.** The theorems of the library that would do induction take an operator as a parameter and
cannot be used. Where one is needed the proofs take a least counterexample instead: the set of
numbers for which a statement fails has a smallest element (`LeastExists`, from the well-foundedness
of `<` on the naturals). Sums over sets, and that the sorted sequence which a CHOOSE names exists
(`PagesAreOrdered`, `DatesAreOrdered`), are done that way.

**Only model-checked.** Liveness (`EventuallyIndexed`, `BroadcastSettles`, `BreakerCloses`,
and `CrashedBatchRecovered`, which the code violates): fairness and ENABLED are out of the prover's reach.
Every safety property of the runs is proved. `TrialsAlwaysWait`, `ClosedIsBelowThreshold` and `CuratorsIssue` are proved and no properties of
runs.

## 5. What is not modelled

*For good:* encodings, scripts, cryptography and the parsing of addresses and identifiers (no state,
and nothing the properties tell apart); statistics, logging, progress events; handlers that only read
and answer; layout and wording of pages.

*The orchestrator's own steps.* Only tests of the library (`tests/integration/inscription-flow.test.ts`
and a performance test) drive `InscriptionOrchestrator`: the API carries a stub of it in one service and
skips it in the other, and the explorer calls the functions under it. Its entries in the tracker are in
`TxLifecycle`; the state that its workflows would share is not modelled.

*Narrow:* in `BatchFlow` all batches draw on one funding UTXO, so the network takes one commit of the page
and refuses the others (`Takes`); a wallet with several UTXOs that differ from batch to batch is left out.

*Code that nothing reaches at this commit:* the explorer's components and pages that no route or
mounted component uses (`*.new.tsx`, `DIDResourcesPage`, `ResourceManagementInterface`,
`DIDResourceUploadForm`, `DIDResourceManager`, `ResourcePreview`, `OrdinalResourceForm`,
`FeeEstimator`, `MetadataForm`, `TransactionRecoveryModal`, `CreateDidButton`, `ApiConfigForm`,
`LinkedResourceViewer`, the exchange page with its form), `OrdNodeService`, the users of
`ApiServiceProvider`, `verifyInscription`, `getIssuerInfo`, `verifyMetadataAsCredential` and
`clearCache` of the explorer's verification service, `DidExplorer.resolveDid`, the second half of
`TransactionStep` (from line 497 the code of an older flow), `contentPreparation.ts`, the saved states
of `error-recovery.ts`, `psbtService.ts`, `processBatchedInscription`, the batch operations of
`resourceInscriptionService.ts`, the look-ups by subject and issuer and the status check of
`vcService.ts` (so no list of revocations is ever consulted), and the `find` operations of
`credentialRepository.ts`.

*Pages that do not work:* the page of one collection reads a parameter its route does not have and
loads for ever; what it would show is left out.

*Left for later:* the delays with which the checks of `VerificationComponent` appear one by one; the
validation of request bodies by the API's routers; content and MIME handling of single resources in
the indexer client; the manual reset of a breaker and the re-processing of its dead letters; the
migration of claims in an old format.
