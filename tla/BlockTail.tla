------------------------------ MODULE BlockTail ------------------------------
(***************************************************************************)
(* The block modes of the indexer (packages/ordinals-plus-indexer/src/     *)
(* index.ts): the tail loop, which is the default, the reverse reindexing  *)
(* loop and the one-shot index-block of the CLI.  All walk blocks through  *)
(* processBlock and OptimizedResourceAnalyzer and record in the store of   *)
(* IndexStore; none reads the cursor or makes claims.                      *)
(*                                                                         *)
(* One action is one Redis call or the answer of the provider.  Reads of   *)
(* what never changes on the chain (an inscription and its metadata) are   *)
(* one action; the list of inscriptions on a sat grows and is read by an   *)
(* action of its own.  Reorganisations of the chain are left out: no code  *)
(* of the indexer looks at a block again.                                  *)
(***************************************************************************)
EXTENDS IndexStore

CONSTANTS
    Procs,       \* indexer processes
    Mode,        \* [Procs -> {"tail", "reverse", "block"}]
    Lookback,    \* BLOCK_LOOKBACK
    MaxStarts    \* bound: starts of all processes together

ASSUME SizesAssumption ==
    /\ IsFiniteSet(Procs) /\ Mode \in [Procs -> {"tail", "reverse", "block"}]
    /\ Lookback \in Nat \ {0}
    /\ MaxStarts \in Nat /\ MaxFaults \in Nat /\ MaxScripts \in Nat
    /\ InitHeight \in Heights

VARIABLES
    pc,        \* the call a process makes next
    known,     \* currentHeight, the tip it has heard of
    next,      \* nextHeightToProcess, or h of the reverse loop
    todo,      \* inscriptions of the block it has yet to process
    class,     \* isOrdinalsPlus of the one in hand
    id,        \* its resource id
    satCache,  \* satCache: lengths of the lists it has read
    told,      \* height of latestBlock, the block it was given at its start
    starts,
    done,      \* history: blocks whose inscriptions were processed to the last one
    unread,    \* history: blocks passed because their list could not be read
    base,      \* history: where the unbroken watch of a tail loop began
    stale,     \* history: inscriptions looked up in a list older than they are
    lost       \* history: inscriptions given up by a caught error

procVars == <<pc, known, next, told, todo, class, id, satCache>>
history == <<done, unread, base, stale, lost>>
vars == <<storeVars, procVars, starts, history>>

Phases == {"off", "latest", "next", "list", "ask", "sat", "test", "store", "report"}
NoList == -1
NoBase == Len(Blocks)
NoCache == [s \in Sats |-> NoList]
None == Idle.id

MaxOf(a, b) == IF a >= b THEN a ELSE b

\* (mutant of FirstHeight) one block of the lookback is forgotten
FirstHeightLate(tip) == MaxOf(0, tip - Lookback + 2)

\* Where the tail loop starts, given the tip it hears of.
FirstHeight(tip) == MaxOf(0, tip - Lookback + 1)

Init ==
    /\ StoreInit
    /\ pc = [p \in Procs |-> "off"]
    /\ known = [p \in Procs |-> -1]
    /\ next = [p \in Procs |-> 0]
    /\ todo = [p \in Procs |-> <<>>]
    /\ class = [p \in Procs |-> "other"]
    /\ id = [p \in Procs |-> None]
    /\ satCache = [p \in Procs |-> NoCache]
    /\ starts = 0
    /\ told = [p \in Procs |-> -1]
    /\ done = {} /\ unread = {} /\ stale = {} /\ lost = {}
    /\ base = [p \in Procs |-> NoBase]

Goto(p, phase) == pc' = [pc EXCEPT ![p] = phase]

Forgets(p) ==
    /\ class' = [class EXCEPT ![p] = "other"]
    /\ id' = [id EXCEPT ![p] = None]

\* start() or index-block of the CLI: connect, with empty caches.
Start(p) ==
    /\ pc[p] = "off" /\ starts < MaxStarts
    /\ starts' = starts + 1
    /\ Goto(p, "latest")
    /\ satCache' = [satCache EXCEPT ![p] = NoCache]
    /\ UNCHANGED <<storeVars, known, next, told, todo, class, id, history>>

\* All blocks that its earlier run did not pass are among the last Lookback ones.
ShortOutage(p) ==
    /\ base[p] <= height
    /\ \A h \in base[p]..height : h > height - Lookback \/ h \in done \cup unread

\* getLatestBlock of the tail and the reverse loop; index-block is told a height.
Locate(p) ==
    /\ pc[p] = "latest"
    /\ \E h \in IF Mode[p] = "block" THEN 0..height ELSE {height} :
        /\ known' = [known EXCEPT ![p] = h]
        /\ told' = [told EXCEPT ![p] = h]
        /\ next' = [next EXCEPT ![p] = IF Mode[p] = "tail" THEN FirstHeight(h) ELSE h]
        /\ base' = [base EXCEPT ![p] = IF ShortOutage(p) THEN @ ELSE FirstHeight(h)]
    /\ Goto(p, "next")
    /\ UNCHANGED <<storeVars, todo, class, id, satCache, starts, done, unread, stale, lost>>

\* No latest block: every loop gives up and the process ends.
LocateFails(p) ==
    /\ pc[p] = "latest"
    /\ Fault
    /\ Goto(p, "off")
    /\ UNCHANGED <<height, redis, scripts, known, next, todo, class, id, satCache, told, starts, history>>

\* (mutant of Poll) the loop counts the block that is being made as the tip
PollAhead(p) ==
    /\ pc[p] = "next" /\ Mode[p] = "tail" /\ next[p] > known[p]
    /\ height + 1 \in Heights
    /\ known' = [known EXCEPT ![p] = height + 1]
    /\ UNCHANGED <<storeVars, pc, next, todo, class, id, satCache, told, starts, history>>

\* The tail loop has no block left and hears of a new tip.
Poll(p) ==
    /\ pc[p] = "next" /\ Mode[p] = "tail" /\ next[p] > known[p]
    /\ height > known[p]
    /\ known' = [known EXCEPT ![p] = height]
    /\ UNCHANGED <<storeVars, pc, next, todo, class, id, satCache, told, starts, history>>

(***************************************************************************)
(* After a block: the tail goes up, the reverse loop goes down and ends    *)
(* below END_BLOCK (0), index-block ends.                                  *)
(***************************************************************************)
HasBlock(p) == IF Mode[p] = "tail" THEN next[p] <= known[p] ELSE next[p] >= 0

NextBlock(p) ==
    /\ next' = [next EXCEPT ![p] = IF Mode[p] = "tail" THEN @ + 1 ELSE @ - 1]
    /\ Goto(p, IF Mode[p] = "block" \/ (Mode[p] = "reverse" /\ next[p] = 0) THEN "off" ELSE "next")

BlockDone(p) ==
    /\ NextBlock(p)
    /\ done' = done \cup {next[p]}

\* The ids of the block in hand, without duplicates.
Resolved(p) ==
    /\ todo' = [todo EXCEPT ![p] = Blocks[next[p] + 1]]
    /\ IF Blocks[next[p] + 1] = <<>>
       THEN BlockDone(p)
       ELSE Goto(p, "ask") /\ UNCHANGED <<next, done>>

\* getBlockByHeight, or the block given at the start.  Without ids of a shape that
\* processBlock knows, which an empty list is too, it asks for the list itself.
FetchBlock(p) ==
    /\ pc[p] = "next" /\ HasBlock(p)
    /\ \/ Blocks[next[p] + 1] # <<>> /\ Resolved(p)
       \/ Goto(p, "list") /\ UNCHANGED <<todo, next, done>>
    /\ UNCHANGED <<storeVars, known, class, id, satCache, told, starts, unread, base, stale, lost>>

\* getBlockInscriptions.
ListBlock(p) ==
    /\ pc[p] = "list"
    /\ Resolved(p)
    /\ UNCHANGED <<storeVars, known, class, id, satCache, told, starts, unread, base, stale, lost>>

\* getBlockInscriptions answers [] when neither of its paths answers a list, and
\* the block counts as one without inscriptions.
ListFails(p) ==
    /\ pc[p] = "list"
    /\ Fault
    /\ NextBlock(p)
    /\ unread' = unread \cup {next[p]}
    /\ UNCHANGED <<height, redis, scripts, known, todo, class, id, satCache, told, starts, done, base, stale, lost>>

\* The tail tries the block again, the reverse loop goes on to the next one.
FetchFails(p) ==
    /\ pc[p] = "next" /\ HasBlock(p) /\ ~(Mode[p] = "tail" /\ next[p] = told[p])
    /\ Fault
    /\ IF Mode[p] = "tail" THEN UNCHANGED <<pc, next>> ELSE NextBlock(p)
    /\ UNCHANGED <<height, redis, scripts, known, todo, class, id, satCache, told, starts, history>>

(***************************************************************************)
(* processBlock, one inscription after the other.                          *)
(***************************************************************************)
Current(p) == Head(todo[p])
List(p) == satCache[p][SatOf[Current(p)]]

Advance(p) ==
    /\ todo' = [todo EXCEPT ![p] = Tail(@)]
    /\ Forgets(p)
    /\ IF Tail(todo[p]) = <<>>
       THEN BlockDone(p)
       ELSE Goto(p, "ask") /\ UNCHANGED <<next, done>>

\* The id from a list of the given length; indexOf may not find the inscription.
Identify(p, listed) ==
    /\ id' = [id EXCEPT ![p] = ResourceId(Current(p), listed)]
    /\ stale' = IF Position[Current(p)] < listed THEN stale ELSE stale \cup {Current(p)}
    /\ Goto(p, "test")

\* getInscription and getMetadata; the latter answers null when it fails.
Ask(p) ==
    /\ pc[p] = "ask"
    /\ \E metadata \in BOOLEAN :
        /\ IF metadata THEN UNCHANGED faults ELSE Fault
        /\ class' = [class EXCEPT ![p] = Class(Current(p), metadata)]
    /\ IF List(p) = NoList THEN Goto(p, "sat") /\ UNCHANGED <<id, stale>> ELSE Identify(p, List(p))
    /\ UNCHANGED <<height, redis, scripts, known, next, todo, satCache, told, starts, done, unread, base, lost>>

ReadSat(p) ==
    /\ pc[p] = "sat"
    /\ satCache' = [satCache EXCEPT ![p][SatOf[Current(p)]] = OnSat(SatOf[Current(p)])]
    /\ Identify(p, OnSat(SatOf[Current(p)]))
    /\ UNCHANGED <<storeVars, known, next, todo, class, told, starts, done, unread, base, lost>>

\* (mutant of ReadSatFails) a failed analysis is passed over in silence
SatFailureDropped(p) ==
    /\ pc[p] = "sat"
    /\ Fault
    /\ Advance(p)
    /\ UNCHANGED <<height, redis, scripts, known, satCache, told, starts, unread, base, stale, lost>>

\* generateResourceId throws: the analysis ends in an error to be reported.
ReadSatFails(p) ==
    /\ pc[p] = "sat"
    /\ Fault
    /\ Goto(p, "report")
    /\ UNCHANGED <<height, redis, scripts, known, next, todo, class, id, satCache, told, starts, history>>

\* sIsMember of the dedup set.
Test(p) ==
    /\ pc[p] = "test"
    /\ IF Current(p) \in indexed
       THEN Advance(p)
       ELSE Goto(p, "store") /\ UNCHANGED <<todo, next, class, id, done>>
    /\ UNCHANGED <<storeVars, known, satCache, told, starts, unread, base, stale, lost>>

Store(p) ==
    /\ pc[p] = "store"
    /\ StoreMulti(Current(p), class[p], id[p])
    /\ Advance(p)
    /\ UNCHANGED <<height, faults, known, satCache, told, starts, unread, base, stale, lost>>

Report(p) ==
    /\ pc[p] = "report"
    /\ StoreError(Current(p))
    /\ Advance(p)
    /\ UNCHANGED <<height, faults, known, satCache, told, starts, unread, base, stale, lost>>

\* A call throws, its catch counts an error and the loop goes on.
Skip(p) ==
    /\ pc[p] \in {"ask", "test", "store", "report"}
    /\ Fault
    /\ lost' = lost \cup {Current(p)}
    /\ Advance(p)
    /\ UNCHANGED <<height, redis, scripts, known, satCache, told, starts, unread, base, stale>>

\* stop() or a crash; index-block ends like this when its block is not answered.
Exit(p) ==
    /\ pc[p] # "off"
    /\ Goto(p, "off")
    /\ todo' = [todo EXCEPT ![p] = <<>>]
    /\ Forgets(p)
    /\ satCache' = [satCache EXCEPT ![p] = NoCache]
    /\ UNCHANGED <<storeVars, known, next, told, starts, history>>

\* cleanupCache, every five minutes: entries older than CACHE_TTL.
CacheExpires(p) ==
    /\ pc[p] # "off"
    /\ \E s \in Sats : satCache[p][s] # NoList /\ satCache' = [satCache EXCEPT ![p][s] = NoList]
    /\ UNCHANGED <<storeVars, pc, known, next, todo, class, id, told, starts, history>>

Step(p) ==
    \/ Locate(p) \/ Poll(p) \/ FetchBlock(p) \/ ListBlock(p)
    \/ Ask(p) \/ ReadSat(p) \/ Test(p) \/ Store(p) \/ Report(p)

Fails(p) == LocateFails(p) \/ FetchFails(p) \/ ListFails(p) \/ ReadSatFails(p) \/ Skip(p)

ScriptStep ==
    /\ Manual \/ Resetting
    /\ UNCHANGED <<procVars, starts, history>>

Grow == NewBlock /\ UNCHANGED <<procVars, starts, history>>

Next ==
    \/ \E p \in Procs : Step(p) \/ Fails(p) \/ Start(p) \/ Exit(p) \/ CacheExpires(p)
    \/ ScriptStep
    \/ Grow

Spec == Init /\ [][Next]_vars

-----------------------------------------------------------------------------
TypeOK ==
    /\ StoreTypeOK
    /\ pc \in [Procs -> Phases]
    /\ known \in [Procs -> -1..height] /\ told \in [Procs -> -1..height]
    /\ next \in [Procs -> -1..(height + 1)]
    /\ \A p \in Procs :
        /\ pc[p] \in {"ask", "sat", "test", "store", "report"} <=> todo[p] # <<>>
        /\ \A k \in DOMAIN todo[p] : todo[p][k] \in InBlock(next[p])
        /\ \A s \in Sats : satCache[p][s] \in {NoList} \cup 0..OnSat(s)
    /\ class \in [Procs -> {"plus", "other"}]
    /\ starts \in 0..MaxStarts
    /\ done \subseteq 0..height /\ unread \subseteq 0..height /\ lost \subseteq Existing /\ stale \subseteq Existing

(* Every inscription of a block that was processed to its last inscription   *)
(* is indexed, reported as an error, was given up when a caught error        *)
(* skipped it, or had its entry deleted by a reset: whatever interrupts      *)
(* processBlock (index.ts:1045-1140), a block only counts as processed when  *)
(* nothing of it is left.  A block whose list could not be read passes as    *)
(* one without inscriptions (1059-1080); it is not processed, see unread.    *)
BlockDoneIsAccounted ==
    \A h \in done : InBlock(h) \subseteq indexed \cup errored \cup lost \cup wiped

(* A tail loop leaves no block out: between the block its watch began with   *)
(* and the next one every block is processed, or was passed because its list *)
(* could not be read, whatever fails in the loop and however often the       *)
(* process restarts, as long as no more than BLOCK_LOOKBACK blocks are       *)
(* missing at a restart (index.ts:974-1003).                                 *)
TailLeavesNoGap ==
    \A p \in Procs :
        Mode[p] = "tail" /\ pc[p] \notin {"off", "latest"} => base[p]..(next[p] - 1) \subseteq done \cup unread

(* What counts as indexed, and will never be indexed again, is listed, with  *)
(* indexers, manual-index and reset-index at work at once: the MULTI of a    *)
(* store does both, manual-index adds no member, and reset-index deletes the *)
(* members before the lists, so that a reset that stops half way leaves no   *)
(* member behind that is in no list.  What a reset does tear from its list   *)
(* is exactly a member stored between its deletions, one whose deletion as a *)
(* member failed, and an id that manual-index added before a reset and       *)
(* describes after it (torn).  The id an inscription is listed under is its  *)
(* place on its sat, unless it was looked up in a cached list older than     *)
(* itself (generateResourceIdOptimized, index.ts:200-256).                   *)
IndexedIsListed ==
    /\ \A i \in indexed \ torn :
          i \in others \/ (i \in DOMAIN details /\ details[i] \in resources)
    /\ \A i \in DOMAIN details :
          i \notin stale => details[i] = [sat |-> SatOf[i], index |-> Position[i]]

(* The same of all members.  Expected to fail: reset-index.ts:22-25 deletes  *)
(* the members and then the lists, and what an indexer stores in between     *)
(* stays a member, so it is never stored again, and is in no list.           *)
MembersListed ==
    \A i \in indexed : i \in others \/ (i \in DOMAIN details /\ details[i] \in resources)

(* Every inscription of a block that the tail loop has passed is accounted   *)
(* for.  Expected to fail: getBlockInscriptions (ord-node-provider.ts:616)   *)
(* answers [] when its requests fail.                                        *)
PassedBlocksAccounted ==
    \A h \in done \cup unread : InBlock(h) \subseteq indexed \cup errored \cup lost \cup wiped

(* Ordinals Plus resources on record have ids of their own (cli.ts:121: "Set *)
(* of Ordinals Plus resource IDs (unique)").  Expected to fail: an           *)
(* inscription that is not in the cached list of its sat gets index 0.       *)
ResourceIdsUnique ==
    \A i, j \in DOMAIN details : i # j => details[i] # details[j]

(***************************************************************************)
(* The abstract ledger, with an inscription's place on the chain as its    *)
(* number: the block modes implement what the replicas implement.          *)
(***************************************************************************)
NumbersOf(S) == {Number[i] : i \in S}
Newest == [h \in Heights |-> Cardinality(UNION {InBlock(g) : g \in 0..h}) - 1]

Ledger == INSTANCE IndexLedger WITH
    tip <- Newest[height],
    indexed <- NumbersOf(indexed),
    errored <- NumbersOf(errored),
    InitTip <- Newest[InitHeight],
    MaxTip <- Newest[Len(Blocks) - 1]

LedgerSpec == Ledger!Spec
=============================================================================
