---------------------------- MODULE ResourceCrawl ----------------------------
(***************************************************************************)
(* How resources are listed and resolved by position                       *)
(* (packages/ordinalsplus/src/resources): the crawl of a provider from the *)
(* oldest inscription (getAllResourcesChronological), the crawl from the   *)
(* newest (getAllResources), page by page, and ResourceResolver with its   *)
(* cache.  Inscriptions are made meanwhile.                                *)
(*                                                                         *)
(* An inscription is its number.  The one sat of the resolver has them all *)
(* in that order.                                                          *)
(***************************************************************************)
EXTENDS Integers, Sequences, FiniteSets, FiniteSetsExt, SequencesExt

CONSTANTS
    MaxMade,        \* bound: inscriptions
    BatchSize,
    MaxResources,   \* bound: resources a caller wants
    MaxFailures     \* failures in a row that end a crawl

ASSUME CrawlAssumption ==
    /\ MaxMade \in Nat
    /\ BatchSize \in Nat \ {0} /\ MaxResources \in Nat /\ MaxFailures \in Nat \ {0}

VARIABLES
    mode,           \* what is under way: a crawl of one kind, or resolution
    unbound,        \* inscriptions without a sat, of which no resource can be made
    filtered,       \* inscriptions the filter of the caller turns down
    wanted,         \* maxResources of the caller; 0 is all
    madeSoFar,      \* inscriptions made, numbered from 1
    crawl,          \* at, cursor, batch, done (count processed), failures
    yielded,        \* history: resources handed to the caller, in order
    missing,        \* history: inscriptions whose fetch failed
    resources       \* the indices of the sat the resolver has cached

caller == <<mode, filtered, wanted, unbound>>
crawlVars == <<caller, madeSoFar, crawl, yielded, missing, resources>>

Modes == {"chronological", "ord", "ordiscan", "resolver"}

CrawlInit ==
    /\ mode = "none" /\ filtered = {} /\ wanted = 0
    /\ madeSoFar = 0 /\ unbound = {}
    /\ crawl = [at |-> "none"]
    /\ yielded = <<>> /\ missing = {} /\ resources = {}

MakeInscription(withSat) ==
    /\ madeSoFar < MaxMade
    /\ madeSoFar' = madeSoFar + 1
    /\ unbound' = IF withSat THEN unbound ELSE unbound \cup {madeSoFar'}
    /\ UNCHANGED <<mode, filtered, wanted, crawl, yielded, missing, resources>>

\* A caller starts a crawl, or makes a resolver; how many inscriptions there
\* were is kept for the property.
Begin ==
    /\ mode = "none"
    /\ mode' \in Modes
    /\ filtered' \in SUBSET (1..MaxMade) /\ wanted' \in 0..MaxResources
    /\ crawl' = [at |-> "ready", cursor |-> IF mode' = "chronological" THEN 1 ELSE 0,
                 batch |-> <<>>, seen |-> 0, processed |-> 0, failures |-> 0,
                 before |-> madeSoFar]
    /\ UNCHANGED <<unbound, madeSoFar, yielded, missing, resources>>

Enough == wanted > 0 /\ crawl.processed >= wanted

\* The caller pulls; a crawl that has handed out enough ends.
Pull ==
    /\ mode \notin {"none", "resolver"} /\ crawl.at = "ready"
    /\ crawl' = [crawl EXCEPT !.at = IF Enough THEN "ended" ELSE "batch",
                              !.batch = <<>>, !.seen = 0]
    /\ UNCHANGED <<caller, madeSoFar, yielded, missing, resources>>

(***************************************************************************)
(* From the oldest, one number after the other.                            *)
(***************************************************************************)
InBatch ==
    /\ mode = "chronological" /\ crawl.at = "batch"
    /\ crawl.seen < BatchSize /\ ~Enough /\ crawl.failures < MaxFailures

\* Only a resource that passes the filter ends a row of failures.
FetchNumber ==
    LET n == crawl.cursor IN
    /\ InBatch
    /\ n <= madeSoFar /\ n \notin unbound
    /\ crawl' = IF n \in filtered
                THEN [crawl EXCEPT !.cursor = @ + 1, !.seen = @ + 1]
                ELSE [crawl EXCEPT !.cursor = @ + 1, !.seen = @ + 1, !.batch = Append(@, n),
                                   !.processed = @ + 1, !.failures = 0]
    /\ UNCHANGED <<caller, madeSoFar, yielded, missing, resources>>

\* There is no such inscription yet, no resource can be made of it, or the
\* request fails: it is passed over.
MissNumber ==
    /\ InBatch
    /\ crawl' = [crawl EXCEPT !.cursor = @ + 1, !.seen = @ + 1, !.failures = @ + 1]
    /\ missing' = missing \cup {crawl.cursor}
    /\ UNCHANGED <<caller, madeSoFar, yielded, resources>>

\* (mutant of EndBatch) a row of failures ends the crawl before the batch is
\* handed out
EndWithoutBatch ==
    /\ mode = "chronological" /\ crawl.at = "batch" /\ ~InBatch
    /\ yielded' = IF crawl.failures >= MaxFailures THEN yielded ELSE yielded \o crawl.batch
    /\ crawl' = [crawl EXCEPT !.at = IF crawl.failures >= MaxFailures THEN "ended" ELSE "ready",
                              !.batch = <<>>]
    /\ UNCHANGED <<caller, madeSoFar, missing, resources>>

EndBatch ==
    /\ mode = "chronological" /\ crawl.at = "batch" /\ ~InBatch
    /\ yielded' = yielded \o crawl.batch
    /\ crawl' = [crawl EXCEPT !.at = IF crawl.failures >= MaxFailures THEN "ended" ELSE "ready",
                              !.batch = <<>>]
    /\ UNCHANGED <<caller, madeSoFar, missing, resources>>

(***************************************************************************)
(* From the newest.  A page of ord is counted from the newest inscription  *)
(* of the moment; ordiscan is asked for the numbers below the cursor, and  *)
(* the resources it makes name no number to go on from.                    *)
(***************************************************************************)
Ranked(from) == {n \in 1..madeSoFar : madeSoFar - n >= from /\ madeSoFar - n < from + BatchSize}

PageAt(cursor) ==
    IF mode = "ord" THEN Ranked((cursor \div BatchSize) * BatchSize)
    ELSE LET below == {n \in 1..madeSoFar : cursor > 0 => n < cursor}
         IN  {n \in below : Cardinality({m \in below : m > n}) < BatchSize}

More(cursor, page) ==
    IF mode = "ord" THEN madeSoFar > (cursor \div BatchSize + 1) * BatchSize
    ELSE Cardinality(page) = BatchSize

NextCursor(cursor) == cursor + BatchSize

\* A page comes from its newest inscription to its oldest.
NewestFirst(page) ==
    CHOOSE s \in [1..Cardinality(page) -> page] : \A i, j \in DOMAIN s : i < j => s[i] > s[j]

\* A page with one inscription that cannot be had or made into a resource
\* throws, and the crawl with it.
FetchPage ==
    LET page == PageAt(crawl.cursor)
        kept == page \ filtered
        last == page = {} \/ ~More(crawl.cursor, page)
    IN  /\ mode \in {"ord", "ordiscan"} /\ crawl.at = "batch"
        /\ IF page \cap unbound # {}
           THEN /\ crawl' = [crawl EXCEPT !.at = "failed"]
                /\ UNCHANGED yielded
           ELSE /\ crawl' = [crawl EXCEPT !.at = IF last THEN "ended" ELSE "ready",
                                          !.cursor = IF last THEN @ ELSE NextCursor(@),
                                          !.processed = @ + Cardinality(kept)]
                /\ yielded' = yielded \o NewestFirst(kept)
        /\ UNCHANGED <<caller, madeSoFar, missing, resources>>

PageFails ==
    /\ mode \in {"ord", "ordiscan"} /\ crawl.at = "batch"
    /\ crawl' = [crawl EXCEPT !.at = "failed"]
    /\ UNCHANGED <<caller, madeSoFar, yielded, missing, resources>>

(***************************************************************************)
(* ResourceResolver: an index of the sat is answered from the cache while  *)
(* the entry is young; what the provider answers is kept under the index   *)
(* asked for, not under the number the id of the resource has.             *)
(***************************************************************************)
ResolveResource(index) ==
    /\ mode = "resolver"
    /\ index \in 1..madeSoFar \ (resources \cup unbound)
    /\ resources' = resources \cup {index}
    /\ UNCHANGED <<caller, madeSoFar, crawl, yielded, missing>>

ResourceExpires(index) ==
    /\ index \in resources
    /\ resources' = resources \ {index}
    /\ UNCHANGED <<caller, madeSoFar, crawl, yielded, missing>>

CrawlNext ==
    \/ \E withSat \in BOOLEAN : MakeInscription(withSat)
    \/ Begin
    \/ Pull \/ FetchNumber \/ MissNumber \/ EndBatch
    \/ FetchPage \/ PageFails
    \/ \E i \in 1..MaxMade : ResolveResource(i) \/ ResourceExpires(i)

CrawlSpec == CrawlInit /\ [][CrawlNext]_crawlVars

-----------------------------------------------------------------------------
CrawlTypeOK ==
    /\ mode \in Modes \cup {"none"} /\ unbound \cup filtered \subseteq 1..MaxMade /\ wanted \in 0..MaxResources
    /\ madeSoFar \in 0..MaxMade
    /\ crawl.at \in {"none", "ready", "batch", "ended", "failed"}
    /\ crawl.at # "none" => crawl.failures \in 0..MaxFailures
    /\ yielded \in Seq(1..MaxMade)

\* A crawl hands out what there is.  From the oldest, every inscription it has
\* passed was handed out in order, is in the batch, was turned down by the
\* filter or failed to be fetched; from the newest, a crawl of an ord node that
\* came to its end handed out every inscription there was when it began that
\* passes the filter, however many were made meanwhile and shifted the pages
\* (ord-node-provider.ts:342-404, 489-562).
CrawlIsComplete ==
    /\ mode = "chronological" =>
         LET passed == yielded \o crawl.batch IN
         /\ \A i, j \in DOMAIN passed : i < j => passed[i] < passed[j]
         /\ 1..(crawl.cursor - 1) \subseteq ToSet(passed) \cup filtered \cup missing
    /\ mode = "ord" /\ crawl.at = "ended" /\ wanted = 0 =>
         1..crawl.before \ filtered \subseteq ToSet(yielded)

\* Expected to fail: nothing is handed out twice; what is made between two pages
\* shifts the second.
HandedOutOnce == mode = "ord" => IsInjective(yielded)
=============================================================================
