--------------------------- MODULE ResourceListing ---------------------------
(***************************************************************************)
(* The list of Ordinals Plus resources: what the indexer left in Redis,    *)
(* the API that pages through it (services/resourceManager.ts and          *)
(* routers/indexerRouter.ts of packages/ordinals-plus-api) and the page of *)
(* the explorer that shows it (components/DidExplorer.tsx).                *)
(*                                                                         *)
(* The set of resource ids and the hash of each inscription are separate   *)
(* keys: the indexer writes both in one transaction, its scripts one after *)
(* the other.  A request reads the set three times and, for every id, all  *)
(* hashes twice, with writers at work in between.  One action is one read  *)
(* of Redis; a hash is represented by its inscription and the time it was  *)
(* written.                                                                *)
(***************************************************************************)
EXTENDS Integers, Sequences, FiniteSets

CONSTANTS
    Indexable,     \* inscriptions
    Rids,          \* resource ids
    RidOf,         \* the resource id of each inscription
    MinedAt,       \* its block, 0 if the hash does not have it
    PageSize,
    Loads,         \* bound: requests the page makes
    MaxStored,     \* bound: hashes written
    MaxListFaults  \* bound: reads that fail, resets of Redis

ASSUME ListingAssumption ==
    /\ RidOf \in [Indexable -> Rids]
    /\ MinedAt \in [Indexable -> Nat]
    /\ PageSize \in Nat \ {0} /\ MaxStored \in Nat /\ MaxListFaults \in Nat

VARIABLES
    rids,          \* ordinals-plus-resources
    hashes,        \* ordinals_plus:resource:*: when each was written, 0 if it is not there
    writes,        \* hashes written so far: the clock of indexedAt
    half,          \* the inscription whose hash a script has yet to write
    resetting,     \* whether a script has yet to delete the hashes
    request,       \* the requests of the page
    steady,        \* history: ids that were listed with a hash ever since a request began
    page, order, section, loading, failed, listing,   \* the state of the page
    listFaults

storeVars == <<rids, hashes, writes, half, resetting>>
pageVars == <<page, order, section, loading, failed, listing>>
listingVars == <<storeVars, request, steady, pageVars, listFaults>>

NoListing == [page |-> 1, entries |-> <<>>, totalPages |-> 0, hasNext |-> FALSE, hasPrev |-> FALSE]
NoRequest == [at |-> "idle", page |-> 0, order |-> "desc", total |-> 0, counted |-> 0,
              known |-> 0, todo |-> {}, data |-> {}, wanted |-> <<>>]
DoneLoad == [NoRequest EXCEPT !.at = "done"]

FirstLoad == CHOOSE r \in Loads : TRUE
Asked(p, o) == [NoRequest EXCEPT !.at = "count", !.page = p, !.order = o]

\* The page is opened on an empty list, and loads it at once.
ListingInit ==
    /\ rids = {} /\ hashes = [e \in Indexable |-> 0] /\ writes = 0 /\ half = {} /\ resetting = FALSE
    /\ request = [r \in Loads |-> IF r = FirstLoad THEN Asked(1, "desc") ELSE NoRequest]
    /\ steady = [r \in Loads |-> {}]
    /\ page = 1 /\ order = "desc" /\ section = TRUE /\ loading = TRUE /\ failed = FALSE
    /\ listing = NoListing
    /\ listFaults = 0

-----------------------------------------------------------------------------
(* The writers. *)
Listed(e) == RidOf[e] \in rids /\ hashes[e] # 0
Described == {RidOf[e] : e \in {x \in Indexable : Listed(x)}}
Undisturbed == half = {} /\ ~resetting    \* scripts run one at a time

\* The ids that have been there all the time.
Keep == steady' = [r \in Loads |-> steady[r] \cap Described']

\* storeOrdinalsResource: a MULTI.  That the inscription is not stored was read
\* before, so that another replica or a script may have stored it since.
StoreListed(e) ==
    /\ writes < MaxStored
    /\ rids' = rids \cup {RidOf[e]}
    /\ hashes' = [hashes EXCEPT ![e] = writes + 1]
    /\ writes' = writes + 1
    /\ UNCHANGED <<half, resetting, request, pageVars, listFaults>>
    /\ Keep

\* manual-index adds the id first, and may fail before the hash.
AddByHand(e) ==
    /\ writes < MaxStored /\ Undisturbed
    /\ rids' = rids \cup {RidOf[e]}
    /\ half' = {e}
    /\ UNCHANGED <<hashes, writes, resetting, request, pageVars, listFaults>>
    /\ Keep

DescribeByHand ==
    /\ half # {}
    /\ hashes' = [e \in Indexable |-> IF e \in half THEN writes + 1 ELSE hashes[e]]
    /\ writes' = writes + 1 /\ half' = {}
    /\ UNCHANGED <<rids, resetting, request, pageVars, listFaults>>
    /\ Keep

FailByHand ==
    /\ half # {} /\ listFaults < MaxListFaults
    /\ half' = {} /\ listFaults' = listFaults + 1
    /\ UNCHANGED <<rids, hashes, writes, resetting, request, steady, pageVars>>

\* reset-index deletes the set, then the hashes.
ResetList ==
    /\ Undisturbed /\ rids # {} /\ listFaults < MaxListFaults
    /\ rids' = {} /\ resetting' = TRUE
    /\ listFaults' = listFaults + 1
    /\ UNCHANGED <<hashes, writes, half, request, pageVars>>
    /\ Keep

ResetHashes ==
    /\ resetting
    /\ hashes' = [e \in Indexable |-> 0] /\ resetting' = FALSE
    /\ UNCHANGED <<rids, writes, half, request, pageVars, listFaults>>
    /\ Keep

-----------------------------------------------------------------------------
(* The page of the explorer. *)
FreeLoads == {r \in Loads : request[r].at = "idle"}
Answered == \A r \in Loads : request[r].at \in {"idle", "done"}

\* loadOrdinalsInscriptions, for the page and order of the render it belongs to.
LoadList(p, o) ==
    /\ FreeLoads # {}
    /\ LET r == CHOOSE x \in FreeLoads : TRUE
       IN /\ request' = [request EXCEPT ![r] = Asked(p, o)]
          /\ steady' = [steady EXCEPT ![r] = Described]
    /\ loading' = TRUE /\ failed' = FALSE

\* The section is closed and opened again by its buttons.
Open ==
    /\ ~section
    /\ section' = TRUE
    /\ LoadList(page, order)
    /\ UNCHANGED <<storeVars, page, order, listing, listFaults>>

Close ==
    /\ section
    /\ section' = FALSE
    /\ UNCHANGED <<storeVars, request, steady, page, order, loading, failed, listing, listFaults>>

\* Both buttons are part of the list, and start from the page of the last answer.
Buttons == section /\ listing.entries # <<>> /\ listing.totalPages > 1 /\ ~loading

Turn(p) ==
    /\ Buttons
    /\ \/ listing.hasNext /\ p = listing.page + 1
       \/ listing.hasPrev /\ p = listing.page - 1
    /\ page' = p
    /\ IF p # page THEN LoadList(p, order) ELSE UNCHANGED <<request, steady, loading, failed>>
    /\ UNCHANGED <<storeVars, order, section, listing, listFaults>>

\* The order may be changed at any time, and keeps the page.
Reorder ==
    /\ section
    /\ order' = IF order = "desc" THEN "asc" ELSE "desc"
    /\ LoadList(page, order')
    /\ UNCHANGED <<storeVars, page, section, listing, listFaults>>

\* The network of the wallet or the selection becomes another one.
ReloadForNetwork ==
    /\ section
    /\ LoadList(page, order)
    /\ UNCHANGED <<storeVars, page, order, section, listing, listFaults>>

TryLoadAgain ==
    /\ section /\ failed
    /\ LoadList(page, order)
    /\ UNCHANGED <<storeVars, page, order, section, listing, listFaults>>

-----------------------------------------------------------------------------
(* The request. *)
Became(r, fields) == request' = [request EXCEPT ![r] = fields]
Ended(r) == Became(r, DoneLoad) /\ steady' = [steady EXCEPT ![r] = {}]
Silent == UNCHANGED <<storeVars, steady, pageVars, listFaults>>

Count(r) ==
    /\ request[r].at = "count"
    /\ Became(r, [request[r] EXCEPT !.at = "recount", !.total = Cardinality(rids)])
    /\ Silent

Recount(r) ==
    /\ request[r].at = "recount"
    /\ Became(r, [request[r] EXCEPT !.at = IF rids = {} THEN "answer" ELSE "members",
                                    !.counted = Cardinality(rids)])
    /\ Silent

Members(r) ==
    /\ request[r].at = "members"
    /\ Became(r, [request[r] EXCEPT !.at = IF rids = {} THEN "answer" ELSE "find",
                                    !.known = Cardinality(rids), !.todo = rids])
    /\ Silent

\* The hashes that findResourceByResourceId may come upon first.  It reads the keys
\* and then one hash after the other; hashes are deleted all at once only, so that
\* what it finds is there at one moment.
FoundFor(id) == {<<e, hashes[e]>> : e \in {x \in Indexable : RidOf[x] = id /\ hashes[x] # 0}}

Smaller(a, b) == IF a < b THEN a ELSE b

\* (mutant of SliceEnd) the end is the last index, and slice leaves it out
SliceEndExclusive(q) ==
    IF q.order = "desc" THEN Smaller(q.counted, q.total) - 1 ELSE q.counted - 1

\* The part of the sorted ids that is looked up again: total are asked for, from
\* the head of the list, or with "asc" from its tail, as counted the second time.
SliceStart(q) == IF q.order = "asc" /\ q.counted > q.total THEN q.counted - q.total ELSE 0
SliceEnd(q) == IF q.order = "desc" THEN Smaller(q.counted, q.total) ELSE q.counted

\* The ids by the time their hashes were written.
ByIndexedAt(q, data) ==
    LET Before(a, b) == IF q.order = "asc" THEN a[2] < b[2] ELSE a[2] > b[2]
        sorted == CHOOSE s \in [1..Cardinality(data) -> data] :
                      \A i, j \in DOMAIN s : i < j => Before(s[i], s[j])
    IN [i \in 1..Cardinality(data) |-> RidOf[sorted[i][1]]]

WantedOf(q, data) ==
    SubSeq(ByIndexedAt(q, data), SliceStart(q) + 1, Smaller(SliceEnd(q), Cardinality(data)))

RangeOf(s) == {s[i] : i \in DOMAIN s}

\* The first look-up of each id; after the last the list is sorted and cut.
Find(r, id) ==
    LET q == request[r]
        Now(data) ==
            IF q.todo = {id}
            THEN [q EXCEPT !.at = IF WantedOf(q, data) = <<>> THEN "answer" ELSE "fetch",
                           !.counted = 0, !.data = {}, !.wanted = WantedOf(q, data),
                           !.todo = RangeOf(WantedOf(q, data))]
            ELSE [q EXCEPT !.data = data, !.todo = @ \ {id}]
    IN /\ q.at = "find" /\ id \in q.todo
       /\ IF FoundFor(id) = {} THEN Became(r, Now(q.data))
          ELSE \E d \in FoundFor(id) : Became(r, Now(q.data \cup {d}))
       /\ Silent

\* The second look-up.
Fetch(r, id) ==
    LET q == request[r]
        Now(data) == [q EXCEPT !.at = IF q.todo = {id} THEN "answer" ELSE "fetch",
                               !.data = data, !.todo = @ \ {id}]
    IN /\ q.at = "fetch" /\ id \in q.todo
       /\ IF FoundFor(id) = {} THEN Became(r, Now(q.data))
          ELSE \E d \in FoundFor(id) : Became(r, Now(q.data \cup {d}))
       /\ Silent

\* The entries by block, the unknown ones last, otherwise as they were found.
ByBlock(q) ==
    LET place(d) == CHOOSE i \in DOMAIN q.wanted : q.wanted[i] = RidOf[d[1]]
        height(d) == MinedAt[d[1]]
        Before(a, b) ==
            IF height(a) = height(b) THEN place(a) < place(b)
            ELSE IF 0 \in {height(a), height(b)} THEN height(b) = 0
            ELSE IF q.order = "asc" THEN height(a) < height(b) ELSE height(a) > height(b)
        sorted == CHOOSE s \in [1..Cardinality(q.data) -> q.data] :
                      \A i, j \in DOMAIN s : i < j => s[i] # s[j] /\ Before(s[i], s[j])
    IN [i \in 1..Cardinality(q.data) |-> sorted[i][1]]

Pages(n) == (n + PageSize - 1) \div PageSize

\* What is sent: the page is cut out last; whether there is another page is told
\* by the first count, how many there are by what was found.
AnswerOf(q) ==
    LET all == ByBlock(q)
    IN [page |-> q.page,
        entries |-> SubSeq(all, (q.page - 1) * PageSize + 1, Smaller(q.page * PageSize, Len(all))),
        totalPages |-> Pages(Len(all)),
        hasNext |-> q.page < Pages(q.total),
        hasPrev |-> q.page > 1]

\* The answer reaches the page, whatever the page has asked for since.
ListingArrives(r) ==
    /\ request[r].at = "answer"
    /\ listing' = AnswerOf(request[r])
    /\ loading' = FALSE
    /\ Ended(r)
    /\ UNCHANGED <<storeVars, page, order, section, failed, listFaults>>

\* A read of Redis that throws, or an answer that does not arrive.
ListingFails(r) ==
    /\ request[r].at \notin {"idle", "done"} /\ listFaults < MaxListFaults
    /\ listFaults' = listFaults + 1
    /\ failed' = TRUE /\ loading' = FALSE
    /\ Ended(r)
    /\ UNCHANGED <<storeVars, page, order, section, listing>>

ListingNext ==
    \/ \E e \in Indexable : StoreListed(e) \/ AddByHand(e)
    \/ DescribeByHand \/ FailByHand \/ ResetList \/ ResetHashes
    \/ Open \/ Close \/ Reorder \/ ReloadForNetwork \/ TryLoadAgain
    \/ \E p \in 1..MaxStored : Turn(p)
    \/ \E r \in Loads :
          \/ Count(r) \/ Recount(r) \/ Members(r)
          \/ \E id \in Rids : Find(r, id) \/ Fetch(r, id)
          \/ ListingArrives(r) \/ ListingFails(r)

ListingSpec == ListingInit /\ [][ListingNext]_listingVars

-----------------------------------------------------------------------------
Orders == {"asc", "desc"}

ListingTypeOK ==
    /\ rids \subseteq Rids
    /\ writes \in 0..MaxStored + 1 /\ hashes \in [Indexable -> 0..MaxStored + 1]
    /\ half \subseteq Indexable /\ resetting \in BOOLEAN
    /\ \A r \in Loads :
          /\ request[r].at \in {"idle", "done", "count", "recount", "members", "find", "fetch", "answer"}
          /\ request[r].order \in Orders
          /\ {request[r].total, request[r].counted, request[r].known} \subseteq 0..Cardinality(Rids)
          /\ request[r].todo \subseteq Rids /\ steady[r] \subseteq Rids
    /\ page \in Nat \ {0} /\ order \in Orders
    /\ {section, loading, failed} \subseteq BOOLEAN
    /\ listing.entries \in Seq(Indexable)
    /\ listFaults \in 0..MaxListFaults

\* An answer lists every resource that was there from the request's beginning to
\* its end, although the set is counted twice and read once, sorted from the head
\* or the tail and every hash read twice (resourceManager.ts:92-150).  Excepted
\* are requests during which the set grew beyond its first count: they leave out
\* the resources indexed longest ago.
ListsWhatStays ==
    \A r \in Loads : request[r].at = "answer" /\ request[r].known <= request[r].total =>
        steady[r] \subseteq {RidOf[d[1]] : d \in request[r].data}

\* Expected to fail: a resource is listed although others are added meanwhile.
GrowthHidesNothing ==
    \A r \in Loads : request[r].at = "answer" =>
        steady[r] \subseteq {RidOf[d[1]] : d \in request[r].data}

\* Expected to fail (with three requests): the page shows what it last asked for
\* once nothing is under way.  Loads are not cancelled, and the last to arrive is
\* shown.
ShowsWhatWasAsked ==
    loading \/ failed \/ ~Answered \/ ~section \/ listing.page = page

\* Expected to fail: there is a way back from every page but the first.  The
\* buttons are part of the list, and an empty page has none; hasNext leads there
\* when the set has ids without hashes.
WayBack ==
    section /\ ~loading /\ ~failed /\ Answered /\ listing.page > 1 => Buttons
=============================================================================
