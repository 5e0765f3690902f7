----------------------------- MODULE ClientSync -----------------------------
(***************************************************************************)
(* The operations of OrdinalsIndexer that fill its database                *)
(* (packages/ordinalsplus/src/indexer/ordinals-indexer.ts), over the       *)
(* database in memory without time-to-live (indexer/memory-db.ts) or the   *)
(* one with it (db/memory-indexer-database.ts).  The chain grows while     *)
(* they run; several of them may be under way at once.                     *)
(*                                                                         *)
(* How a request is retried is IndexerClient's; here it is answered or it  *)
(* fails.                                                                  *)
(***************************************************************************)
EXTENDS Naturals, FiniteSets

CONSTANTS
    Numbers,        \* inscriptions
    Sats,
    SatOf,          \* inscription -> the sat it is on
    WithMetadata,   \* inscriptions with metadata
    Holding,        \* whether the metadata is a DID document, a credential, or both
    DidNamed,       \* the sat whose DID the document of the metadata has as its id
    NoNumber,
    SyncTasks,      \* bound: operations under way at once
    MaxHeight,      \* bound: blocks
    MaxExpiries     \* bound: entries that expire; 0 for the database without time-to-live

ASSUME SyncAssumption ==
    /\ SatOf \in [Numbers -> Sats] /\ WithMetadata \subseteq Numbers /\ NoNumber \notin Numbers
    /\ Holding \in [WithMetadata -> SUBSET {"document", "credential"}]
    /\ DidNamed \in [WithMetadata -> Sats]
    /\ MaxHeight \in Nat \ {0} /\ MaxExpiries \in Nat

VARIABLES
    tip,            \* height of the chain
    made,           \* the block of each inscription, 0 when there is none yet
    expiries,       \* entries of the database that have expired
    items,          \* inscriptions of the database
    satItems,       \* satoshi index of the database
    documents,      \* DID, which is its sat -> the inscription whose document it holds
    credentials,    \* inscriptions whose credential it holds
    synced,         \* lastSyncedHeight; 0 when unset
    operation,      \* what each operation does next
    cut             \* history: an answer was cut short, or came without metadata

extracted == <<documents, credentials>>
dbVars == <<items, satItems, extracted, synced>>
syncVars == <<tip, made, expiries, dbVars, operation, cut>>

Idle == [at |-> "idle"]
OnChain == {n \in Numbers : made[n] # 0}

SyncInit ==
    /\ tip = 1 /\ made = [n \in Numbers |-> 0]
    /\ expiries = 0
    /\ items = {} /\ satItems = [s \in Sats |-> {}]
    /\ documents = [s \in Sats |-> NoNumber] /\ credentials = {} /\ synced = 0
    /\ operation = [t \in SyncTasks |-> Idle]
    /\ cut = FALSE

Become(t, next) == operation' = [operation EXCEPT ![t] = next]

Mine(new) ==
    /\ tip < MaxHeight
    /\ new \cap OnChain = {}
    /\ tip' = tip + 1
    /\ made' = [n \in Numbers |-> IF n \in new THEN tip' ELSE made[n]]
    /\ UNCHANGED <<expiries, dbVars, operation, cut>>

\* storeInscription: the entry, and its place in the list of its sat.
StoreItem(n) ==
    /\ items' = items \cup {n}
    /\ satItems' = [satItems EXCEPT ![SatOf[n]] = @ \cup {n}]

(***************************************************************************)
(* getInscriptionById, getInscriptionsBySatoshi and searchInscriptions:    *)
(* what the database has is answered from it, but for a search; else what  *)
(* the indexer answers is stored item by item.                             *)
(***************************************************************************)
FromDatabase(s) == {n \in satItems[s] : n \in items}

Ask(t, wanted) ==
    /\ operation[t] = Idle
    /\ \/ \E n \in OnChain \ items : wanted = {n}
       \/ \E s \in Sats : FromDatabase(s) = {} /\ wanted = {n \in OnChain : SatOf[n] = s}
       \/ wanted = OnChain
    /\ \E page \in SUBSET wanted :
         /\ page # {}
         /\ Become(t, [at |-> "list", left |-> page])
    /\ UNCHANGED <<tip, made, expiries, dbVars, cut>>

Listed(t) ==
    /\ operation[t].at = "list"
    /\ \E n \in operation[t].left :
         /\ StoreItem(n)
         /\ LET left == operation[t].left \ {n}
            IN  Become(t, IF left = {} THEN Idle ELSE [at |-> "list", left |-> left])
    /\ UNCHANGED <<tip, made, expiries, extracted, synced, cut>>

(***************************************************************************)
(* syncRecentInscriptions.                                                 *)
(***************************************************************************)
StartSync(t) ==
    /\ operation[t] = Idle
    /\ Become(t, [at |-> "fetch", from |-> synced])
    /\ UNCHANGED <<tip, made, expiries, dbVars, cut>>

\* One page is read, which may be less than there is; the height is the one the
\* answer names, if it does.
Fetched(t) ==
    LET from == operation[t].from
        all == {n \in OnChain : made[n] >= from}
    IN  /\ operation[t].at = "fetch"
        /\ \E page \in SUBSET all, height \in {tip, from} :
             /\ Become(t, IF page = {} THEN Idle
                          ELSE [at |-> "items", from |-> from, height |-> height,
                                left |-> page])
             /\ cut' = (cut \/ page # all)
        /\ UNCHANGED <<tip, made, expiries, dbVars>>

\* The next inscription is stored, and its metadata looked at before the next.
ItemStored(t) ==
    LET s == operation[t] IN
    /\ s.at = "items"
    /\ \E n \in s.left :
         /\ StoreItem(n)
         /\ Become(t, IF n \in WithMetadata
                      THEN [at |-> "metadata", from |-> s.from, height |-> s.height,
                            left |-> s.left \ {n}, of |-> n]
                      ELSE [s EXCEPT !.left = @ \ {n}])
    /\ UNCHANGED <<tip, made, expiries, extracted, synced, cut>>

GoOn(t) ==
    LET s == operation[t]
    IN  Become(t, [at |-> "items", from |-> s.from, height |-> s.height, left |-> s.left])

\* The metadata comes from the indexer, or from the database where an earlier call
\* left it.  Its document is stored under the DID it names, in the place of any other
\* document of that DID; its credential under the inscription.
Extracted(t) ==
    LET n == operation[t].of IN
    /\ operation[t].at = "metadata"
    /\ documents' = IF "document" \in Holding[n] THEN [documents EXCEPT ![DidNamed[n]] = n] ELSE documents
    /\ credentials' = IF "credential" \in Holding[n] THEN credentials \cup {n} ELSE credentials
    /\ GoOn(t)
    /\ UNCHANGED <<tip, made, expiries, items, satItems, synced, cut>>

\* An answer without content is taken for no metadata.
NoMetadata(t) ==
    /\ operation[t].at = "metadata"
    /\ cut' = TRUE
    /\ GoOn(t)
    /\ UNCHANGED <<tip, made, expiries, dbVars>>

\* (mutant of SyncFails) the inscription is skipped and the sync goes on
SkipItem(t) ==
    /\ operation[t].at = "metadata"
    /\ GoOn(t)
    /\ UNCHANGED <<tip, made, expiries, dbVars, cut>>

\* What throws, whether the request of the page or the metadata of one
\* inscription, ends the sync; the height stays.
SyncFails(t) ==
    /\ operation[t].at \in {"fetch", "metadata"}
    /\ Become(t, Idle)
    /\ UNCHANGED <<tip, made, expiries, dbVars, cut>>

\* The height is compared with the one read at the start, not the one of now.
Synced(t) ==
    LET s == operation[t] IN
    /\ s.at = "items" /\ s.left = {}
    /\ synced' = IF s.height > s.from THEN s.height ELSE synced
    /\ Become(t, Idle)
    /\ UNCHANGED <<tip, made, expiries, items, satItems, extracted, cut>>

(***************************************************************************)
(* Entries of the database with time-to-live expire one by one, a list     *)
(* with its newest member and the height with its last change.             *)
(***************************************************************************)
Expire ==
    /\ expiries < MaxExpiries /\ expiries' = expiries + 1
    /\ \/ \E n \in items : items' = items \ {n} /\ UNCHANGED <<satItems, extracted, synced>>
       \/ \E s \in Sats :
            satItems' = [satItems EXCEPT ![s] = {}] /\ UNCHANGED <<items, extracted, synced>>
       \/ \E s \in Sats :
            documents' = [documents EXCEPT ![s] = NoNumber] /\ UNCHANGED <<items, satItems, credentials, synced>>
       \/ \E n \in credentials :
            credentials' = credentials \ {n} /\ UNCHANGED <<items, satItems, documents, synced>>
       \/ synced' = 0 /\ UNCHANGED <<items, satItems, extracted>>
    /\ UNCHANGED <<tip, made, operation, cut>>

SyncNext ==
    \/ \E new \in SUBSET Numbers : Mine(new)
    \/ \E t \in SyncTasks :
         \/ \E wanted \in SUBSET Numbers : Ask(t, wanted)
         \/ Listed(t)
         \/ StartSync(t) \/ Fetched(t) \/ ItemStored(t)
         \/ Extracted(t) \/ NoMetadata(t) \/ SyncFails(t) \/ Synced(t)
    \/ Expire

SyncSpec == SyncInit /\ [][SyncNext]_syncVars

-----------------------------------------------------------------------------
SyncTypeOK ==
    /\ tip \in 1..MaxHeight /\ made \in [Numbers -> 0..tip]
    /\ expiries \in 0..MaxExpiries /\ cut \in BOOLEAN
    /\ items \subseteq OnChain /\ credentials \subseteq WithMetadata
    /\ documents \in [Sats -> WithMetadata \cup {NoNumber}]
    /\ \A s \in Sats : satItems[s] \subseteq {n \in OnChain : SatOf[n] = s}
    /\ synced \in 0..tip
    /\ \A t \in SyncTasks : operation[t].at \in {"idle", "list", "fetch", "items", "metadata"}

\* What of the metadata of inscriptions the database has: their credential, and a
\* document of the DID that their document names.
Kept ==
    {n \in WithMetadata :
        /\ "document" \in Holding[n] => documents[DidNamed[n]] # NoNumber
        /\ "credential" \in Holding[n] => n \in credentials}

\* Whatever syncs overlap, fail or answer other requests meanwhile, the height
\* is behind the work: every inscription of a block up to the synced height is
\* in the database, in the list of its sat, with the credential it carries, and its
\* DID has a document, its own or another inscription's of that DID; as long as the
\* indexer answered in one page and with its metadata, and nothing has expired
\* (ordinals-indexer.ts:465-588).
SyncedIsStored ==
    ~cut /\ expiries = 0 =>
        \A n \in OnChain : made[n] <= synced =>
            /\ n \in FromDatabase(SatOf[n])
            /\ n \in WithMetadata => n \in Kept

\* Expected to fail: a DID has its newest document, as far as was synced.
NewestDocumentHeld ==
    ~cut /\ expiries = 0 =>
        \A n \in WithMetadata :
            n \in OnChain /\ made[n] <= synced /\ "document" \in Holding[n] =>
                documents[DidNamed[n]] # NoNumber /\ made[documents[DidNamed[n]]] >= made[n]
=============================================================================
