------------------------- MODULE MCLibraryServices -------------------------
(***************************************************************************)
(* The stateful parts of the library (packages/ordinalsplus/src) side by   *)
(* side: key management, the audit log, the synchronisation of the indexer *)
(* client and its cache, the construction of transactions, the resolution  *)
(* of DIDs, the crawl of resources, DID documents in memory, the handling  *)
(* of errors, the dead letters and the questions to a provider.  They      *)
(* share no state, so a behaviour of all of them is one behaviour of each: *)
(* one part moves, and it is the same part throughout.                     *)
(***************************************************************************)
EXTENDS KeyManagement, AuditLog, ClientSync, TxConstruction, ClientCaches,
        DidResolution, ResourceCrawl, DidDocuments, ErrorRecovery, ProviderQueries, TLC

VARIABLE part    \* the part whose behaviours these are

vars == <<keyVars, auditVars, syncVars, constructionVars,
          cacheVars, resolutionVars, crawlVars, documentVars, errorVars, letterVars, queryVars, part>>

Parts == {"keys", "audit", "sync", "construction", "caches", "resolution", "crawl",
          "documents", "errors", "letters", "queries"}

\* What a part may choose at the start it chooses only when it is the one that moves.
Init ==
    /\ part \in Parts
    /\ KeyInit /\ (encrypted => part = "keys")
    /\ AuditInit
    /\ SyncInit
    /\ ConstructionInit
    /\ CachesInit
    /\ ResolutionInit /\ (static => part = "resolution")
    /\ CrawlInit
    /\ DocumentsInit
    /\ ErrorInit
    /\ LettersInit
    /\ QueriesInit

Next ==
    /\ UNCHANGED part
    /\ \/ /\ part = "keys"
          /\ KeyNext
          /\ UNCHANGED <<auditVars, syncVars, constructionVars, cacheVars,
                         resolutionVars, crawlVars, documentVars,
                         errorVars, letterVars, queryVars>>
       \/ /\ part = "audit"
          /\ AuditNext
          /\ UNCHANGED <<keyVars, syncVars, constructionVars, cacheVars,
                         resolutionVars, crawlVars, documentVars,
                         errorVars, letterVars, queryVars>>
       \/ /\ part = "sync"
          /\ SyncNext
          /\ UNCHANGED <<keyVars, auditVars, constructionVars, cacheVars,
                         resolutionVars, crawlVars, documentVars,
                         errorVars, letterVars, queryVars>>
       \/ /\ part = "construction"
          /\ ConstructionNext
          /\ UNCHANGED <<keyVars, auditVars, syncVars, cacheVars,
                         resolutionVars, crawlVars, documentVars,
                         errorVars, letterVars, queryVars>>
       \/ /\ part = "caches"
          /\ CachesNext
          /\ UNCHANGED <<keyVars, auditVars, syncVars, constructionVars,
                         resolutionVars, crawlVars, documentVars,
                         errorVars, letterVars, queryVars>>
       \/ /\ part = "resolution"
          /\ ResolutionNext
          /\ UNCHANGED <<keyVars, auditVars, syncVars, constructionVars,
                         cacheVars, crawlVars, documentVars,
                         errorVars, letterVars, queryVars>>
       \/ /\ part = "crawl"
          /\ CrawlNext
          /\ UNCHANGED <<keyVars, auditVars, syncVars, constructionVars,
                         cacheVars, resolutionVars, documentVars,
                         errorVars, letterVars, queryVars>>
       \/ /\ part = "documents"
          /\ DocumentsNext
          /\ UNCHANGED <<keyVars, auditVars, syncVars, constructionVars,
                         cacheVars, resolutionVars, crawlVars,
                         errorVars, letterVars, queryVars>>
       \/ /\ part = "errors"
          /\ ErrorNext
          /\ UNCHANGED <<keyVars, auditVars, syncVars, constructionVars,
                         cacheVars, resolutionVars, crawlVars, documentVars, letterVars,
                         queryVars>>
       \/ /\ part = "letters"
          /\ LettersNext
          /\ UNCHANGED <<keyVars, auditVars, syncVars, constructionVars,
                         cacheVars, resolutionVars, crawlVars, documentVars, errorVars,
                         queryVars>>
       \/ /\ part = "queries"
          /\ QueriesNext
          /\ UNCHANGED <<keyVars, auditVars, syncVars, constructionVars,
                         cacheVars, resolutionVars, crawlVars, documentVars,
                         errorVars, letterVars>>

Spec == Init /\ [][Next]_vars

-----------------------------------------------------------------------------
\* The type invariants of all parts.
TypeOK ==
    /\ KeyTypeOK
    /\ AuditTypeOK
    /\ SyncTypeOK
    /\ ConstructionTypeOK
    /\ CachesTypeOK
    /\ ResolutionTypeOK
    /\ CrawlTypeOK
    /\ DocumentsTypeOK
    /\ ErrorTypeOK
    /\ QueriesTypeOK
    /\ part \in Parts

-----------------------------------------------------------------------------
\* The instance for TLC; the .cfg file gives the sizes.

CONSTANTS a1, a2, b1, b2, c1, c2, n1, n2, s1, u1, u2, u3

\* Two inscriptions on one sat.
OneSat == [n \in {n1, n2} |-> s1]

\* Both have a document of the sat's DID, and one has a credential too.
Metadata == [n \in {n1, n2} |-> IF n = n1 THEN {"document"} ELSE {"document", "credential"}]

\* One output below, one about and one far above what an inscription needs.
Worths == [u \in {u1, u2, u3} |-> CASE u = u1 -> 2000 [] u = u2 -> 3600 [] u = u3 -> 60000]

\* Virtual size of a reveal of b bytes for n inscriptions, with change or without.
RevealVsize(b, n, change) ==
    111 + CeilDiv(b, 4) + 43 * (n - 1) + IF change THEN 43 ELSE 0

\* The parts never move together, so they share model values: the permutations of a
\* few sets are symmetries of each of them.
Symmetry ==
    Permutations({a1, a2}) \cup Permutations({b1, b2}) \cup Permutations({c1, c2})
=============================================================================
