---------------------------- MODULE DidResolution ----------------------------
(***************************************************************************)
(* Resolution of a DID of the library (packages/ordinalsplus/src):         *)
(* BtcoDidResolver over a provider of the chain or over data loaded        *)
(* beforehand (StaticDataProvider), the verification and issuing of        *)
(* credentials that resolve the issuer's DID (vc/service.ts).              *)
(*                                                                         *)
(* One DID, hence one sat, whose inscriptions only grow in number.  Of an  *)
(* inscription the resolver tells apart a valid document with the DID's    *)
(* own id, the deactivation mark, and anything else; a document lists one  *)
(* key.                                                                    *)
(***************************************************************************)
EXTENDS Integers, Sequences, FiniteSetsExt

CONSTANTS
    SigningKeys,
    Queries,            \* bound: calls under way at once
    MaxInscribed,       \* bound: inscriptions on the sat
    MaxRetries          \* retries of a request to issue

ASSUME ResolutionAssumption == MaxInscribed \in Nat /\ MaxRetries \in Nat

VARIABLES
    onSat,      \* the inscriptions on the sat, oldest first
    static,     \* whether the provider is the one of data loaded beforehand
    loaded,     \* how many of the inscriptions were loaded into it
    query       \* what each call does next

resolutionVars == <<onSat, static, loaded, query>>

Document(k) == [is |-> "document", key |-> k]
Contents == {Document(k) : k \in SigningKeys} \cup {[is |-> "deactivation"], [is |-> "other"]}

Asleep == [at |-> "idle"]
NoDocument == 0

ResolutionInit ==
    /\ onSat = <<>>
    /\ static \in BOOLEAN /\ loaded = 0
    /\ query = [q \in Queries |-> Asleep]

Proceed(q, next) == query' = [query EXCEPT ![q] = next]

Inscribe(content) ==
    /\ Len(onSat) < MaxInscribed
    /\ onSat' = Append(onSat, content)
    /\ UNCHANGED <<static, loaded, query>>

\* loadSatData, addStaticData: what is on the sat now replaces what was loaded.
LoadSatData ==
    /\ static
    /\ loaded' = Len(onSat)
    /\ UNCHANGED <<onSat, static, query>>

\* getSatInfo of either provider.
InscriptionIds == IF static THEN loaded ELSE Len(onSat)

Documents(n) == {i \in 1..n : onSat[i].is = "document"}
Newest(indexes) == Max(indexes \cup {NoDocument})

\* (mutant of Latest) the list is searched from its start
Earliest(indexes) == IF indexes = {} THEN NoDocument ELSE Min(indexes)

\* The search goes from the last inscription to the first, over those that
\* were read with their metadata; neither a deactivation nor an inscription
\* that was not read ends it.
Latest(indexes) == Newest(indexes)

(***************************************************************************)
(* resolve, for one of four callers: one that wants the document, a        *)
(* verification that looks whether the issuer resolves, its document       *)
(* loader that looks for the key, and an issue that looks at its issuer.   *)
(***************************************************************************)
Answered(q, outcome) ==
    LET c == query[q]
        found == outcome.document # NoDocument
        ok    == found /\ onSat[outcome.document].key = c.key
        next  == [c EXCEPT !.clean = @ /\ outcome.clean]
        verdict(v) == [at |-> "verdict", key |-> c.key, accepted |-> v,
                       since |-> c.since, clean |-> next.clean]
    IN  \/ /\ c.at = "resolve"
           /\ Proceed(q, [at |-> "resolved", document |-> outcome.document,
                          listed |-> outcome.listed])
        \/ /\ c.at = "issuer"
           /\ Proceed(q, IF outcome.listed = 0 THEN verdict(FALSE) ELSE [next EXCEPT !.at = "key"])
        \/ /\ c.at = "key"
           /\ \E v \in IF found THEN {ok} ELSE BOOLEAN : Proceed(q, verdict(v))
        \/ /\ c.at = "validate"
           /\ Proceed(q, IF outcome.listed = 0 THEN Asleep ELSE [next EXCEPT !.at = "request"])

\* Every inscription of the list is read, one after the other; what is not
\* found, or whose content or metadata cannot be had, has no document.
Resolve(q) ==
    /\ query[q].at \in {"resolve", "issuer", "key", "validate"}
    /\ LET n == InscriptionIds IN
       \E missed \in SUBSET (1..n) :
         /\ Answered(q, [listed |-> n, document |-> Latest(Documents(n) \ missed),
                         clean |-> missed = {}])
    /\ UNCHANGED <<onSat, static, loaded>>

\* getSatInfo fails, or the sat has no inscriptions: an error, not a document.
NotFound(q) ==
    /\ query[q].at \in {"resolve", "issuer", "key", "validate"}
    /\ ~static
    /\ Answered(q, [listed |-> 0, document |-> NoDocument, clean |-> FALSE])
    /\ UNCHANGED <<onSat, static, loaded>>

Ready(q) == query[q].at \in {"idle", "resolved", "verdict"}

StartResolution(q) ==
    /\ Ready(q)
    /\ Proceed(q, [at |-> "resolve", clean |-> TRUE])
    /\ UNCHANGED <<onSat, static, loaded>>

\* verifyCredential, of a credential that passes the local checks and was
\* signed with the key.
StartVerification(q, k) ==
    /\ Ready(q)
    /\ Proceed(q, [at |-> "issuer", key |-> k, clean |-> TRUE,
                   since |-> Newest(Documents(InscriptionIds))])
    /\ UNCHANGED <<onSat, static, loaded>>

(***************************************************************************)
(* issueCredential: the issuing service signs with the key, each request   *)
(* that reaches it making a credential, and one without an answer is sent  *)
(* again.  What comes back is verified before it is handed out.            *)
(***************************************************************************)
StartIssue(q, k) ==
    /\ Ready(q)
    /\ Proceed(q, [at |-> "validate", key |-> k, clean |-> TRUE, left |-> MaxRetries,
                   since |-> Newest(Documents(InscriptionIds))])
    /\ UNCHANGED <<onSat, static, loaded>>

Issue(q) ==
    LET c == query[q] IN
    /\ c.at = "request"
    /\ \/ Proceed(q, [at |-> "issuer", key |-> c.key, clean |-> TRUE,
                      since |-> Newest(Documents(InscriptionIds))])
       \/ Proceed(q, IF c.left = 0 THEN Asleep ELSE [c EXCEPT !.left = @ - 1])
    /\ UNCHANGED <<onSat, static, loaded>>

ResolutionNext ==
    \/ \E c \in Contents : Inscribe(c)
    \/ LoadSatData
    \/ \E q \in Queries :
         \/ StartResolution(q) \/ Resolve(q) \/ NotFound(q) \/ Issue(q)
         \/ \E k \in SigningKeys : StartVerification(q, k) \/ StartIssue(q, k)

ResolutionSpec == ResolutionInit /\ [][ResolutionNext]_resolutionVars

-----------------------------------------------------------------------------
ResolutionTypeOK ==
    /\ onSat \in Seq(Contents) /\ Len(onSat) <= MaxInscribed
    /\ static \in BOOLEAN /\ loaded \in 0..Len(onSat)
    /\ \A q \in Queries :
         query[q].at \in {"idle", "resolve", "resolved", "issuer", "key", "verdict",
                          "validate", "request"}

\* A key that was rotated out verifies nothing more: a credential accepted by
\* a verification that could read the sat was signed with the key of a document
\* no older than the newest one there was when the verification began, though
\* the DID is resolved twice and the sat changes meanwhile
\* (vc/service.ts:302-366, btco-did-resolver.ts:300-312).
RotatedKeyRefused ==
    \A q \in Queries :
        LET v == query[q] IN
        v.at = "verdict" /\ v.accepted /\ v.clean /\ v.since # NoDocument =>
            \E i \in v.since..Len(onSat) : onSat[i] = Document(v.key)

\* The method the resolver names, "Retrieve the content from the most recent
\* inscription on the satoshi" (btco-did-resolver.ts:77): a document is answered
\* only from the last inscription of the list.
ResolvesMostRecent ==
    \A q \in Queries :
        query[q].at = "resolved" => query[q].document \in {NoDocument, query[q].listed}
=============================================================================
