---------------------------- MODULE Verification ----------------------------
(***************************************************************************)
(* VerificationService of the API                                          *)
(* (packages/ordinals-plus-api/src/services/verificationService.ts) with   *)
(* the issuing and verifying of VCService (services/vcService.ts): several *)
(* requests at once over a cache of results and a cache of issuers, whose  *)
(* entries count for TTL.  A request runs up to its next await in one      *)
(* action; results are cached, whatever they are.                          *)
(***************************************************************************)
EXTENDS Naturals, FiniteSets

CONSTANTS
    Vcs,            \* credentials, as objects
    VcIds,          \* their ids
    VcId,           \* id, by credential
    SignedVcs,      \* credentials whose proof verifies
    Inscribed,      \* inscriptions
    Verifiers,      \* bound: requests that may be under way at once
    TTL,            \* cacheTtlMs, in ticks
    MaxTime         \* bound: ticks

ASSUME VerificationAssumption ==
    /\ VcId \in [Vcs -> VcIds]
    /\ SignedVcs \subseteq Vcs
    /\ TTL \in Nat \ {0} /\ MaxTime \in Nat
    /\ Inscribed \cap VcIds = {}    \* the keys of the cache have a prefix each
    /\ "no inscription" \notin Inscribed

VARIABLES
    now,            \* Date.now(), in ticks
    results,        \* verificationCache: by inscription or credential id
    issuerCache,    \* issuerCache: the time stamp of the issuer's entry
    checks,         \* what each request waits for
    issuedVcs       \* credentials in the repository of VCService

verificationVars == <<now, results, issuerCache, checks, issuedVcs>>

NoEntry == [status |-> "none"]
Free == [at |-> "free"]
NoVc == "no credential"
NoInscription == "no inscription"

\* origin: when the checks were made that an entry repeats.
Entry == [status : {"VALID", "INVALID", "NO_METADATA"}, stamp : 0..MaxTime,
          origin : 0..MaxTime]

VerificationInit ==
    /\ now = 0
    /\ results = [k \in Inscribed \cup VcIds |-> NoEntry]
    /\ issuerCache = NoEntry
    /\ checks = [r \in Verifiers |-> Free]
    /\ issuedVcs = {}

\* (mutant of Fresh: an entry counts for ever)
FreshForever(entry) == entry # NoEntry

Fresh(entry) == entry # NoEntry /\ now - entry.stamp < TTL

Made(status) == [status |-> status, stamp |-> now, origin |-> now]

\* The request is answered: an inscription's answer is cached once more under
\* its own key, with the time of this moment.
Answer(r, inscription, entry, cached) ==
    /\ results' = IF inscription = NoInscription THEN cached
                  ELSE [cached EXCEPT ![inscription] =
                          [entry EXCEPT !.stamp = now]]
    /\ checks' = [checks EXCEPT ![r] = [at |-> "answered", entry |-> entry]]

Forget(r) ==
    /\ checks[r].at = "answered"
    /\ checks' = [checks EXCEPT ![r] = Free]
    /\ UNCHANGED <<now, results, issuerCache, issuedVcs>>

\* verifyCredential, for itself or for an inscription's metadata: the cached
\* result for this id, or else the issuer's DID is resolved.
CheckVc(r, v, inscription) ==
    IF Fresh(results[VcId[v]])
    THEN Answer(r, inscription, results[VcId[v]], results)
    ELSE /\ checks' = [checks EXCEPT ![r] =
              [at |-> "resolving", vc |-> v, inscription |-> inscription]]
         /\ UNCHANGED results

VerifyCredential(r, v) ==
    /\ checks[r] = Free
    /\ CheckVc(r, v, NoInscription)
    /\ UNCHANGED <<now, issuerCache, issuedVcs>>

VerifyInscription(r, i) ==
    /\ checks[r] = Free
    /\ IF Fresh(results[i])
       THEN Answer(r, NoInscription, results[i], results)
       ELSE /\ checks' = [checks EXCEPT ![r] = [at |-> "metadata", inscription |-> i]]
            /\ UNCHANGED results
    /\ UNCHANGED <<now, issuerCache, issuedVcs>>

\* The provider or the API's own route has answered with a credential, or
\* with none: other metadata, an error of both, a missing key all look alike.
MetadataAnswered(r) ==
    LET c == checks[r]
    IN  /\ c.at = "metadata"
        /\ \/ \E v \in Vcs : CheckVc(r, v, c.inscription)
           \/ Answer(r, c.inscription, Made("NO_METADATA"), results)
        /\ UNCHANGED <<now, issuerCache, issuedVcs>>

Conclude(r, status) ==
    LET c == checks[r]
    IN  Answer(r, c.inscription, Made(status),
               [results EXCEPT ![VcId[c.vc]] = Made(status)])

\* basicVerifyCredential: the structure and the issuer's DID document.
DidResolved(r) ==
    /\ checks[r].at = "resolving"
    /\ \/ Conclude(r, "INVALID")
       \/ checks' = [checks EXCEPT ![r].at = "proving"] /\ UNCHANGED results
    /\ UNCHANGED <<now, issuerCache, issuedVcs>>

\* VCService.verifyCredential: the answer of the shared verifier, or, when
\* that throws, of the local one, which accepts no type of proof.
Proves(v) == {(v \in SignedVcs), FALSE}

ProofChecked(r) ==
    LET c == checks[r]
    IN  /\ c.at = "proving"
        /\ \E proved \in Proves(c.vc) :
             IF ~proved
             THEN Conclude(r, "INVALID")
             ELSE IF Fresh(issuerCache)
             THEN Conclude(r, "VALID")
             ELSE checks' = [checks EXCEPT ![r].at = "issuer"] /\ UNCHANGED results
        /\ UNCHANGED <<now, issuerCache, issuedVcs>>

\* getIssuerInfo: an issuer that could not be resolved is cached as well.
IssuerEntry == {[status |-> "full", stamp |-> now], [status |-> "did only", stamp |-> now]}

IssuerResolved(r) ==
    /\ checks[r].at = "issuer"
    /\ issuerCache' \in IssuerEntry
    /\ Conclude(r, "VALID")
    /\ UNCHANGED <<now, issuedVcs>>

\* The route for an issuer.
GetIssuer(r) ==
    /\ checks[r] = Free
    /\ ~Fresh(issuerCache)
    /\ checks' = [checks EXCEPT ![r] = [at |-> "issuerOnly"]]
    /\ UNCHANGED <<now, results, issuerCache, issuedVcs>>

IssuerAnswered(r) ==
    /\ checks[r].at = "issuerOnly"
    /\ issuerCache' \in IssuerEntry
    /\ checks' = [checks EXCEPT ![r] = Free]
    /\ UNCHANGED <<now, results, issuedVcs>>

ClearCache ==
    /\ results' = [k \in Inscribed \cup VcIds |-> NoEntry]
    /\ issuerCache' = NoEntry
    /\ UNCHANGED <<now, checks, issuedVcs>>

\* issueCredential: the service signs, the result is verified, and only then
\* stored.  What the service throws is not of a class the circuit breaker
\* counts (get and post of the client go past its wrapped request), so the
\* breaker stays closed and is no state here.
IssueVc(r) ==
    /\ checks[r] = Free
    /\ checks' = [checks EXCEPT ![r] = [at |-> "issuing"]]
    /\ UNCHANGED <<now, results, issuerCache, issuedVcs>>

VcSigned(r) ==
    /\ checks[r].at = "issuing"
    /\ \/ \E v \in Vcs :
            checks' = [checks EXCEPT ![r] = [at |-> "checkingIssued", vc |-> v]]
       \/ checks' = [checks EXCEPT ![r] = Free]
    /\ UNCHANGED <<now, results, issuerCache, issuedVcs>>

IssuedChecked(r) ==
    /\ checks[r].at = "checkingIssued"
    /\ \E proved \in Proves(checks[r].vc) :
         issuedVcs' = IF proved THEN issuedVcs \cup {checks[r].vc} ELSE issuedVcs
    /\ checks' = [checks EXCEPT ![r] = Free]
    /\ UNCHANGED <<now, results, issuerCache>>

Tick ==
    /\ now < MaxTime
    /\ now' = now + 1
    /\ UNCHANGED <<results, issuerCache, checks, issuedVcs>>

VerificationNext ==
    \/ \E r \in Verifiers :
         \/ \E v \in Vcs : VerifyCredential(r, v)
         \/ \E i \in Inscribed : VerifyInscription(r, i)
         \/ MetadataAnswered(r)
         \/ DidResolved(r)
         \/ ProofChecked(r)
         \/ IssuerResolved(r)
         \/ GetIssuer(r)
         \/ IssuerAnswered(r)
         \/ IssueVc(r)
         \/ VcSigned(r)
         \/ IssuedChecked(r)
         \/ Forget(r)
    \/ ClearCache
    \/ Tick

VerificationSpec == VerificationInit /\ [][VerificationNext]_verificationVars

-----------------------------------------------------------------------------
VerificationTypeOK ==
    /\ now \in 0..MaxTime
    /\ results \in [Inscribed \cup VcIds -> Entry \cup {NoEntry}]
    /\ issuerCache # NoEntry => issuerCache.stamp \in 0..now
    /\ \A r \in Verifiers :
         checks[r].at \in {"free", "metadata", "resolving", "proving", "issuer",
                           "issuerOnly", "issuing", "checkingIssued", "answered"}
    /\ issuedVcs \subseteq SignedVcs

\* A result is never older than two lifetimes of the cache when a request is
\* answered with it: an inscription's entry may repeat a credential's entry
\* at the end of its life, and is then repeated itself.
AnswersAreRecent ==
    [][\A r \in Verifiers :
          checks[r].at # "answered" /\ checks'[r].at = "answered"
            => now - checks'[r].entry.origin < 2 * TTL]_verificationVars
=============================================================================
