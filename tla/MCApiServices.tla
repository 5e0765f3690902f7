--------------------------- MODULE MCApiServices ---------------------------
(***************************************************************************)
(* The stateful services of the API (packages/ordinals-plus-api/src) side  *)
(* by side: collections with their credentials, inscriptions of            *)
(* collections, inscriptions of resources, verification, the client of the *)
(* credential service (its breakers and retries), and the list of          *)
(* resources with the page that shows it.  They share no state beyond what *)
(* each module has (the inscriptions of collections only ask the           *)
(* repository whether a collection is there), so a behaviour of all of     *)
(* them is one behaviour of each: one part moves at a time, and it is the  *)
(* same part throughout.                                                   *)
(***************************************************************************)
EXTENDS CollectionCredentials, CollectionInscriptions, ResourceInscriptions,
        Verification, ApiClient, ResourceListing, TLC

VARIABLE part    \* the service whose behaviours these are

vars == <<collectionsVars, inscriptionVars, resourceVars, verificationVars, clientVars,
          listingVars, part>>

Parts == {"collections", "inscriptions", "resources", "verification", "client", "listing"}

Init ==
    /\ CollectionsInit
    /\ InscriptionInit
    /\ ResourceInit
    /\ VerificationInit
    /\ ClientInit
    /\ ListingInit
    /\ part \in Parts

Next ==
    /\ UNCHANGED part
    /\ \/ /\ part = "collections"
          /\ CollectionsNext
          /\ UNCHANGED <<inscriptionVars, resourceVars, verificationVars, clientVars, listingVars>>
       \/ /\ part = "inscriptions"
          /\ InscriptionNext
          /\ UNCHANGED <<collectionsVars, resourceVars, verificationVars, clientVars, listingVars>>
       \/ /\ part = "resources"
          /\ ResourceNext
          /\ UNCHANGED <<collectionsVars, inscriptionVars, verificationVars, clientVars, listingVars>>
       \/ /\ part = "verification"
          /\ VerificationNext
          /\ UNCHANGED <<collectionsVars, inscriptionVars, resourceVars, clientVars, listingVars>>
       \/ /\ part = "client"
          /\ ClientNext
          /\ UNCHANGED <<collectionsVars, inscriptionVars, resourceVars, verificationVars, listingVars>>
       \/ /\ part = "listing"
          /\ ListingNext
          /\ UNCHANGED <<collectionsVars, inscriptionVars, resourceVars, verificationVars,
                         clientVars>>

Spec == Init /\ [][Next]_vars

-----------------------------------------------------------------------------
TypeOK ==
    /\ CollectionsTypeOK
    /\ InscriptionTypeOK
    /\ ResourceTypeOK
    /\ VerificationTypeOK
    /\ ClientTypeOK
    /\ ListingTypeOK
    /\ part \in Parts

-----------------------------------------------------------------------------
\* The instance for TLC; the .cfg file gives the sizes.

CONSTANTS k1, k2, i1, i2, u1, u2, v1, v2, id1, e1, e2, d1, d2

\* Two versions of one credential.
SameId == [v \in {v1, v2} |-> id1]

\* Two resources, one of them with a block.
MCRidOf == e1 :> d1 @@ e2 :> d2
MCMinedAt == e1 :> 1 @@ e2 :> 0

\* Calls, items and curators are alike: no constant tells them apart.
Symmetry ==
    Permutations({k1, k2}) \cup Permutations({i1, i2}) \cup Permutations({u1, u2})
=============================================================================
