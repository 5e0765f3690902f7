------------------------------ MODULE ApiProofs ------------------------------
(***************************************************************************)
(* Theorems about the services of the API, one section for each.           *)
(***************************************************************************)
EXTENDS CollectionCredentials, CollectionInscriptions, Verification, ApiClient, ResourceListing,
        FiniteSetTheorems, WellFoundedInduction, TLAPS

-----------------------------------------------------------------------------
(***************************************************************************)
(* Collections and their credentials.                                      *)
(***************************************************************************)
Changes == {"writing", "deleting"}

\* What a call in flight holds.
CallHolds(c) ==
    /\ c.at \in {"idle", "writing", "deleting", "signing", "attaching", "revoking", "marking",
                 "erasing"}
    /\ c.at \in Changes => c.id \in CollectionIds /\ c.old \in Collection
    /\ c.at = "writing" => c.new \in Collection
    /\ c.at = "signing" => c.id \in CollectionIds /\ c.issuer \in Curators
    /\ c.at = "attaching" => /\ c.id \in CollectionIds
                             /\ c.credential \in CredentialIds \cup {EmptyCredential}
    /\ c.at \in {"revoking", "marking"} => c.cid \in CredentialIds /\ c.read \in Credential
    /\ c.at = "erasing" => c.cid \in CredentialIds

\* A collection that can be reached is stored under every value it carries.
CollectionsInv ==
    /\ RepositoryTypeOK /\ CredentialTypeOK
    /\ issued \subseteq CredentialIds /\ started \in 0..MaxCalls /\ files \in 0..MaxFiles
    /\ DOMAIN calls = Calls /\ \A k \in Calls : CallHolds(calls[k])
    /\ byId \subseteq metadata
    /\ \A id \in byId : collections[id] \in Collection /\ Entries(id, collections[id]) \subseteq byField

LEMMA NotACollection == NoCollection \notin Collection /\ NotStored \notin Credential
BY DEF NoCollection, Collection, NotStored, Credential

LEMMA EntriesAreOfId ==
    ASSUME NEW c \in Collection, NEW id \in CollectionIds
    PROVE  /\ Entries(id, c) \subseteq (Curators \cup Labels \cup Items) \X CollectionIds
           /\ \A e \in Entries(id, c) : e[2] = id
BY DEF Entries, Collection

LEMMA CallsKept ==
    ASSUME DOMAIN calls = Calls, \A j \in Calls : CallHolds(calls[j]),
           NEW k \in Calls, NEW c, CallHolds(c), SetCall(k, c)
    PROVE  DOMAIN calls' = Calls /\ \A j \in Calls : CallHolds(calls'[j])
BY DEF SetCall

LEMMA IdleHolds == CallHolds(Idle)
BY DEF CallHolds, Idle, Changes

LEMMA WriteKeeps ==
    ASSUME CollectionsInv, NEW id \in CollectionIds, NEW old \in Collection, NEW new \in Collection,
           Write(id, old, new)
    PROVE  /\ RepositoryTypeOK' /\ byId' \subseteq metadata'
           /\ \A i \in byId' : /\ collections'[i] \in Collection
                               /\ Entries(i, collections'[i]) \subseteq byField'
<1>1. CASE id \notin byId
  BY <1>1 DEF Write, CollectionsInv, RepositoryTypeOK, repositoryVars
<1>2. CASE id \in byId
  <2>1. /\ collections' = [collections EXCEPT ![id] = new]
        /\ metadata' = metadata \cup {id}
        /\ byField' = (byField \ Entries(id, old)) \cup Entries(id, new)
        /\ byId' = byId /\ backup' = backup /\ created' = created
    BY <1>2 DEF Write
  <2>2. /\ collections \in [CollectionIds -> Collection \cup {NoCollection}]
        /\ byId \subseteq CollectionIds
    BY DEF CollectionsInv, RepositoryTypeOK
  <2>3. RepositoryTypeOK'
    BY <2>1, EntriesAreOfId DEF CollectionsInv, RepositoryTypeOK
  <2>4. ASSUME NEW i \in byId
        PROVE  collections'[i] \in Collection /\ Entries(i, collections'[i]) \subseteq byField'
    <3>1. CASE i = id
      BY <2>1, <2>2, <3>1
    <3>2. CASE i # id
      <4>1. collections'[i] = collections[i] /\ collections[i] \in Collection
        BY <2>1, <2>2, <3>2 DEF CollectionsInv
      <4>2. Entries(i, collections[i]) \subseteq byField
        BY DEF CollectionsInv
      <4>3. \A e \in Entries(i, collections[i]) : e[2] = i
        BY <2>2, <4>1, EntriesAreOfId
      <4>4. \A e \in Entries(id, old) : e[2] = id
        BY EntriesAreOfId
      <4>5. QED BY <2>1, <3>2, <4>1, <4>2, <4>3, <4>4
    <3>3. QED BY <3>1, <3>2
  <2>5. QED BY <2>1, <2>3, <2>4 DEF CollectionsInv
<1>3. QED BY <1>1, <1>2

LEMMA DeleteKeeps ==
    ASSUME CollectionsInv, NEW id \in CollectionIds, NEW old \in Collection, Delete(id, old)
    PROVE  /\ RepositoryTypeOK' /\ byId' \subseteq metadata'
           /\ \A i \in byId' : /\ collections'[i] \in Collection
                               /\ Entries(i, collections'[i]) \subseteq byField'
<1>1. /\ collections \in [CollectionIds -> Collection \cup {NoCollection}]
      /\ byId \subseteq CollectionIds
  BY DEF CollectionsInv, RepositoryTypeOK
<1>2. RepositoryTypeOK' /\ byId' \subseteq metadata'
  BY DEF Delete, CollectionsInv, RepositoryTypeOK
<1>3. ASSUME NEW i \in byId'
      PROVE  collections'[i] \in Collection /\ Entries(i, collections'[i]) \subseteq byField'
  <2>1. i \in byId /\ i # id /\ byField' = byField \ Entries(id, old)
    BY DEF Delete
  <2>2. collections'[i] = collections[i] /\ collections[i] \in Collection
    BY <1>1, <2>1 DEF Delete, CollectionsInv
  <2>3. Entries(i, collections[i]) \subseteq byField
    BY <2>1 DEF CollectionsInv
  <2>4. \A e \in Entries(i, collections[i]) : e[2] = i
    BY <1>1, <2>1, <2>2, EntriesAreOfId
  <2>5. \A e \in Entries(id, old) : e[2] = id
    BY EntriesAreOfId
  <2>6. QED BY <2>1, <2>2, <2>3, <2>4, <2>5
<1>4. QED BY <1>2, <1>3

LEMMA CreateKeeps ==
    ASSUME CollectionsInv, NEW id \in CollectionIds, NEW c \in Collection, Create(id, c)
    PROVE  /\ RepositoryTypeOK' /\ byId' \subseteq metadata'
           /\ \A i \in byId' : /\ collections'[i] \in Collection
                               /\ Entries(i, collections'[i]) \subseteq byField'
<1>1. /\ collections \in [CollectionIds -> Collection \cup {NoCollection}]
      /\ byId \subseteq CollectionIds
  BY DEF CollectionsInv, RepositoryTypeOK
<1>2. RepositoryTypeOK' /\ byId' \subseteq metadata'
  BY EntriesAreOfId DEF Create, CollectionsInv, RepositoryTypeOK
<1>3. ASSUME NEW i \in byId'
      PROVE  collections'[i] \in Collection /\ Entries(i, collections'[i]) \subseteq byField'
  <2>1. CASE i = id
    BY <1>1, <2>1 DEF Create
  <2>2. CASE i # id
    BY <1>1, <2>2 DEF Create, CollectionsInv
  <2>3. QED BY <2>1, <2>2
<1>4. QED BY <1>2, <1>3

LEMMA EditsAreCollections ==
    ASSUME NEW c \in Collection
    PROVE  /\ Edits(c) \subseteq Collection
           /\ \A cid \in CredentialIds \cup {EmptyCredential} : SetCredential(c, cid) \in Collection
BY DEF Edits, AddItem, RemoveItem, UpdateItem, UpdateMetadata, SetCredential, Collection

LEMMA FoundIsCollection ==
    ASSUME CollectionsInv, NEW id, Found(id)
    PROVE  id \in CollectionIds /\ collections[id] \in Collection
BY DEF CollectionsInv, RepositoryTypeOK, Found

\* Where the collections stay as they are.
LEMMA RepositoryStays ==
    ASSUME CollectionsInv, UNCHANGED repositoryVars
    PROVE  /\ RepositoryTypeOK' /\ byId' \subseteq metadata'
           /\ \A i \in byId' : /\ collections'[i] \in Collection
                               /\ Entries(i, collections'[i]) \subseteq byField'
BY DEF CollectionsInv, RepositoryTypeOK, repositoryVars

LEMMA CredentialsStay ==
    ASSUME CollectionsInv, UNCHANGED credentialVars
    PROVE  CredentialTypeOK'
BY DEF CollectionsInv, CredentialTypeOK, credentialVars

LEMMA StartsKeep ==
    ASSUME CollectionsInv, NEW k \in Calls, Starts(k)
    PROVE  CollectionsInv'
<1>1. UNCHANGED <<repositoryVars, credentialVars, issued, files>> /\ started' \in 0..MaxCalls
  <2>1. /\ UNCHANGED <<repositoryVars, credentialVars, issued, files>>
        /\ started < MaxCalls /\ started' = started + 1
    BY DEF Starts, StartEdit, StartDelete, StartIssue, StartRevoke, StartDeleteCredential, MayStart
  <2>2. started \in 0..MaxCalls
    BY DEF CollectionsInv
  <2>3. QED BY <2>1, <2>2, CollectionsAssumption
<1>2. \E c : CallHolds(c) /\ SetCall(k, c)
  <2>1. ASSUME NEW id \in CollectionIds, StartEdit(k, id) \/ StartDelete(k, id)
        PROVE  \E c : CallHolds(c) /\ SetCall(k, c)
    <3>1. collections[id] \in Collection
      BY <2>1, FoundIsCollection DEF StartEdit, StartDelete
    <3>2. CASE StartEdit(k, id)
      <4>1. PICK new \in Edits(collections[id]) : SetCall(k, Writing(id, collections[id], new))
        BY <3>2 DEF StartEdit
      <4>2. new \in Collection
        BY <3>1, EditsAreCollections
      <4>3. CallHolds(Writing(id, collections[id], new))
        BY <3>1, <4>2 DEF CallHolds, Writing, Changes
      <4>4. QED BY <4>1, <4>3
    <3>3. CASE StartDelete(k, id)
      <4>1. CallHolds([at |-> "deleting", id |-> id, old |-> collections[id]])
        BY <3>1 DEF CallHolds, Changes
      <4>2. QED BY <3>3, <4>1 DEF StartDelete
    <3>4. QED BY <2>1, <3>2, <3>3
  <2>2. ASSUME NEW id \in CollectionIds, NEW u \in Curators, StartIssue(k, id, u)
        PROVE  \E c : CallHolds(c) /\ SetCall(k, c)
    <3>1. CallHolds([at |-> "signing", id |-> id, issuer |-> u])
      BY DEF CallHolds, Changes
    <3>2. QED BY <2>2, <3>1 DEF StartIssue
  <2>3. ASSUME NEW cid \in CredentialIds, NEW u \in Curators, StartRevoke(k, cid, u)
        PROVE  \E c : CallHolds(c) /\ SetCall(k, c)
    <3>1. credentials[cid] \in Credential
      BY <2>3 DEF StartRevoke, Stored, CollectionsInv, CredentialTypeOK
    <3>2. CallHolds([at |-> "revoking", cid |-> cid, read |-> credentials[cid]])
      BY <3>1 DEF CallHolds, Changes
    <3>3. QED BY <2>3, <3>2 DEF StartRevoke
  <2>4. ASSUME NEW cid \in CredentialIds, StartDeleteCredential(k, cid)
        PROVE  \E c : CallHolds(c) /\ SetCall(k, c)
    <3>1. CallHolds([at |-> "erasing", cid |-> cid])
      BY DEF CallHolds, Changes
    <3>2. QED BY <2>4, <3>1 DEF StartDeleteCredential
  <2>5. QED BY <2>1, <2>2, <2>3, <2>4 DEF Starts
<1>3. DOMAIN calls' = Calls /\ \A j \in Calls : CallHolds(calls'[j])
  BY <1>2, CallsKept DEF CollectionsInv
<1>4. QED BY <1>1, <1>3, RepositoryStays, CredentialsStay DEF CollectionsInv

LEMMA CallStepsKeep ==
    ASSUME CollectionsInv, NEW k \in Calls, CallSteps(k)
    PROVE  CollectionsInv'
<1> DEFINE c == calls[k]
<1>1. CallHolds(c) /\ DOMAIN calls = Calls
  BY DEF CollectionsInv
<1>2. CASE FinishWrite(k)
  <2>1. /\ c.at = "writing" /\ Write(c.id, c.old, c.new) /\ SetCall(k, Idle)
        /\ UNCHANGED <<credentialVars, issued, started, files>>
    BY <1>2 DEF FinishWrite, Ends
  <2>2. c.id \in CollectionIds /\ c.old \in Collection /\ c.new \in Collection
    BY <1>1, <2>1 DEF CallHolds, Changes
  <2>3. DOMAIN calls' = Calls /\ \A j \in Calls : CallHolds(calls'[j])
    BY <2>1, IdleHolds, CallsKept DEF CollectionsInv
  <2> HIDE DEF c
  <2>4. QED BY <2>1, <2>2, <2>3, WriteKeeps, CredentialsStay DEF CollectionsInv
<1>3. CASE FinishDelete(k)
  <2>1. /\ c.at = "deleting" /\ Delete(c.id, c.old) /\ SetCall(k, Idle)
        /\ UNCHANGED <<credentialVars, issued, started, files>>
    BY <1>3 DEF FinishDelete, Ends
  <2>2. c.id \in CollectionIds /\ c.old \in Collection
    BY <1>1, <2>1 DEF CallHolds, Changes
  <2>3. DOMAIN calls' = Calls /\ \A j \in Calls : CallHolds(calls'[j])
    BY <2>1, IdleHolds, CallsKept DEF CollectionsInv
  <2> HIDE DEF c
  <2>4. QED BY <2>1, <2>2, <2>3, DeleteKeeps, CredentialsStay DEF CollectionsInv
<1>4. CASE RequestFails(k)
  <2>1. SetCall(k, Idle) /\ UNCHANGED <<repositoryVars, credentialVars, issued, started, files>>
    BY <1>4 DEF RequestFails, Ends
  <2>2. DOMAIN calls' = Calls /\ \A j \in Calls : CallHolds(calls'[j])
    BY <2>1, IdleHolds, CallsKept DEF CollectionsInv
  <2>3. QED BY <2>1, <2>2, RepositoryStays, CredentialsStay DEF CollectionsInv
<1>5. CASE Signed(k)
  <2>1. PICK cid \in CredentialIds \ issued :
          /\ issued' = issued \cup {cid}
          /\ StoreCredential(cid, [collection |-> c.id, issuer |-> c.issuer, revoked |-> FALSE])
          /\ SetCall(k, [at |-> "attaching", id |-> c.id, credential |-> cid])
    BY <1>5 DEF Signed
  <2>2. c.at = "signing" /\ UNCHANGED <<repositoryVars, started, files>>
    BY <1>5 DEF Signed
  <2>3. c.id \in CollectionIds /\ c.issuer \in Curators
    BY <1>1, <2>2 DEF CallHolds
  <2>4. [collection |-> c.id, issuer |-> c.issuer, revoked |-> FALSE] \in Credential
    BY <2>3 DEF Credential
  <2>5. CallHolds([at |-> "attaching", id |-> c.id, credential |-> cid])
    BY <2>3 DEF CallHolds, Changes
  <2>6. DOMAIN calls' = Calls /\ \A j \in Calls : CallHolds(calls'[j])
    BY <2>1, <2>5, CallsKept DEF CollectionsInv
  <2>7. CredentialTypeOK'
    BY <2>1, <2>4 DEF CollectionsInv, CredentialTypeOK, StoreCredential
  <2>8. QED BY <2>1, <2>2, <2>6, <2>7, RepositoryStays DEF CollectionsInv
<1>6. CASE Attach(k)
  <2>1. c.at = "attaching" /\ UNCHANGED <<repositoryVars, credentialVars, issued, started, files>>
    BY <1>6 DEF Attach
  <2>2. c.id \in CollectionIds /\ c.credential \in CredentialIds \cup {EmptyCredential}
    BY <1>1, <2>1 DEF CallHolds
  <2>3. CASE Found(c.id)
    <3>1. collections[c.id] \in Collection
      BY <2>3, FoundIsCollection
    <3>2. SetCredential(collections[c.id], c.credential) \in Collection
      BY <2>2, <3>1, EditsAreCollections
    <3>3. CallHolds(Writing(c.id, collections[c.id],
                            SetCredential(collections[c.id], c.credential)))
      BY <2>2, <3>1, <3>2 DEF CallHolds, Writing, Changes
    <3>4. SetCall(k, Writing(c.id, collections[c.id],
                             SetCredential(collections[c.id], c.credential)))
      BY <1>6, <2>3 DEF Attach
    <3>5. DOMAIN calls' = Calls /\ \A j \in Calls : CallHolds(calls'[j])
      BY <3>3, <3>4, CallsKept DEF CollectionsInv
    <3>6. QED BY <2>1, <3>5, RepositoryStays, CredentialsStay DEF CollectionsInv
  <2>4. CASE ~Found(c.id)
    <3>1. SetCall(k, Idle)
      BY <1>6, <2>4 DEF Attach, Ends
    <3>2. DOMAIN calls' = Calls /\ \A j \in Calls : CallHolds(calls'[j])
      BY <3>1, IdleHolds, CallsKept DEF CollectionsInv
    <3>3. QED BY <2>1, <3>2, RepositoryStays, CredentialsStay DEF CollectionsInv
  <2>5. QED BY <2>3, <2>4
<1>7. CASE Revoked(k)
  <2>1. c.at = "revoking" /\ UNCHANGED <<repositoryVars, credentialVars, issued, started, files>>
    BY <1>7 DEF Revoked
  <2>2. c.cid \in CredentialIds /\ c.read \in Credential /\ c.read.collection \in CollectionIds
    BY <1>1, <2>1 DEF CallHolds, Credential
  <2>3. /\ CallHolds([at |-> "marking", cid |-> c.cid, read |-> c.read])
        /\ CallHolds([at |-> "attaching", id |-> c.read.collection, credential |-> EmptyCredential])
    BY <2>2 DEF CallHolds, Changes
  <2>4. DOMAIN calls' = Calls /\ \A j \in Calls : CallHolds(calls'[j])
    BY <1>7, <2>3, CallsKept DEF CollectionsInv, Revoked
  <2>5. QED BY <2>1, <2>4, RepositoryStays, CredentialsStay DEF CollectionsInv
<1>8. CASE MarkRevoked(k)
  <2>1. /\ c.at = "marking" /\ UNCHANGED <<repositoryVars, issued, started, files>>
        /\ UpdateCredential(c.cid, [c.read EXCEPT !.revoked = TRUE])
        /\ SetCall(k, [at |-> "attaching", id |-> c.read.collection, credential |-> EmptyCredential])
    BY <1>8 DEF MarkRevoked
  <2>2. c.cid \in CredentialIds /\ c.read \in Credential /\ c.read.collection \in CollectionIds
    BY <1>1, <2>1 DEF CallHolds, Credential
  <2>3. CallHolds([at |-> "attaching", id |-> c.read.collection, credential |-> EmptyCredential])
    BY <2>2 DEF CallHolds, Changes
  <2>4. [c.read EXCEPT !.revoked = TRUE] \in Credential
    BY <2>2 DEF Credential
  <2>5. DOMAIN calls' = Calls /\ \A j \in Calls : CallHolds(calls'[j])
    BY <2>1, <2>3, CallsKept DEF CollectionsInv
  <2>6. CredentialTypeOK'
    BY <2>1, <2>4 DEF CollectionsInv, CredentialTypeOK, UpdateCredential
  <2>7. QED BY <2>1, <2>5, <2>6, RepositoryStays DEF CollectionsInv
<1>9. CASE FinishDeleteCredential(k)
  <2>1. /\ SetCall(k, Idle) /\ UNCHANGED <<repositoryVars, issued, started, files>>
        /\ DeleteCredential(c.cid)
    BY <1>9 DEF FinishDeleteCredential, Ends
  <2>2. DOMAIN calls' = Calls /\ \A j \in Calls : CallHolds(calls'[j])
    BY <2>1, IdleHolds, CallsKept DEF CollectionsInv
  <2>3. CredentialTypeOK'
    BY <2>1 DEF CollectionsInv, CredentialTypeOK, DeleteCredential
  <2>4. QED BY <2>1, <2>2, <2>3, RepositoryStays DEF CollectionsInv
<1>10. QED BY <1>2, <1>3, <1>4, <1>5, <1>6, <1>7, <1>8, <1>9 DEF CallSteps

LEMMA CreationKeeps ==
    ASSUME CollectionsInv, CreateCollection
    PROVE  CollectionsInv'
<1>1. PICK id \in CollectionIds, u \in Curators, l \in Labels, its \in SUBSET Items :
        Create(id, [curator |-> u, items |-> its, label |-> l, credential |-> NoCredential])
  BY DEF CreateCollection
<1>2. [curator |-> u, items |-> its, label |-> l, credential |-> NoCredential] \in Collection
  BY DEF Collection
<1>3. UNCHANGED <<credentialVars, calls, issued, started, files>>
  BY DEF CreateCollection
<1>4. QED BY <1>1, <1>2, <1>3, CreateKeeps, CredentialsStay DEF CollectionsInv

\* A backup is as good as what it was made of; a restore leaves nothing in the indexes.
LEMMA FilesKeep ==
    ASSUME CollectionsInv, Files
    PROVE  CollectionsInv'
<1>1. UNCHANGED <<calls, issued, started>> /\ files' \in 0..MaxFiles
  <2>1. files \in 0..MaxFiles
    BY DEF CollectionsInv
  <2>2. QED BY <2>1, CollectionsAssumption DEF Files
<1>2. CASE Backup /\ UNCHANGED credentialVars
  <2>1. /\ backup' = [collections |-> collections, metadata |-> metadata]
        /\ UNCHANGED <<collections, metadata, byId, byField, created>>
    BY <1>2 DEF Backup
  <2>2. RepositoryTypeOK'
    BY <2>1 DEF CollectionsInv, RepositoryTypeOK
  <2>3. QED BY <1>1, <1>2, <2>1, <2>2, CredentialsStay DEF CollectionsInv
<1>3. CASE Restore /\ UNCHANGED credentialVars
  <2>1. /\ backup # NoBackup
        /\ collections' = backup.collections /\ metadata' = backup.metadata
        /\ byId' = {} /\ byField' = {} /\ UNCHANGED <<backup, created>>
    BY <1>3 DEF Restore
  <2>2. RepositoryTypeOK'
    BY <2>1 DEF CollectionsInv, RepositoryTypeOK
  <2>3. QED BY <1>1, <1>3, <2>1, <2>2, CredentialsStay DEF CollectionsInv
<1>4. CASE (BackupCredentials \/ RestoreCredentials) /\ UNCHANGED repositoryVars
  <2>1. CredentialTypeOK'
    BY <1>4 DEF CollectionsInv, CredentialTypeOK, BackupCredentials, RestoreCredentials
  <2>2. QED BY <1>1, <1>4, <2>1, RepositoryStays DEF CollectionsInv
<1>5. QED BY <1>2, <1>3, <1>4 DEF Files

LEMMA CollectionsInvariant == CollectionsSpec => []CollectionsInv
<1>1. CollectionsInit => CollectionsInv
  <2> SUFFICES ASSUME CollectionsInit PROVE CollectionsInv
    OBVIOUS
  <2>1. RepositoryTypeOK /\ CredentialTypeOK /\ byId = {} /\ metadata = {}
    BY DEF CollectionsInit, RepositoryInit, CredentialInit, RepositoryTypeOK, CredentialTypeOK
  <2>2. issued = {} /\ started \in 0..MaxCalls /\ files \in 0..MaxFiles
    BY CollectionsAssumption DEF CollectionsInit
  <2>3. DOMAIN calls = Calls /\ \A k \in Calls : CallHolds(calls[k])
    BY IdleHolds DEF CollectionsInit
  <2>4. QED BY <2>1, <2>2, <2>3 DEF CollectionsInv
<1>2. CollectionsInv /\ [CollectionsNext]_collectionsVars => CollectionsInv'
  <2> SUFFICES ASSUME CollectionsInv, [CollectionsNext]_collectionsVars PROVE CollectionsInv'
    OBVIOUS
  <2>1. CASE UNCHANGED collectionsVars
    BY <2>1, RepositoryStays, CredentialsStay DEF CollectionsInv, collectionsVars
  <2>2. QED BY <2>1, StartsKeep, CallStepsKeep, CreationKeeps, FilesKeep DEF CollectionsNext
<1>3. QED BY <1>1, <1>2, PTL DEF CollectionsSpec

\* The repositories and the calls in flight keep their types.
THEOREM CollectionsTypeCorrect == CollectionsSpec => []CollectionsTypeOK
<1>1. CollectionsInv => CollectionsTypeOK
  BY DEF CollectionsInv, CollectionsTypeOK, CallHolds
<1>2. QED BY <1>1, CollectionsInvariant, PTL

\* A collection that can be reached is stored, and found under every value it carries,
\* whatever changes, deletions, backups and restores of it overlap.
THEOREM CollectionsIndexed == CollectionsSpec => []IndexComplete
<1>1. CollectionsInv => IndexComplete
  BY NotACollection DEF CollectionsInv, IndexComplete
<1>2. QED BY <1>1, CollectionsInvariant, PTL

\* No change under way brings a deleted collection back.
THEOREM DeletedIsGone == CollectionsSpec => DeletedStaysDeleted
<1>1. [CollectionsNext]_collectionsVars
        => [\A id \in created \ byId : id \notin byId']_repositoryVars
  <2> SUFFICES ASSUME [CollectionsNext]_collectionsVars
               PROVE  [\A id \in created \ byId : id \notin byId']_repositoryVars
    OBVIOUS
  <2>1. CASE CollectionsNext
    <3>1. CASE CreateCollection
      BY <3>1 DEF CreateCollection, Create
    <3>2. CASE \E k \in Calls : Starts(k) \/ CallSteps(k)
      <4>1. ASSUME NEW k \in Calls, Starts(k)
            PROVE  UNCHANGED repositoryVars
        BY <4>1 DEF Starts, StartEdit, StartDelete, StartIssue, StartRevoke,
             StartDeleteCredential, repositoryVars
      <4>2. ASSUME NEW k \in Calls, FinishWrite(k) \/ FinishDelete(k) \/ RequestFails(k)
            PROVE  byId' \subseteq byId
        BY <4>2 DEF FinishWrite, Write, FinishDelete, Delete, RequestFails, repositoryVars
      <4>3. ASSUME NEW k \in Calls, CallSteps(k)
            PROVE  byId' \subseteq byId
        BY <4>2, <4>3 DEF CallSteps, Signed, Attach, Write, Revoked, MarkRevoked, FinishDeleteCredential,
             repositoryVars
      <4>4. QED BY <3>2, <4>1, <4>3 DEF repositoryVars
    <3>3. CASE Files
      BY <3>3 DEF Files, Backup, Restore, repositoryVars
    <3>4. QED BY <2>1, <3>1, <3>2, <3>3 DEF CollectionsNext
  <2>2. CASE UNCHANGED collectionsVars
    BY <2>2 DEF collectionsVars
  <2>3. QED BY <2>1, <2>2
<1>2. QED BY <1>1, PTL DEF CollectionsSpec, DeletedStaysDeleted

(***************************************************************************)
(* Who may issue.  A collection has one curator for good, and an id of a   *)
(* credential is signed for one collection: whatever version of either is  *)
(* stored, in a backup or in the hands of a call says the same.  u gives   *)
(* the curators of the collections made, o the collections of the          *)
(* credentials signed.                                                     *)
(***************************************************************************)
\* c is a version of the collection id.
Version(u, o, id, c) ==
    c \in Collection =>
      /\ id \in DOMAIN u /\ c.curator = u[id]
      /\ c.credential \in CredentialIds => c.credential \in DOMAIN o /\ o[c.credential] = id

\* w is a version of the credential cid.
SignedFor(u, o, cid, w) ==
    w \in Credential =>
      /\ cid \in DOMAIN o /\ w.collection = o[cid]
      /\ w.collection \in DOMAIN u /\ w.issuer = u[w.collection]

CallAgrees(u, o, c) ==
    /\ c.at \in Changes => Version(u, o, c.id, c.old)
    /\ c.at = "writing" => Version(u, o, c.id, c.new)
    /\ c.at = "signing" => c.id \in DOMAIN u /\ c.issuer = u[c.id]
    /\ c.at = "attaching" /\ c.credential \in CredentialIds =>
         c.credential \in DOMAIN o /\ o[c.credential] = c.id
    /\ c.at \in {"revoking", "marking"} => SignedFor(u, o, c.cid, c.read)

Agreed(u, o) ==
    /\ \A id \in CollectionIds : Version(u, o, id, collections[id])
    /\ backup # NoBackup => \A id \in CollectionIds : Version(u, o, id, backup.collections[id])
    /\ \A cid \in CredentialIds : SignedFor(u, o, cid, credentials[cid])
    /\ credentialBackup # NoCredentialBackup =>
         \A cid \in CredentialIds : SignedFor(u, o, cid, credentialBackup.credentials[cid])
    /\ \A k \in Calls : CallAgrees(u, o, calls[k])

Curated ==
    \E u \in UNION {[S -> Curators] : S \in SUBSET created},
       o \in UNION {[S -> CollectionIds] : S \in SUBSET issued} : Agreed(u, o)

\* What was agreed stays so when more is created and signed.
LEMMA AgreementStays ==
    ASSUME NEW u, NEW v, NEW o, NEW q,
           \A id \in DOMAIN u : id \in DOMAIN v /\ v[id] = u[id],
           \A cid \in DOMAIN o : cid \in DOMAIN q /\ q[cid] = o[cid]
    PROVE  /\ \A id, c : Version(u, o, id, c) => Version(v, q, id, c)
           /\ \A cid, w : SignedFor(u, o, cid, w) => SignedFor(v, q, cid, w)
           /\ \A c : CallAgrees(u, o, c) => CallAgrees(v, q, c)
           /\ Agreed(u, o) => Agreed(v, q)
<1>1. ASSUME NEW id, NEW c, Version(u, o, id, c) PROVE Version(v, q, id, c)
  BY <1>1 DEF Version
<1>2. ASSUME NEW cid, NEW w, SignedFor(u, o, cid, w) PROVE SignedFor(v, q, cid, w)
  BY <1>2 DEF SignedFor
<1>3. ASSUME NEW c, CallAgrees(u, o, c) PROVE CallAgrees(v, q, c)
  BY <1>1, <1>2, <1>3 DEF CallAgrees
<1>4. QED BY <1>1, <1>2, <1>3 DEF Agreed

\* The edits of a collection keep its curator, and all but SetCredential its credential.
LEMMA EditsAgree ==
    ASSUME NEW u, NEW o, NEW id, NEW c \in Collection, Version(u, o, id, c)
    PROVE  /\ \A new \in Edits(c) : Version(u, o, id, new)
           /\ \A cid \in CredentialIds \cup {EmptyCredential} :
                (cid \in CredentialIds => cid \in DOMAIN o /\ o[cid] = id)
                  => Version(u, o, id, SetCredential(c, cid))
<1>1. \A new \in Edits(c) : new.curator = c.curator /\ new.credential = c.credential
  BY DEF Edits, AddItem, RemoveItem, UpdateItem, UpdateMetadata, Collection
<1>2. \A cid : SetCredential(c, cid).curator = c.curator /\ SetCredential(c, cid).credential = cid
  BY DEF SetCredential, Collection
<1>3. QED BY <1>1, <1>2 DEF Version

\* A step after which all that is held was held before, or agrees with it.
LEMMA StepAgrees ==
    ASSUME CollectionsInv, NEW k \in Calls, NEW c, SetCall(k, c),
           NEW u, NEW o, Agreed(u, o), CallAgrees(u, o, c),
           backup' = backup, credentialBackup' = credentialBackup,
           \A id \in CollectionIds : collections'[id] = collections[id]
                                     \/ Version(u, o, id, collections'[id]),
           \A cid \in CredentialIds : credentials'[cid] = credentials[cid]
                                      \/ SignedFor(u, o, cid, credentials'[cid])
    PROVE  Agreed(u, o)'
<1>1. \A j \in Calls : CallAgrees(u, o, calls'[j])
  BY DEF Agreed, SetCall, CollectionsInv
<1>2. \A id \in CollectionIds : Version(u, o, id, collections'[id])
  BY DEF Agreed
<1>3. \A cid \in CredentialIds : SignedFor(u, o, cid, credentials'[cid])
  BY DEF Agreed
<1>4. QED BY <1>1, <1>2, <1>3 DEF Agreed

LEMMA StartsAgree ==
    ASSUME CollectionsInv, NEW k \in Calls, Starts(k), NEW u, NEW o, Agreed(u, o)
    PROVE  Agreed(u, o)'
<1>1. UNCHANGED <<repositoryVars, credentialVars>>
  BY DEF Starts, StartEdit, StartDelete, StartIssue, StartRevoke, StartDeleteCredential
<1>2. \E c : CallAgrees(u, o, c) /\ SetCall(k, c)
  <2>1. ASSUME NEW id \in CollectionIds, StartEdit(k, id) \/ StartDelete(k, id)
        PROVE  \E c : CallAgrees(u, o, c) /\ SetCall(k, c)
    <3>1. collections[id] \in Collection /\ Version(u, o, id, collections[id])
      BY <2>1, FoundIsCollection DEF StartEdit, StartDelete, Agreed
    <3>2. CASE StartEdit(k, id)
      <4>1. PICK new \in Edits(collections[id]) : SetCall(k, Writing(id, collections[id], new))
        BY <3>2 DEF StartEdit
      <4>2. Version(u, o, id, new)
        BY <3>1, EditsAgree
      <4>3. CallAgrees(u, o, Writing(id, collections[id], new))
        BY <3>1, <4>2 DEF CallAgrees, Writing, Changes
      <4>4. QED BY <4>1, <4>3
    <3>3. CASE StartDelete(k, id)
      <4>1. CallAgrees(u, o, [at |-> "deleting", id |-> id, old |-> collections[id]])
        BY <3>1 DEF CallAgrees, Changes
      <4>2. QED BY <3>3, <4>1 DEF StartDelete
    <3>4. QED BY <2>1, <3>2, <3>3
  <2>2. ASSUME NEW id \in CollectionIds, NEW i \in Curators, StartIssue(k, id, i)
        PROVE  \E c : CallAgrees(u, o, c) /\ SetCall(k, c)
    <3>1. /\ collections[id] \in Collection /\ Version(u, o, id, collections[id])
          /\ collections[id].curator = i
      BY <2>2, FoundIsCollection DEF StartIssue, Agreed
    <3>2. CallAgrees(u, o, [at |-> "signing", id |-> id, issuer |-> i])
      BY <3>1 DEF CallAgrees, Changes, Version
    <3>3. QED BY <2>2, <3>2 DEF StartIssue
  <2>3. ASSUME NEW cid \in CredentialIds, NEW i \in Curators, StartRevoke(k, cid, i)
        PROVE  \E c : CallAgrees(u, o, c) /\ SetCall(k, c)
    <3>1. SignedFor(u, o, cid, credentials[cid])
      BY DEF Agreed
    <3>2. CallAgrees(u, o, [at |-> "revoking", cid |-> cid, read |-> credentials[cid]])
      BY <3>1 DEF CallAgrees, Changes
    <3>3. QED BY <2>3, <3>2 DEF StartRevoke
  <2>4. ASSUME NEW cid \in CredentialIds, StartDeleteCredential(k, cid)
        PROVE  \E c : CallAgrees(u, o, c) /\ SetCall(k, c)
    <3>1. CallAgrees(u, o, [at |-> "erasing", cid |-> cid])
      BY DEF CallAgrees, Changes
    <3>2. QED BY <2>4, <3>1 DEF StartDeleteCredential
  <2>5. QED BY <2>1, <2>2, <2>3, <2>4 DEF Starts
<1>3. QED BY <1>1, <1>2, StepAgrees DEF repositoryVars, credentialVars

LEMMA IdleAgrees == \A u, o : CallAgrees(u, o, Idle)
BY DEF CallAgrees, Idle, Changes

LEMMA CallStepsAgree ==
    ASSUME CollectionsInv, NEW k \in Calls, CallSteps(k), ~Signed(k), NEW u, NEW o, Agreed(u, o)
    PROVE  Agreed(u, o)'
<1>1. /\ CallHolds(calls[k]) /\ CallAgrees(u, o, calls[k])
      /\ UNCHANGED <<created, issued, backup, credentialBackup>>
  BY DEF CollectionsInv, Agreed, CallSteps, FinishWrite, Write, FinishDelete, Delete, RequestFails,
         Attach, Revoked, MarkRevoked, UpdateCredential, FinishDeleteCredential, DeleteCredential,
         repositoryVars, credentialVars
<1>2. /\ collections \in [CollectionIds -> Collection \cup {NoCollection}]
      /\ credentials \in [CredentialIds -> Credential \cup {NotStored}]
  BY DEF CollectionsInv, RepositoryTypeOK, CredentialTypeOK
<1> DEFINE c == calls[k]
<1>3. CallHolds(c) /\ CallAgrees(u, o, c)
  BY <1>1
<1>4. CASE FinishWrite(k)
  <2>1. c.at = "writing" /\ Write(c.id, c.old, c.new) /\ SetCall(k, Idle) /\ UNCHANGED credentialVars
    BY <1>4 DEF FinishWrite, Ends
  <2>2. Version(u, o, c.id, c.new) /\ c.id \in CollectionIds
    BY <1>3, <2>1 DEF CallAgrees, CallHolds, Changes
  <2> HIDE DEF c
  <2>3. \A id \in CollectionIds : collections'[id] = collections[id]
                                  \/ Version(u, o, id, collections'[id])
    BY <1>2, <2>1, <2>2 DEF Write, repositoryVars
  <2>4. QED BY <1>1, <2>1, <2>3, IdleAgrees, StepAgrees DEF credentialVars
<1>5. CASE FinishDelete(k)
  <2>1. Delete(c.id, c.old) /\ SetCall(k, Idle) /\ UNCHANGED credentialVars
    BY <1>5 DEF FinishDelete, Ends
  <2> HIDE DEF c
  <2>2. Version(u, o, c.id, NoCollection)
    BY NotACollection DEF Version
  <2>3. \A id \in CollectionIds : collections'[id] = collections[id]
                                  \/ Version(u, o, id, collections'[id])
    BY <1>2, <2>1, <2>2 DEF Delete
  <2>4. QED BY <1>1, <2>1, <2>3, IdleAgrees, StepAgrees DEF credentialVars
<1>6. CASE RequestFails(k)
  BY <1>1, <1>6, IdleAgrees, StepAgrees DEF RequestFails, Ends, repositoryVars, credentialVars
<1>7. CASE Attach(k)
  <2>1. c.at = "attaching" /\ UNCHANGED <<repositoryVars, credentialVars>>
    BY <1>7 DEF Attach
  <2>2. /\ c.id \in CollectionIds /\ c.credential \in CredentialIds \cup {EmptyCredential}
        /\ c.credential \in CredentialIds => c.credential \in DOMAIN o /\ o[c.credential] = c.id
    BY <1>3, <2>1 DEF CallHolds, CallAgrees
  <2>3. CASE Found(c.id)
    <3>1. /\ collections[c.id] \in Collection /\ Version(u, o, c.id, collections[c.id])
          /\ SetCall(k, Writing(c.id, collections[c.id],
                                SetCredential(collections[c.id], c.credential)))
      BY <1>7, <2>2, <2>3, FoundIsCollection DEF Agreed, Attach
    <3> HIDE DEF c
    <3>2. Version(u, o, c.id, SetCredential(collections[c.id], c.credential))
      BY <2>2, <3>1, EditsAgree
    <3>3. CallAgrees(u, o, Writing(c.id, collections[c.id],
                                   SetCredential(collections[c.id], c.credential)))
      BY <3>1, <3>2 DEF CallAgrees, Writing, Changes
    <3>4. QED BY <1>1, <2>1, <3>1, <3>3, StepAgrees DEF repositoryVars, credentialVars
  <2>4. CASE ~Found(c.id)
    <3>1. SetCall(k, Idle)
      BY <1>7, <2>4 DEF Attach, Ends
    <3>2. QED BY <1>1, <2>1, <3>1, IdleAgrees, StepAgrees DEF repositoryVars, credentialVars
  <2>5. QED BY <2>3, <2>4
<1>8. CASE Revoked(k)
  <2>1. c.at = "revoking" /\ UNCHANGED <<repositoryVars, credentialVars>>
    BY <1>8 DEF Revoked
  <2>2. SignedFor(u, o, c.cid, c.read)
    BY <1>3, <2>1 DEF CallAgrees
  <2>3. /\ CallAgrees(u, o, [at |-> "marking", cid |-> c.cid, read |-> c.read])
        /\ CallAgrees(u, o, [at |-> "attaching", id |-> c.read.collection,
                             credential |-> EmptyCredential])
    BY <2>2, CollectionsAssumption DEF CallAgrees, Changes
  <2>4. QED BY <1>1, <1>8, <2>1, <2>3, StepAgrees DEF Revoked, repositoryVars, credentialVars
<1>9. CASE MarkRevoked(k)
  <2>1. /\ c.at = "marking" /\ UNCHANGED repositoryVars
        /\ credentials' = [credentials EXCEPT ![c.cid] = [c.read EXCEPT !.revoked = TRUE]]
        /\ SetCall(k, [at |-> "attaching", id |-> c.read.collection, credential |-> EmptyCredential])
    BY <1>9 DEF MarkRevoked, UpdateCredential
  <2>2. SignedFor(u, o, c.cid, c.read) /\ c.read \in Credential /\ c.cid \in CredentialIds
    BY <1>3, <2>1 DEF CallAgrees, CallHolds
  <2>3. CallAgrees(u, o, [at |-> "attaching", id |-> c.read.collection,
                          credential |-> EmptyCredential])
    BY CollectionsAssumption DEF CallAgrees, Changes
  <2> HIDE DEF c
  <2>4. SignedFor(u, o, c.cid, [c.read EXCEPT !.revoked = TRUE])
    BY <2>2 DEF SignedFor, Credential
  <2>5. \A cid \in CredentialIds : credentials'[cid] = credentials[cid]
                                   \/ SignedFor(u, o, cid, credentials'[cid])
    BY <1>2, <2>1, <2>4
  <2>6. QED BY <1>1, <2>1, <2>3, <2>5, StepAgrees DEF repositoryVars
<1>10. CASE FinishDeleteCredential(k)
  <2>1. /\ UNCHANGED repositoryVars /\ SetCall(k, Idle)
        /\ credentials' = [credentials EXCEPT ![c.cid] = NotStored]
    BY <1>10 DEF FinishDeleteCredential, DeleteCredential, Ends
  <2> HIDE DEF c
  <2>2. SignedFor(u, o, c.cid, NotStored)
    BY NotACollection DEF SignedFor
  <2>3. \A cid \in CredentialIds : credentials'[cid] = credentials[cid]
                                   \/ SignedFor(u, o, cid, credentials'[cid])
    BY <1>2, <2>1, <2>2
  <2>4. QED BY <1>1, <2>1, <2>3, IdleAgrees, StepAgrees DEF repositoryVars
<1>11. QED BY <1>4, <1>5, <1>6, <1>7, <1>8, <1>9, <1>10 DEF CallSteps

LEMMA FilesAgree ==
    ASSUME Files, NEW u, NEW o, Agreed(u, o)
    PROVE  Agreed(u, o)'
<1>1. calls' = calls
  BY DEF Files
<1>2. CASE Backup /\ UNCHANGED credentialVars
  BY <1>1, <1>2 DEF Backup, Agreed, credentialVars
<1>3. CASE Restore /\ UNCHANGED credentialVars
  BY <1>1, <1>3 DEF Restore, Agreed, credentialVars
<1>4. CASE (BackupCredentials \/ RestoreCredentials) /\ UNCHANGED repositoryVars
  BY <1>1, <1>4 DEF BackupCredentials, RestoreCredentials, Agreed, repositoryVars
<1>5. QED BY <1>2, <1>3, <1>4 DEF Files

\* A collection that is made has no version yet, so its curator can be agreed on.
LEMMA CreationAgrees ==
    ASSUME CollectionsInv, CreateCollection, Curated
    PROVE  Curated'
<1>1. PICK id \in CollectionIds, i \in Curators, l \in Labels, its \in SUBSET Items :
        Create(id, [curator |-> i, items |-> its, label |-> l, credential |-> NoCredential])
  BY DEF CreateCollection
<1>2. PICK S \in SUBSET created, R \in SUBSET issued :
        \E u \in [S -> Curators], o \in [R -> CollectionIds] : Agreed(u, o)
  BY DEF Curated
<1>3. PICK u \in [S -> Curators], o \in [R -> CollectionIds] : Agreed(u, o)
  BY <1>2
<1> DEFINE v == [j \in S \cup {id} |-> IF j = id THEN i ELSE u[j]]
<1>4. id \notin created /\ created' = created \cup {id} /\ issued' = issued
      /\ UNCHANGED <<credentialVars, calls, backup>>
  BY <1>1 DEF CreateCollection, Create
<1>5. v \in [S \cup {id} -> Curators] /\ S \cup {id} \in SUBSET created'
  BY <1>2, <1>4
<1>6. Agreed(v, o)
  <2>1. \A j \in DOMAIN u : j \in DOMAIN v /\ v[j] = u[j]
    BY <1>2, <1>4
  <2> HIDE DEF v
  <2>2. QED BY <1>3, <2>1, AgreementStays
<1>7. Version(v, o, id, [curator |-> i, items |-> its, label |-> l, credential |-> NoCredential])
  <2>1. v[id] = i /\ id \in DOMAIN v
    OBVIOUS
  <2>2. NoCredential \notin CredentialIds
    BY CollectionsAssumption
  <2> HIDE DEF v
  <2>3. QED BY <2>1, <2>2 DEF Version
<1> HIDE DEF v
<1>8. \A j \in CollectionIds : Version(v, o, j, collections'[j])
  BY <1>1, <1>6, <1>7 DEF Create, Agreed, CollectionsInv, RepositoryTypeOK
<1>9. Agreed(v, o)'
  BY <1>4, <1>6, <1>8 DEF Agreed, credentialVars
<1>10. QED BY <1>2, <1>3, <1>4, <1>5, <1>9 DEF Curated

\* Nor has a credential that is signed: it is for the collection the call read.
LEMMA SigningAgrees ==
    ASSUME CollectionsInv, NEW k \in Calls, Signed(k), Curated
    PROVE  Curated'
<1>1. PICK S \in SUBSET created, R \in SUBSET issued :
        \E u \in [S -> Curators], o \in [R -> CollectionIds] : Agreed(u, o)
  BY DEF Curated
<1>2. PICK u \in [S -> Curators], o \in [R -> CollectionIds] : Agreed(u, o)
  BY <1>1
<1> DEFINE c == calls[k]
<1>3. PICK cid \in CredentialIds \ issued :
          /\ issued' = issued \cup {cid}
          /\ StoreCredential(cid, [collection |-> c.id, issuer |-> c.issuer, revoked |-> FALSE])
          /\ SetCall(k, [at |-> "attaching", id |-> c.id, credential |-> cid])
  BY DEF Signed
<1>4. c.at = "signing" /\ UNCHANGED repositoryVars
  BY DEF Signed
<1>5. c.id \in CollectionIds /\ c.issuer \in Curators /\ c.id \in DOMAIN u /\ c.issuer = u[c.id]
  BY <1>2, <1>4 DEF CollectionsInv, CallHolds, Agreed, CallAgrees
<1> HIDE DEF c
<1>6. PICK q : q = [x \in R \cup {cid} |-> IF x = cid THEN c.id ELSE o[x]]
  OBVIOUS
<1>7. q \in [R \cup {cid} -> CollectionIds] /\ R \cup {cid} \in SUBSET issued'
  BY <1>1, <1>2, <1>3, <1>5, <1>6
<1>8. \A x \in DOMAIN o : x \in DOMAIN q /\ q[x] = o[x]
  BY <1>1, <1>2, <1>3, <1>6
<1>9. q[cid] = c.id /\ cid \in DOMAIN q
  BY <1>6
<1>10. Agreed(u, q)
  BY <1>2, <1>8, AgreementStays
<1>11. SignedFor(u, q, cid, [collection |-> c.id, issuer |-> c.issuer, revoked |-> FALSE])
  BY <1>5, <1>9 DEF SignedFor
<1>12. CallAgrees(u, q, [at |-> "attaching", id |-> c.id, credential |-> cid])
  BY <1>9 DEF CallAgrees, Changes
<1>13. \A x \in CredentialIds : credentials'[x] = credentials[x]
                                \/ SignedFor(u, q, x, credentials'[x])
  BY <1>3, <1>11 DEF StoreCredential, CollectionsInv, CredentialTypeOK
<1>14. Agreed(u, q)'
  <2>1. /\ UNCHANGED <<collections, backup, credentialBackup>>
        /\ SetCall(k, [at |-> "attaching", id |-> c.id, credential |-> cid])
    BY <1>3, <1>4 DEF repositoryVars, StoreCredential
  <2>2. \A x \in CollectionIds : collections'[x] = collections[x]
    BY <2>1
  <2> DEFINE d == [at |-> "attaching", id |-> c.id, credential |-> cid]
  <2>3. SetCall(k, d) /\ CallAgrees(u, q, d)
    BY <1>12, <2>1
  <2> HIDE DEF d
  <2>4. QED BY <1>10, <1>13, <2>1, <2>2, <2>3, StepAgrees
<1>15. created' = created
  BY <1>4 DEF repositoryVars
<1>16. u \in UNION {[T -> Curators] : T \in SUBSET created'}
  BY <1>2, <1>15
<1>17. q \in UNION {[T -> CollectionIds] : T \in SUBSET issued'}
  BY <1>7
<1>18. \E v \in UNION {[T -> Curators] : T \in SUBSET created'},
            w \in UNION {[T -> CollectionIds] : T \in SUBSET issued'} : Agreed(v, w)'
  BY <1>14, <1>16, <1>17
<1>19. QED BY <1>18 DEF Curated

LEMMA CuratedKeeps == CollectionsInv /\ Curated /\ [CollectionsNext]_collectionsVars => Curated'
<1> SUFFICES ASSUME CollectionsInv, Curated, [CollectionsNext]_collectionsVars PROVE Curated'
  OBVIOUS
<1>1. ASSUME created' = created, issued' = issued,
             \A u, o : Agreed(u, o) => Agreed(u, o)'
      PROVE  Curated'
  BY <1>1 DEF Curated
<1>2. CASE \E k \in Calls : Starts(k) \/ (CallSteps(k) /\ ~Signed(k))
  <2>1. created' = created /\ issued' = issued
    BY <1>2 DEF Starts, StartEdit, StartDelete, StartIssue, StartRevoke, StartDeleteCredential,
       CallSteps, FinishWrite, Write, FinishDelete, Delete, RequestFails, Attach, Revoked,
       MarkRevoked, FinishDeleteCredential, repositoryVars
  <2>2. QED BY <1>1, <1>2, <2>1, StartsAgree, CallStepsAgree
<1>3. CASE Files
  <2>1. created' = created /\ issued' = issued
    BY <1>3 DEF Files, Backup, Restore, repositoryVars
  <2>2. QED BY <1>1, <1>3, <2>1, FilesAgree
<1>4. CASE UNCHANGED collectionsVars
  <2>1. created' = created /\ issued' = issued
    BY <1>4 DEF collectionsVars, repositoryVars
  <2>2. \A u, o : Agreed(u, o) => Agreed(u, o)'
    BY <1>4 DEF Agreed, collectionsVars, repositoryVars, credentialVars
  <2>3. QED BY <1>1, <2>1, <2>2
<1>5. QED BY <1>2, <1>3, <1>4, CreationAgrees, SigningAgrees DEF CollectionsNext, CallSteps

\* A credential that a collection carries was issued for this collection by its curator,
\* whatever is deleted, changed, restored or revoked while it is signed and attached: ids
\* are made once, the curator is checked before the request and no edit changes it.
THEOREM CuratorsIssue == CollectionsSpec => []AttachedByCurator
<1>1. CollectionsInit => Curated
  <2> SUFFICES ASSUME CollectionsInit PROVE Curated
    OBVIOUS
  <2> DEFINE u == [i \in {} |-> CHOOSE c \in Curators : TRUE]
             o == [i \in {} |-> CHOOSE c \in CollectionIds : TRUE]
  <2>1. /\ u \in UNION {[S -> Curators] : S \in SUBSET created}
        /\ o \in UNION {[S -> CollectionIds] : S \in SUBSET issued}
    <3>1. u \in [{} -> Curators] /\ o \in [{} -> CollectionIds]
      OBVIOUS
    <3> HIDE DEF u, o
    <3>2. QED BY <3>1
  <2> HIDE DEF u, o
  <2>2. Agreed(u, o)
    BY NotACollection, IdleAgrees
       DEF CollectionsInit, RepositoryInit, CredentialInit, Agreed, Version, SignedFor
  <2>3. QED BY <2>1, <2>2 DEF Curated
<1>2. CollectionsInv /\ Curated => AttachedByCurator
  <2> SUFFICES ASSUME CollectionsInv, Curated, NEW id \in CollectionIds, NEW cid \in CredentialIds,
                      Found(id), collections[id].credential = cid, Stored(cid)
               PROVE  /\ credentials[cid].collection = id
                      /\ credentials[cid].issuer = collections[id].curator
    BY DEF AttachedByCurator
  <2>1. PICK u, o : Agreed(u, o)
    BY DEF Curated
  <2>2. collections[id] \in Collection /\ credentials[cid] \in Credential
    BY FoundIsCollection DEF Stored, CollectionsInv, CredentialTypeOK
  <2>3. Version(u, o, id, collections[id]) /\ SignedFor(u, o, cid, credentials[cid])
    BY <2>1 DEF Agreed
  <2>4. QED BY <2>2, <2>3 DEF Version, SignedFor
<1>3. QED BY <1>1, <1>2, CollectionsInvariant, CuratedKeeps, PTL DEF CollectionsSpec

-----------------------------------------------------------------------------
(***************************************************************************)
(* Inscriptions of collections.                                            *)
(***************************************************************************)
NothingNoted(rec) == rec.commit = None /\ rec.reveal = None /\ rec.inscription = None

\* What a record, its workflow and the collections lv there are say of each other.
RecordFits(rec, run, lv) ==
    /\ rec \in Record \cup {NoRecord}
    /\ run \in Places
    /\ run = "none" <=> rec = NoRecord
    /\ run \notin {"none", "begin", "stuck"} => ~rec.batched
    /\ rec.status \in {"PENDING", "IN_PROGRESS"} => rec.batched \/ run # "ended"
    /\ run \in {"begin", "stuck", "load", "prepare"} => NothingNoted(rec)
    /\ run \in {"committed", "revealed"} => rec.commit = MockCommit
    /\ run = "revealed" => rec.reveal = MockReveal
    /\ rec.status = "COMPLETED" =>
          /\ run = "ended" /\ rec.commit = MockCommit
          /\ rec.reveal = MockReveal /\ rec.inscription = MockInscription
    /\ rec.status = "FAILED" => run = "ended" /\ NothingNoted(rec) /\ rec.collection \notin lv

RecordsInv ==
    /\ live \subseteq InscribedIds /\ cancelling \subseteq Inscriptions
    /\ records = [r \in Inscriptions |-> records[r]]
    /\ running = [r \in Inscriptions |-> running[r]]
    /\ \A r \in Inscriptions : RecordFits(records[r], running[r], live)
    /\ \A r \in cancelling : records[r] # NoRecord

LEMMA NoRecordFacts ==
    /\ NoRecord \notin Record /\ NoRecord.status = "absent"
    /\ \A rec \in Record : rec.status # "absent" /\ rec.batched \in BOOLEAN
BY DEF NoRecord, Record, Statuses

\* What is left to be shown of a step of record r.
LEMMA RecordMoves ==
    ASSUME RecordsInv, NEW r \in Inscriptions, NEW rec, NEW run,
           records' = [records EXCEPT ![r] = rec], running' = [running EXCEPT ![r] = run],
           live' = live, cancelling' \subseteq Inscriptions,
           \A s \in cancelling' : s \in cancelling \/ s = r,
           rec # NoRecord, RecordFits(rec, run, live)
    PROVE  RecordsInv'
<1>1. /\ records' = [s \in Inscriptions |-> records'[s]] /\ running' = [s \in Inscriptions |-> running'[s]]
      /\ records'[r] = rec /\ running'[r] = run
      /\ \A s \in Inscriptions \ {r} : records'[s] = records[s] /\ running'[s] = running[s]
  BY DEF RecordsInv
<1>2. ASSUME NEW s \in Inscriptions PROVE RecordFits(records'[s], running'[s], live')
  BY <1>1 DEF RecordsInv
<1>3. \A s \in cancelling' : records'[s] # NoRecord
  BY <1>1 DEF RecordsInv
<1>. QED BY <1>1, <1>2, <1>3 DEF RecordsInv

\* A record that stands still.
LEMMA SameRecord ==
    ASSUME RecordsInv, NEW r \in Inscriptions
    PROVE  /\ records = [records EXCEPT ![r] = records[r]]
           /\ running = [running EXCEPT ![r] = running[r]]
           /\ RecordFits(records[r], running[r], live)
BY DEF RecordsInv

\* A record with another status, of work that went on.
LEMMA StatusSet ==
    ASSUME NEW rec \in Record, NEW status \in Statuses
    PROVE  LET new == [rec EXCEPT !.status = status]
           IN  /\ new \in Record /\ new.status = status /\ new.batched = rec.batched
               /\ new.commit = rec.commit /\ new.reveal = rec.reveal
               /\ new.inscription = rec.inscription /\ new.collection = rec.collection
BY DEF Record

LEMMA StartKeeps ==
    ASSUME RecordsInv, NEW r \in Inscriptions, NEW col \in InscribedIds, StartInscription(r, col)
    PROVE  RecordsInv'
<1>1. PICK batched \in BOOLEAN :
         records' = [records EXCEPT ![r] = [collection |-> col, batched |-> batched, status |-> "PENDING",
                                            commit |-> None, reveal |-> None, inscription |-> None]]
  BY DEF StartInscription
<1>. DEFINE rec == [collection |-> col, batched |-> batched, status |-> "PENDING",
                    commit |-> None, reveal |-> None, inscription |-> None]
<1>2. rec \in Record /\ rec.status = "PENDING" /\ NothingNoted(rec)
  BY DEF Record, Statuses, NothingNoted
<1>3. running' = [running EXCEPT ![r] = "begin"] /\ live' = live /\ cancelling' = cancelling
  BY DEF StartInscription, GoTo
<1>4. records' = [records EXCEPT ![r] = rec]
  BY <1>1
<1>. HIDE DEF rec
<1>5. RecordFits(rec, "begin", live) /\ rec # NoRecord
  BY <1>2, NoRecordFacts DEF RecordFits, Places
<1>. QED BY <1>3, <1>4, <1>5, RecordMoves DEF RecordsInv

LEMMA BeginKeeps ==
    ASSUME RecordsInv, NEW r \in Inscriptions, Begin(r)
    PROVE  RecordsInv'
<1>. DEFINE old == records[r]
            rec == [old EXCEPT !.status = "IN_PROGRESS"]
<1>0. RecordFits(old, "begin", live) /\ old \in Record /\ live' = live /\ cancelling' = cancelling
  BY NoRecordFacts, SameRecord DEF Begin, At, RecordFits
<1>1. CASE ~old.batched
  <2>1. records' = [records EXCEPT ![r] = rec] /\ running' = [running EXCEPT ![r] = "load"]
    BY <1>1 DEF Begin, Updatable, SetRecordStatus, GoTo
  <2>2. /\ rec \in Record /\ rec.status = "IN_PROGRESS" /\ rec.batched = old.batched /\ NothingNoted(rec)
    BY <1>0, StatusSet DEF RecordFits, NothingNoted, Statuses
  <2>. HIDE DEF rec, old
  <2>3. RecordFits(rec, "load", live) /\ rec # NoRecord
    BY <1>1, <2>2, NoRecordFacts DEF RecordFits, Places
  <2>. QED BY <1>0, <2>1, <2>3, RecordMoves DEF RecordsInv
<1>2. CASE old.batched
  <2>1. records' = [records EXCEPT ![r] = old] /\ running' = [running EXCEPT ![r] = "stuck"]
    BY <1>2, SameRecord DEF Begin, Updatable, GoTo
  <2>. HIDE DEF old
  <2>2. RecordFits(old, "stuck", live) /\ old # NoRecord
    BY <1>0, NoRecordFacts DEF RecordFits, Places
  <2>. QED BY <1>0, <2>1, <2>2, RecordMoves DEF RecordsInv
<1>. QED BY <1>0, <1>1, <1>2, NoRecordFacts

LEMMA LoadKeeps ==
    ASSUME RecordsInv, NEW r \in Inscriptions, Load(r)
    PROVE  RecordsInv'
<1>. DEFINE old == records[r]
            rec == [old EXCEPT !.status = "FAILED"]
<1>0. RecordFits(old, "load", live) /\ old \in Record /\ live' = live /\ cancelling' = cancelling
  BY NoRecordFacts, SameRecord DEF Load, At, RecordFits
<1>1. CASE old.collection \in live
  <2>1. records' = [records EXCEPT ![r] = old] /\ running' = [running EXCEPT ![r] = "prepare"]
    BY <1>1, SameRecord DEF Load, GoTo
  <2>. HIDE DEF old
  <2>2. RecordFits(old, "prepare", live) /\ old # NoRecord
    BY <1>0, NoRecordFacts DEF RecordFits, Places
  <2>. QED BY <1>0, <2>1, <2>2, RecordMoves DEF RecordsInv
<1>2. CASE old.collection \notin live
  <2>1. records' = [records EXCEPT ![r] = rec] /\ running' = [running EXCEPT ![r] = "ended"]
    BY <1>2 DEF Load, Fail, SetRecordStatus, GoTo
  <2>2. /\ rec \in Record /\ rec.status = "FAILED" /\ rec.batched = old.batched /\ NothingNoted(rec)
        /\ rec.collection = old.collection
    BY <1>0, StatusSet DEF RecordFits, NothingNoted, Statuses
  <2>. HIDE DEF rec, old
  <2>3. RecordFits(rec, "ended", live) /\ rec # NoRecord
    BY <1>0, <1>2, <2>2, NoRecordFacts DEF RecordFits, Places
  <2>. QED BY <1>0, <2>1, <2>3, RecordMoves DEF RecordsInv
<1>. QED BY <1>1, <1>2

LEMMA CommitKeeps ==
    ASSUME RecordsInv, NEW r \in Inscriptions, Commit(r)
    PROVE  RecordsInv'
<1>. DEFINE old == records[r]
            rec == [old EXCEPT !.commit = MockCommit]
<1>0. RecordFits(old, "prepare", live) /\ old \in Record /\ live' = live /\ cancelling' = cancelling
  BY NoRecordFacts, SameRecord DEF Commit, At, RecordFits
<1>1. records' = [records EXCEPT ![r] = rec] /\ running' = [running EXCEPT ![r] = "committed"]
  BY DEF Commit, GoTo
<1>2. /\ rec \in Record /\ rec.commit = MockCommit /\ rec.batched = old.batched /\ rec.status = old.status
  BY <1>0 DEF Record
<1>. HIDE DEF rec, old
<1>3. RecordFits(rec, "committed", live) /\ rec # NoRecord
  BY <1>0, <1>2, NoRecordFacts DEF RecordFits, Places
<1>. QED BY <1>0, <1>1, <1>3, RecordMoves DEF RecordsInv

LEMMA RevealKeeps ==
    ASSUME RecordsInv, NEW r \in Inscriptions, Reveal(r)
    PROVE  RecordsInv'
<1>. DEFINE old == records[r]
            rec == [old EXCEPT !.reveal = MockReveal]
<1>0. RecordFits(old, "committed", live) /\ old \in Record /\ live' = live /\ cancelling' = cancelling
  BY NoRecordFacts, SameRecord DEF Reveal, At, RecordFits
<1>1. records' = [records EXCEPT ![r] = rec] /\ running' = [running EXCEPT ![r] = "revealed"]
  BY DEF Reveal, GoTo
<1>2. /\ rec \in Record /\ rec.reveal = MockReveal /\ rec.commit = old.commit
      /\ rec.batched = old.batched /\ rec.status = old.status
  BY <1>0 DEF Record
<1>. HIDE DEF rec, old
<1>3. RecordFits(rec, "revealed", live) /\ rec # NoRecord
  BY <1>0, <1>2, NoRecordFacts DEF RecordFits, Places
<1>. QED BY <1>0, <1>1, <1>3, RecordMoves DEF RecordsInv

LEMMA CompleteKeeps ==
    ASSUME RecordsInv, NEW r \in Inscriptions, CompleteInscription(r)
    PROVE  RecordsInv'
<1>. DEFINE old == records[r]
            rec == [old EXCEPT !.status = "COMPLETED", !.inscription = MockInscription]
<1>0. RecordFits(old, "revealed", live) /\ old \in Record /\ live' = live /\ cancelling' = cancelling
  BY NoRecordFacts, SameRecord DEF CompleteInscription, At, RecordFits
<1>1. records' = [records EXCEPT ![r] = rec] /\ running' = [running EXCEPT ![r] = "ended"]
  BY DEF CompleteInscription, GoTo
<1>2. /\ rec \in Record /\ rec.inscription = MockInscription /\ rec.commit = old.commit
      /\ rec.reveal = old.reveal /\ rec.batched = old.batched /\ rec.status = "COMPLETED"
  BY <1>0 DEF Record, Statuses
<1>. HIDE DEF rec, old
<1>3. RecordFits(rec, "ended", live) /\ rec # NoRecord
  BY <1>0, <1>2, NoRecordFacts DEF RecordFits, Places
<1>. QED BY <1>0, <1>1, <1>3, RecordMoves DEF RecordsInv

LEMMA FinishKeeps ==
    ASSUME RecordsInv, NEW r \in Inscriptions, FinishCancel(r)
    PROVE  RecordsInv'
<1>. DEFINE old == records[r]
            rec == [old EXCEPT !.status = "CANCELLED"]
            run == running[r]
<1>0. /\ RecordFits(old, run, live) /\ old \in Record /\ live' = live /\ run # "none"
      /\ cancelling' \subseteq cancelling /\ cancelling' \subseteq Inscriptions /\ running' = running
  BY SameRecord DEF FinishCancel, RecordFits, RecordsInv
<1>1. running' = [running EXCEPT ![r] = run]
  BY <1>0, SameRecord
<1>2. CASE ~old.batched
  <2>1. records' = [records EXCEPT ![r] = rec]
    BY <1>2 DEF FinishCancel, Updatable, SetRecordStatus
  <2>2. /\ rec \in Record /\ rec.status = "CANCELLED" /\ rec.batched = old.batched
        /\ rec.commit = old.commit /\ rec.reveal = old.reveal /\ rec.inscription = old.inscription
    BY <1>0, StatusSet DEF Statuses
  <2>. HIDE DEF rec, old, run
  <2>3. RecordFits(rec, run, live) /\ rec # NoRecord
    BY <1>0, <1>2, <2>2, NoRecordFacts DEF RecordFits, NothingNoted
  <2>. QED BY <1>0, <1>1, <2>1, <2>3, RecordMoves
<1>3. CASE old.batched
  <2>1. records' = [records EXCEPT ![r] = old]
    BY <1>3, SameRecord DEF FinishCancel, Updatable
  <2>2. old # NoRecord
    BY <1>0, NoRecordFacts
  <2>. HIDE DEF old, run
  <2>. QED BY <1>0, <1>1, <2>1, <2>2, RecordMoves
<1>. QED BY <1>0, <1>2, <1>3, NoRecordFacts

LEMMA InscriptionStep ==
    ASSUME RecordsInv, [InscriptionNext]_inscriptionVars
    PROVE  RecordsInv'
<1>1. ASSUME NEW r \in Inscriptions, StartCancel(r) PROVE RecordsInv'
  <2>1. records[r] # NoRecord
    BY <1>1, NoRecordFacts DEF StartCancel
  <2>. QED BY <1>1, <2>1 DEF StartCancel, RecordsInv
<1>2. ASSUME NEW col \in live, DeleteInscribed(col) PROVE RecordsInv'
  <2>1. live' \subseteq live /\ records' = records /\ running' = running /\ cancelling' = cancelling
    BY <1>2 DEF DeleteInscribed
  <2>2. ASSUME NEW r \in Inscriptions PROVE RecordFits(records[r], running[r], live')
    <3>1. RecordFits(records[r], running[r], live)
      BY DEF RecordsInv
    <3>. QED BY <2>1, <3>1 DEF RecordFits
  <2>. QED BY <2>1, <2>2 DEF RecordsInv
<1>3. CASE UNCHANGED inscriptionVars
  BY <1>3 DEF RecordsInv, inscriptionVars
<1>. QED
  BY <1>1, <1>2, <1>3, StartKeeps, BeginKeeps, LoadKeeps, CommitKeeps, RevealKeeps, CompleteKeeps, FinishKeeps
  DEF InscriptionNext

LEMMA RecordsInvariant == InscriptionSpec => []RecordsInv
<1>1. InscriptionInit => RecordsInv
  <2>. SUFFICES ASSUME InscriptionInit PROVE RecordsInv
    OBVIOUS
  <2>1. \A lv : RecordFits(NoRecord, "none", lv)
    BY DEF RecordFits, NoRecord, Places
  <2>. QED BY <2>1 DEF InscriptionInit, RecordsInv
<1>. QED BY <1>1, InscriptionStep, PTL DEF InscriptionSpec

\* Records and workflows keep their types.
THEOREM InscriptionsTypeCorrect == InscriptionSpec => []InscriptionTypeOK
<1>1. RecordsInv => InscriptionTypeOK
  BY DEF RecordsInv, RecordFits, InscriptionTypeOK
<1>. QED BY <1>1, RecordsInvariant, PTL

\* A record says what its workflow did, whatever was deleted or cancelled in between
\* (collectionInscriptionService.ts:172-223).
THEOREM RecordsAlwaysTell == InscriptionSpec => []RecordsTell
<1>1. RecordsInv => RecordsTell
  <2>. SUFFICES ASSUME RecordsInv, NEW r \in Inscriptions
       PROVE  LET rec == records[r]
              IN  /\ rec.status \in {"PENDING", "IN_PROGRESS"} => rec.batched \/ ~At(r, "ended")
                  /\ rec.status = "COMPLETED" => None \notin {rec.commit, rec.reveal, rec.inscription}
                  /\ rec.status = "FAILED" =>
                       /\ {rec.commit, rec.reveal, rec.inscription} = {None}
                       /\ rec.collection \notin live
    BY DEF RecordsTell
  <2>1. RecordFits(records[r], running[r], live)
    BY DEF RecordsInv
  <2>2. MockCommit # None /\ MockReveal # None /\ MockInscription # None
    BY DEF MockCommit, MockReveal, MockInscription, None
  <2>. QED BY <2>1, <2>2 DEF RecordFits, NothingNoted, At
<1>. QED BY <1>1, RecordsInvariant, PTL

-----------------------------------------------------------------------------
(***************************************************************************)
(* Verification.                                                           *)
(***************************************************************************)
Awaiting == [at : {"resolving", "proving", "issuer"}, vc : Vcs,
             inscription : Inscribed \cup {NoInscription}]

CheckHolds(c) ==
    \/ c.at \in {"free", "issuerOnly", "issuing", "answered"}
    \/ c.at = "metadata" /\ c.inscription \in Inscribed
    \/ c \in Awaiting
    \/ c.at = "checkingIssued" /\ c.vc \in Vcs

\* How old an entry is: that of a credential repeats nothing, that of an
\* inscription repeats one that was fresh.
EntryHolds(e, lag) ==
    e = NoEntry \/ (e \in Entry /\ e.origin <= e.stamp /\ e.stamp - e.origin < lag)

CacheInv ==
    /\ now \in 0..MaxTime
    /\ results \in [Inscribed \cup VcIds -> Entry \cup {NoEntry}]
    /\ \A k \in Inscribed \cup VcIds : results[k] = NoEntry \/ results[k].stamp <= now
    /\ \A k \in VcIds : EntryHolds(results[k], 1)
    /\ \A k \in Inscribed : EntryHolds(results[k], TTL)

VerificationInv ==
    /\ CacheInv
    /\ issuerCache # NoEntry => issuerCache.stamp \in 0..now
    /\ DOMAIN checks = Verifiers /\ \A r \in Verifiers : CheckHolds(checks[r])
    /\ issuedVcs \subseteq SignedVcs

LEMMA EntryFacts == /\ NoEntry \notin Entry
                    /\ \A e \in Entry : e.stamp \in Nat /\ e.origin \in Nat
                    /\ TTL \in Nat \ {0} /\ MaxTime \in Nat
<1>1. TTL \in Nat \ {0} /\ MaxTime \in Nat
  BY VerificationAssumption
<1>. QED BY <1>1 DEF Entry, NoEntry

\* What a request may be answered with.
Answerable(e, lag) ==
    e \in Entry /\ e.origin <= e.stamp /\ e.stamp <= now /\ now - e.origin < lag

LEMMA IssuerStamp == \A e \in IssuerEntry : e.stamp = now
<1>. SUFFICES ASSUME NEW e \in IssuerEntry PROVE e.stamp = now
  OBVIOUS
<1>1. CASE e = [status |-> "full", stamp |-> now]
  BY <1>1
<1>2. CASE e = [status |-> "did only", stamp |-> now]
  BY <1>2
<1>. QED BY <1>1, <1>2 DEF IssuerEntry

LEMMA MadeAnswers ==
    ASSUME CacheInv, NEW status \in {"VALID", "INVALID", "NO_METADATA"}
    PROVE  /\ Made(status) \in Entry /\ Made(status).stamp = now /\ Made(status).origin = now
           /\ Answerable(Made(status), TTL)
<1>1. now \in 0..MaxTime /\ now \in Nat
  BY EntryFacts DEF CacheInv
<1>2. Made(status) \in Entry /\ Made(status).stamp = now /\ Made(status).origin = now
  BY <1>1 DEF Made, Entry
<1>. QED BY <1>1, <1>2, EntryFacts DEF Answerable

LEMMA FreshAnswers ==
    ASSUME CacheInv, NEW k \in Inscribed \cup VcIds, Fresh(results[k])
    PROVE  /\ k \in VcIds => Answerable(results[k], TTL)
           /\ k \in Inscribed => Answerable(results[k], 2 * TTL)
<1>. DEFINE e == results[k]
<1>0. now \in Nat /\ TTL \in Nat
  BY EntryFacts DEF CacheInv
<1>1. e \in Entry /\ e.stamp <= now /\ now - e.stamp < TTL
  BY DEF CacheInv, Fresh
<1>2. e.stamp \in Nat /\ e.origin \in Nat /\ now \in Nat /\ TTL \in Nat
  BY <1>0, <1>1, EntryFacts
<1>3. k \in VcIds => EntryHolds(e, 1)
  BY DEF CacheInv
<1>4. k \in Inscribed => EntryHolds(e, TTL)
  BY DEF CacheInv
<1>5. e # NoEntry
  BY <1>1, EntryFacts
<1>. HIDE DEF e
<1>6. k \in VcIds => Answerable(e, TTL)
  BY <1>1, <1>2, <1>3, <1>5 DEF Answerable, EntryHolds
<1>7. k \in Inscribed => Answerable(e, 2 * TTL)
  BY <1>1, <1>2, <1>4, <1>5 DEF Answerable, EntryHolds
<1>. QED BY <1>6, <1>7 DEF e

\* An answer keeps the cache, when it repeats an entry that is fresh.
LEMMA AnswerKeeps ==
    ASSUME CacheInv, UNCHANGED now, NEW r, NEW i \in Inscribed \cup {NoInscription}, NEW entry,
           Answerable(entry, TTL), NEW key, NEW cached,
           \/ cached = results
           \/ /\ key \in VcIds /\ entry.stamp = now /\ entry.origin = now
              /\ cached = [results EXCEPT ![key] = entry],
           Answer(r, i, entry, cached)
    PROVE  CacheInv'
<1>. DEFINE K == Inscribed \cup VcIds
<1>0. now \in 0..MaxTime /\ now \in Nat
  BY EntryFacts DEF CacheInv
<1>1. /\ entry \in Entry /\ entry.stamp \in Nat /\ entry.origin \in Nat
      /\ now \in Nat /\ now \in 0..MaxTime
  BY <1>0, EntryFacts DEF Answerable
<1>2. /\ cached \in [K -> Entry \cup {NoEntry}]
      /\ \A k \in K : cached[k] = NoEntry \/ cached[k].stamp <= now
      /\ \A k \in VcIds : EntryHolds(cached[k], 1)
      /\ \A k \in Inscribed : EntryHolds(cached[k], TTL)
  <2>1. CASE cached = results
    BY <2>1 DEF CacheInv
  <2>2. CASE /\ key \in VcIds /\ entry.stamp = now /\ entry.origin = now
             /\ cached = [results EXCEPT ![key] = entry]
    <3>1. cached \in [K -> Entry \cup {NoEntry}] /\ cached[key] = entry
      BY <1>1, <2>2 DEF CacheInv
    <3>2. \A k \in K : k # key => cached[k] = results[k]
      BY <2>2 DEF CacheInv
    <3>3. EntryHolds(entry, 1) /\ entry.stamp <= now
      BY <1>1, <2>2 DEF EntryHolds
    <3>4. key \notin Inscribed
      BY <2>2, VerificationAssumption
    <3>. QED BY <3>1, <3>2, <3>3, <3>4 DEF CacheInv
  <2>. QED BY <2>1, <2>2
<1>3. CASE i = NoInscription
  BY <1>2, <1>3 DEF Answer, CacheInv
<1>4. CASE i # NoInscription
  <2>. DEFINE new == [entry EXCEPT !.stamp = now]
  <2>1. new \in Entry /\ new.stamp = now /\ new.origin = entry.origin
    BY <1>1 DEF Entry
  <2>2. results' = [cached EXCEPT ![i] = new] /\ i \in Inscribed
    BY <1>4 DEF Answer
  <2>. HIDE DEF new
  <2>3. EntryHolds(new, TTL)
    BY <1>1, <2>1 DEF EntryHolds, Answerable
  <2>4. i \notin VcIds
    BY <2>2, VerificationAssumption
  <2>5. /\ results' \in [K -> Entry \cup {NoEntry}] /\ results'[i] = new
        /\ \A k \in K \ {i} : results'[k] = cached[k]
    BY <1>2, <2>1, <2>2
  <2>6. \A k \in K : results'[k] = NoEntry \/ results'[k].stamp <= now
    <3>1. new.stamp <= now
      BY <1>1, <2>1
    <3>. QED BY <1>2, <2>5, <3>1
  <2>7. \A k \in VcIds : EntryHolds(results'[k], 1)
    BY <1>2, <2>4, <2>5
  <2>8. \A k \in Inscribed : EntryHolds(results'[k], TTL)
    BY <1>2, <2>3, <2>5
  <2>. QED BY <1>1, <2>5, <2>6, <2>7, <2>8 DEF CacheInv
<1>. QED BY <1>3, <1>4

\* What one step does to the request r that takes it.
Took(r) ==
    /\ DOMAIN checks' = Verifiers
    /\ \A s \in Verifiers \ {r} : checks'[s] = checks[s]
    /\ CheckHolds(checks'[r])
    /\ checks'[r].at = "answered" => Answerable(checks'[r].entry, 2 * TTL)

LEMMA AnswerTook ==
    ASSUME VerificationInv, NEW r \in Verifiers, NEW i, NEW entry, NEW cached,
           Answer(r, i, entry, cached), Answerable(entry, TTL) \/ Answerable(entry, 2 * TTL)
    PROVE  Took(r)
<1>1. checks' = [checks EXCEPT ![r] = [at |-> "answered", entry |-> entry]]
  BY DEF Answer
<1>2. checks'[r] = [at |-> "answered", entry |-> entry]
  BY <1>1 DEF VerificationInv
<1>3. Answerable(entry, 2 * TTL)
  <2>1. now \in Nat /\ TTL \in Nat
    BY EntryFacts DEF VerificationInv, CacheInv
  <2>2. entry.origin \in Nat
    BY EntryFacts DEF Answerable
  <2>. QED BY <2>1, <2>2 DEF Answerable
<1>. QED BY <1>1, <1>2, <1>3 DEF Took, CheckHolds, VerificationInv

LEMMA CheckVcKeeps ==
    ASSUME VerificationInv, UNCHANGED now, NEW r \in Verifiers, NEW v \in Vcs,
           NEW i \in Inscribed \cup {NoInscription}, CheckVc(r, v, i)
    PROVE  CacheInv' /\ Took(r)
<1>0. VcId[v] \in VcIds
  BY VerificationAssumption
<1>1. CASE Fresh(results[VcId[v]])
  <2>1. Answer(r, i, results[VcId[v]], results)
    BY <1>1 DEF CheckVc
  <2>2. Answerable(results[VcId[v]], TTL)
    BY <1>0, <1>1, FreshAnswers DEF VerificationInv
  <2>3. CacheInv'
    BY <1>0, <2>1, <2>2, AnswerKeeps DEF VerificationInv
  <2>. QED BY <2>1, <2>2, <2>3, AnswerTook
<1>2. CASE ~Fresh(results[VcId[v]])
  <2>1. /\ checks' = [checks EXCEPT ![r] = [at |-> "resolving", vc |-> v, inscription |-> i]]
        /\ UNCHANGED results
    BY <1>2 DEF CheckVc
  <2>2. /\ checks'[r] = [at |-> "resolving", vc |-> v, inscription |-> i]
        /\ DOMAIN checks' = Verifiers /\ \A s \in Verifiers \ {r} : checks'[s] = checks[s]
    BY <2>1 DEF VerificationInv
  <2>3. checks'[r] \in Awaiting /\ checks'[r].at = "resolving"
    BY <2>2 DEF Awaiting
  <2>4. CacheInv'
    BY <2>1 DEF VerificationInv, CacheInv
  <2>. QED BY <2>2, <2>3, <2>4 DEF Took, CheckHolds
<1>. QED BY <1>1, <1>2

LEMMA ConcludeKeeps ==
    ASSUME VerificationInv, UNCHANGED now, NEW r \in Verifiers, checks[r] \in Awaiting,
           NEW status \in {"VALID", "INVALID"}, Conclude(r, status)
    PROVE  CacheInv' /\ Took(r)
<1>. DEFINE c == checks[r]
<1>1. c.vc \in Vcs /\ c.inscription \in Inscribed \cup {NoInscription}
  BY DEF Awaiting
<1>2. VcId[c.vc] \in VcIds
  BY <1>1, VerificationAssumption
<1>3. /\ Answerable(Made(status), TTL) /\ Made(status).stamp = now /\ Made(status).origin = now
  BY MadeAnswers DEF VerificationInv
<1>4. Answer(r, c.inscription, Made(status), [results EXCEPT ![VcId[c.vc]] = Made(status)])
  BY DEF Conclude
<1>. HIDE DEF c
<1>5. CacheInv'
  BY <1>1, <1>2, <1>3, <1>4, AnswerKeeps DEF VerificationInv
<1>. QED BY <1>3, <1>4, <1>5, AnswerTook

\* Every step is one of a request, or leaves the requests as they are.
LEMMA VerificationStep ==
    ASSUME VerificationInv, [VerificationNext]_verificationVars
    PROVE  VerificationInv' /\ (UNCHANGED checks \/ (UNCHANGED now /\ \E r \in Verifiers : Took(r)))
<1>0. ASSUME NEW r \in Verifiers, Took(r), UNCHANGED now, CacheInv',
             issuerCache' # NoEntry => issuerCache'.stamp \in 0..now,
             issuedVcs' \subseteq SignedVcs
      PROVE  VerificationInv' /\ (UNCHANGED checks \/ (UNCHANGED now /\ \E x \in Verifiers : Took(x)))
  <2>1. \A s \in Verifiers : CheckHolds(checks'[s])
    BY <1>0 DEF Took, VerificationInv
  <2>. QED BY <1>0, <2>1 DEF Took, VerificationInv
<1>1. ASSUME NEW r \in Verifiers, NEW v \in Vcs, VerifyCredential(r, v)
      PROVE  VerificationInv' /\ (UNCHANGED checks \/ (UNCHANGED now /\ \E x \in Verifiers : Took(x)))
  BY <1>0, <1>1, CheckVcKeeps DEF VerifyCredential, VerificationInv
<1>2. ASSUME NEW r \in Verifiers, NEW i \in Inscribed, VerifyInscription(r, i)
      PROVE  VerificationInv' /\ (UNCHANGED checks \/ (UNCHANGED now /\ \E x \in Verifiers : Took(x)))
  <2>1. CASE Fresh(results[i])
    <3>1. Answer(r, NoInscription, results[i], results) /\ UNCHANGED <<now, issuerCache, issuedVcs>>
      BY <1>2, <2>1 DEF VerifyInscription
    <3>2. Answerable(results[i], 2 * TTL)
      BY <2>1, FreshAnswers DEF VerificationInv
    <3>3. Took(r)
      BY <3>1, <3>2, AnswerTook
    <3>4. results' = results
      BY <3>1 DEF Answer
    <3>. QED BY <1>0, <3>1, <3>3, <3>4 DEF VerificationInv, CacheInv
  <2>2. CASE ~Fresh(results[i])
    <3>1. /\ checks' = [checks EXCEPT ![r] = [at |-> "metadata", inscription |-> i]]
          /\ UNCHANGED <<now, results, issuerCache, issuedVcs>>
      BY <1>2, <2>2 DEF VerifyInscription
    <3>2. Took(r)
      BY <3>1 DEF CheckHolds, Took, VerificationInv
    <3>. QED BY <1>0, <3>1, <3>2 DEF VerificationInv, CacheInv
  <2>. QED BY <2>1, <2>2
<1>3. ASSUME NEW r \in Verifiers, MetadataAnswered(r)
      PROVE  VerificationInv' /\ (UNCHANGED checks \/ (UNCHANGED now /\ \E x \in Verifiers : Took(x)))
  <2>1. checks[r].inscription \in Inscribed /\ UNCHANGED <<now, issuerCache, issuedVcs>>
    BY <1>3 DEF MetadataAnswered, VerificationInv, CheckHolds, Awaiting
  <2>2. ASSUME NEW v \in Vcs, CheckVc(r, v, checks[r].inscription)
        PROVE  VerificationInv' /\ (UNCHANGED checks \/ (UNCHANGED now /\ \E x \in Verifiers : Took(x)))
    BY <1>0, <2>1, <2>2, CheckVcKeeps DEF VerificationInv
  <2>3. ASSUME Answer(r, checks[r].inscription, Made("NO_METADATA"), results)
        PROVE  VerificationInv' /\ (UNCHANGED checks \/ (UNCHANGED now /\ \E x \in Verifiers : Took(x)))
    <3>1. Answerable(Made("NO_METADATA"), TTL) /\ Made("NO_METADATA").stamp = now /\ Made("NO_METADATA").origin = now
      BY MadeAnswers DEF VerificationInv
    <3>2. CacheInv'
      BY <2>1, <2>3, <3>1, AnswerKeeps DEF VerificationInv
    <3>3. Took(r)
      BY <2>3, <3>1, AnswerTook
    <3>. QED BY <1>0, <2>1, <3>2, <3>3 DEF VerificationInv
  <2>. QED BY <1>3, <2>2, <2>3 DEF MetadataAnswered
<1>4. ASSUME NEW r \in Verifiers, DidResolved(r)
      PROVE  VerificationInv' /\ (UNCHANGED checks \/ (UNCHANGED now /\ \E x \in Verifiers : Took(x)))
  <2>1. checks[r] \in Awaiting /\ UNCHANGED <<now, issuerCache, issuedVcs>>
    BY <1>4 DEF DidResolved, VerificationInv, CheckHolds
  <2>2. CASE Conclude(r, "INVALID")
    BY <1>0, <2>1, <2>2, ConcludeKeeps DEF VerificationInv
  <2>3. CASE checks' = [checks EXCEPT ![r].at = "proving"] /\ UNCHANGED results
    <3>1. checks'[r] = [checks[r] EXCEPT !.at = "proving"]
      BY <2>3 DEF VerificationInv
    <3>2. checks'[r] \in Awaiting /\ checks'[r].at = "proving"
      BY <2>1, <3>1 DEF Awaiting
    <3>3. Took(r)
      BY <2>3, <3>2 DEF Took, CheckHolds, VerificationInv
    <3>. QED BY <1>0, <2>1, <2>3, <3>3 DEF VerificationInv, CacheInv
  <2>. QED BY <1>4, <2>2, <2>3 DEF DidResolved
<1>5. ASSUME NEW r \in Verifiers, ProofChecked(r)
      PROVE  VerificationInv' /\ (UNCHANGED checks \/ (UNCHANGED now /\ \E x \in Verifiers : Took(x)))
  <2>1. checks[r] \in Awaiting /\ UNCHANGED <<now, issuerCache, issuedVcs>>
    BY <1>5 DEF ProofChecked, VerificationInv, CheckHolds
  <2>2. CASE Conclude(r, "INVALID") \/ Conclude(r, "VALID")
    BY <1>0, <2>1, <2>2, ConcludeKeeps DEF VerificationInv
  <2>3. CASE checks' = [checks EXCEPT ![r].at = "issuer"] /\ UNCHANGED results
    <3>1. checks'[r] = [checks[r] EXCEPT !.at = "issuer"]
      BY <2>3 DEF VerificationInv
    <3>2. checks'[r] \in Awaiting /\ checks'[r].at = "issuer"
      BY <2>1, <3>1 DEF Awaiting
    <3>3. Took(r)
      BY <2>3, <3>2 DEF Took, CheckHolds, VerificationInv
    <3>. QED BY <1>0, <2>1, <2>3, <3>3 DEF VerificationInv, CacheInv
  <2>. QED BY <1>5, <2>2, <2>3 DEF ProofChecked
<1>6. ASSUME NEW r \in Verifiers, IssuerResolved(r)
      PROVE  VerificationInv' /\ (UNCHANGED checks \/ (UNCHANGED now /\ \E x \in Verifiers : Took(x)))
  <2>1. /\ checks[r] \in Awaiting /\ UNCHANGED <<now, issuedVcs>>
        /\ issuerCache'.stamp = now /\ Conclude(r, "VALID")
    BY <1>6, IssuerStamp DEF IssuerResolved, VerificationInv, CheckHolds
  <2>2. issuerCache'.stamp \in 0..now
    BY <2>1, EntryFacts DEF VerificationInv, CacheInv
  <2>. QED BY <1>0, <2>1, <2>2, ConcludeKeeps DEF VerificationInv
<1>7. ASSUME NEW r \in Verifiers, GetIssuer(r) \/ IssueVc(r) \/ Forget(r) \/ VcSigned(r)
      PROVE  VerificationInv' /\ (UNCHANGED checks \/ (UNCHANGED now /\ \E x \in Verifiers : Took(x)))
  <2>1. /\ UNCHANGED <<now, results, issuerCache, issuedVcs>>
        /\ DOMAIN checks' = Verifiers /\ \A s \in Verifiers \ {r} : checks'[s] = checks[s]
        /\ \/ checks'[r].at \in {"issuerOnly", "issuing", "free"}
           \/ checks'[r].at = "checkingIssued" /\ checks'[r].vc \in Vcs
    BY <1>7 DEF GetIssuer, IssueVc, Forget, VcSigned, VerificationInv, Free
  <2>2. Took(r)
    BY <2>1 DEF Took, CheckHolds
  <2>. QED BY <1>0, <2>1, <2>2 DEF VerificationInv, CacheInv
<1>8. ASSUME NEW r \in Verifiers, IssuerAnswered(r)
      PROVE  VerificationInv' /\ (UNCHANGED checks \/ (UNCHANGED now /\ \E x \in Verifiers : Took(x)))
  <2>1. /\ UNCHANGED <<now, results, issuedVcs>> /\ issuerCache'.stamp = now
        /\ DOMAIN checks' = Verifiers /\ \A s \in Verifiers \ {r} : checks'[s] = checks[s]
        /\ checks'[r].at = "free"
    BY <1>8, IssuerStamp DEF IssuerAnswered, VerificationInv, Free
  <2>2. Took(r)
    BY <2>1 DEF Took, CheckHolds
  <2>3. issuerCache'.stamp \in 0..now
    BY <2>1, EntryFacts DEF VerificationInv, CacheInv
  <2>. QED BY <1>0, <2>1, <2>2, <2>3 DEF VerificationInv, CacheInv
<1>9. ASSUME NEW r \in Verifiers, IssuedChecked(r)
      PROVE  VerificationInv' /\ (UNCHANGED checks \/ (UNCHANGED now /\ \E x \in Verifiers : Took(x)))
  <2>1. /\ UNCHANGED <<now, results, issuerCache>>
        /\ DOMAIN checks' = Verifiers /\ \A s \in Verifiers \ {r} : checks'[s] = checks[s]
        /\ checks'[r].at = "free"
    BY <1>9 DEF IssuedChecked, VerificationInv, Free
  <2>2. issuedVcs' \subseteq SignedVcs
    BY <1>9 DEF IssuedChecked, Proves, VerificationInv
  <2>3. Took(r)
    BY <2>1 DEF Took, CheckHolds
  <2>. QED BY <1>0, <2>1, <2>2, <2>3 DEF VerificationInv, CacheInv
<1>10. ASSUME ClearCache
       PROVE  VerificationInv' /\ (UNCHANGED checks \/ (UNCHANGED now /\ \E x \in Verifiers : Took(x)))
  <2>1. \A k \in Inscribed \cup VcIds : results'[k] = NoEntry
    BY <1>10 DEF ClearCache
  <2>2. /\ results' = [k \in Inscribed \cup VcIds |-> NoEntry] /\ issuerCache' = NoEntry
        /\ UNCHANGED <<now, checks, issuedVcs>>
    BY <1>10 DEF ClearCache
  <2>3. CacheInv'
    <3>1. results' \in [Inscribed \cup VcIds -> Entry \cup {NoEntry}]
      BY <2>2
    <3>2. now' \in 0..MaxTime
      BY <2>2 DEF VerificationInv, CacheInv
    <3>3. \A k \in Inscribed \cup VcIds : EntryHolds(results'[k], 1) /\ EntryHolds(results'[k], TTL)
      BY <2>1 DEF EntryHolds
    <3>. QED BY <2>1, <3>1, <3>2, <3>3 DEF CacheInv
  <2>4. VerificationInv'
    BY <2>2, <2>3 DEF VerificationInv
  <2>. QED BY <2>2, <2>4
<1>11. ASSUME Tick
       PROVE  VerificationInv' /\ (UNCHANGED checks \/ (UNCHANGED now /\ \E x \in Verifiers : Took(x)))
  <2>1. now \in Nat /\ MaxTime \in Nat /\ now' = now + 1 /\ now < MaxTime
        /\ UNCHANGED <<results, issuerCache, checks, issuedVcs>>
    BY <1>11, EntryFacts DEF Tick, VerificationInv, CacheInv
  <2>2. now' \in 0..MaxTime
    BY <2>1
  <2>3. \A k \in Inscribed \cup VcIds : results[k] = NoEntry \/ results[k].stamp <= now'
    <3>1. SUFFICES ASSUME NEW k \in Inscribed \cup VcIds, results[k] # NoEntry
          PROVE  results[k].stamp <= now'
      OBVIOUS
    <3>2. results[k] \in Entry /\ results[k].stamp <= now
      BY <3>1 DEF VerificationInv, CacheInv
    <3>3. results[k].stamp \in Nat
      BY <3>2, EntryFacts
    <3>. QED BY <2>1, <3>2, <3>3
  <2>4. issuerCache # NoEntry => issuerCache.stamp \in 0..now'
    BY <2>1 DEF VerificationInv
  <2>5. CacheInv'
    BY <2>1, <2>2, <2>3 DEF VerificationInv, CacheInv
  <2>6. VerificationInv'
    BY <2>1, <2>4, <2>5 DEF VerificationInv
  <2>. QED BY <2>1, <2>6
<1>12. CASE UNCHANGED verificationVars
  <2>1. CacheInv'
    BY <1>12 DEF verificationVars, VerificationInv, CacheInv
  <2>2. issuerCache' # NoEntry => issuerCache'.stamp \in 0..now'
    BY <1>12 DEF verificationVars, VerificationInv
  <2>3. DOMAIN checks' = Verifiers /\ \A r \in Verifiers : CheckHolds(checks'[r])
    BY <1>12 DEF verificationVars, VerificationInv
  <2>4. UNCHANGED checks /\ issuedVcs' = issuedVcs
    BY <1>12 DEF verificationVars
  <2>5. VerificationInv'
    BY <2>1, <2>2, <2>3, <2>4 DEF VerificationInv
  <2>. QED BY <2>4, <2>5
<1>. QED
  BY <1>1, <1>2, <1>3, <1>4, <1>5, <1>6, <1>7, <1>8, <1>9, <1>10, <1>11, <1>12 DEF VerificationNext

LEMMA VerificationInvariant == VerificationSpec => []VerificationInv
<1>1. VerificationInit => VerificationInv
  <2>. SUFFICES ASSUME VerificationInit PROVE VerificationInv
    OBVIOUS
  <2>1. now \in 0..MaxTime
    BY EntryFacts DEF VerificationInit
  <2>2. CacheInv
    <3>1. \A k \in Inscribed \cup VcIds : results[k] = NoEntry
      BY DEF VerificationInit
    <3>2. results \in [Inscribed \cup VcIds -> Entry \cup {NoEntry}]
      BY DEF VerificationInit
    <3>3. \A k \in Inscribed \cup VcIds : EntryHolds(results[k], 1) /\ EntryHolds(results[k], TTL)
      BY <3>1 DEF EntryHolds
    <3>. QED BY <2>1, <3>1, <3>2, <3>3 DEF CacheInv
  <2>3. \A r \in Verifiers : CheckHolds(checks[r])
    BY DEF VerificationInit, CheckHolds, Free
  <2>. QED BY <2>2, <2>3 DEF VerificationInit, VerificationInv
<1>. QED BY <1>1, VerificationStep, PTL DEF VerificationSpec

\* The caches of verifications and issuers, and the checks in flight, keep their types.
THEOREM VerificationTypeCorrect == VerificationSpec => []VerificationTypeOK
<1>1. VerificationInv => VerificationTypeOK
  BY DEF VerificationInv, CacheInv, CheckHolds, Awaiting, VerificationTypeOK
<1>. QED BY <1>1, VerificationInvariant, PTL

\* verifyCredential returns no cached answer that is older than the time to live,
\* whichever checks filled the cache and however long they took.
THEOREM AnswersRecent == VerificationSpec => AnswersAreRecent
<1>1. ASSUME VerificationInv, [VerificationNext]_verificationVars
      PROVE  \A r \in Verifiers : checks[r].at # "answered" /\ checks'[r].at = "answered"
                => now - checks'[r].entry.origin < 2 * TTL
  <2>1. CASE UNCHANGED checks
    BY <2>1
  <2>2. CASE \E r \in Verifiers : Took(r)
    BY <2>2 DEF Took, Answerable
  <2>. QED BY <1>1, <2>1, <2>2, VerificationStep
<1>. QED BY <1>1, VerificationInvariant, PTL DEF VerificationSpec, AnswersAreRecent

-----------------------------------------------------------------------------
(***************************************************************************)
(* The client of the credential service: its types, its breakers and their timers.*)
(***************************************************************************)

\* What holds of one breaker at all times.  The last failure lies behind, and
\* an open breaker's timer is due no later than the time execute waits for.
Sound(c) ==
    /\ c \in Circuits
    /\ c.state = "OPEN" <=> c.timer # NoTimer
    /\ c.lastFailure <= clock
    /\ c.state = "OPEN" => c.timer <= c.lastFailure + ResetTimeout

\* From c to d no trial begins before its time.
NoEarlyTrial(c, d) ==
    c.state # "HALF_OPEN" /\ d.state = "HALF_OPEN"
      => c.timer # NoTimer /\ clock >= c.timer

\* A call that waits for its next attempt has one left.
CallsSound(made) ==
    /\ made \in [Fetches -> FetchStates]
    /\ \A f \in Fetches : made[f].at = "backoff" => made[f].attempt < Retries

ClientInv ==
    /\ ClientTypeOK
    /\ \A b \in Breakers : Sound(circuit[b])
    /\ CallsSound(fetching)

\* The breaker's operations keep a breaker sound; a call is let in for a trial
\* only when the timer is due.
LEMMA ClosedIsSound ==
    ASSUME NEW c, Sound(c)
    PROVE  Sound(ToClosed(c)) /\ NoEarlyTrial(c, ToClosed(c))
BY DEF Sound, NoEarlyTrial, ToClosed, Circuits, NoTimer

LEMMA OpenIsSound ==
    ASSUME NEW c, Sound(c), clock \in Nat \ {0}, c.lastFailure = clock
    PROVE  Sound(ToOpen(c)) /\ NoEarlyTrial(c, ToOpen(c))
<1>1. clock + ResetTimeout \in Nat
  BY ApiClientAssumption
<1>2. CASE c.state = "OPEN"
  BY <1>2 DEF ToOpen, NoEarlyTrial
<1>3. CASE c.state # "OPEN"
  <2> DEFINE d == [c EXCEPT !.state = "OPEN", !.successes = 0,
                            !.timer = clock + ResetTimeout]
  <2>1. d \in Circuits
    BY <1>1 DEF Sound, Circuits
  <2>2. /\ d.state = "OPEN" /\ d.timer = c.lastFailure + ResetTimeout
        /\ d.lastFailure = clock
    BY DEF Sound, Circuits
  <2>3. d.timer # NoTimer
    BY <2>2, ApiClientAssumption DEF NoTimer
  <2>4. ToOpen(c) = d
    BY <1>3 DEF ToOpen
  <2> QED
    BY <1>1, <2>1, <2>2, <2>3, <2>4 DEF Sound, NoEarlyTrial
<1> QED
  BY <1>2, <1>3

LEMMA HalfOpenIsSound ==
    ASSUME NEW c, Sound(c),
           c.state # "HALF_OPEN" => c.timer # NoTimer /\ clock >= c.timer
    PROVE  Sound(ToHalfOpen(c)) /\ NoEarlyTrial(c, ToHalfOpen(c))
BY DEF Sound, NoEarlyTrial, ToHalfOpen, Circuits, NoTimer

LEMMA SuccessIsSound ==
    ASSUME NEW c, Sound(c)
    PROVE  Sound(OnSuccess(c)) /\ NoEarlyTrial(c, OnSuccess(c))
<1>1. CASE c.state = "HALF_OPEN" /\ ~(c.successes + 1 >= SuccessThreshold)
  BY <1>1 DEF Sound, NoEarlyTrial, OnSuccess, Circuits
<1>2. CASE ~(c.state = "HALF_OPEN" /\ ~(c.successes + 1 >= SuccessThreshold))
  <2>1. OnSuccess(c) = c \/ OnSuccess(c) = ToClosed(c)
    BY <1>2 DEF OnSuccess
  <2> QED
    BY <2>1, ClosedIsSound DEF NoEarlyTrial
<1> QED
  BY <1>1, <1>2

LEMMA FailureIsSound ==
    ASSUME NEW c, NEW error, Sound(c), clock \in Nat \ {0}
    PROVE  Sound(OnFailure(c, error)) /\ NoEarlyTrial(c, OnFailure(c, error))
<1> DEFINE seen == [c EXCEPT !.lastFailure = clock]
           counted == [seen EXCEPT !.failures = @ + 1]
<1>1. Sound(seen) /\ seen.state = c.state /\ seen.lastFailure = clock
  BY ApiClientAssumption DEF Sound, Circuits, NoTimer
<1>2. Sound(counted) /\ counted.state = c.state /\ counted.lastFailure = clock
  <2> HIDE DEF seen
  <2>1. seen \in Circuits
    BY <1>1 DEF Sound
  <2>2. counted \in Circuits
    BY <2>1 DEF Circuits
  <2>3. /\ counted.state = seen.state /\ counted.timer = seen.timer
        /\ counted.lastFailure = seen.lastFailure
    BY <2>1 DEF Circuits
  <2> QED
    BY <1>1, <2>2, <2>3 DEF Sound
<1>3. Sound(ToOpen(seen)) /\ ToOpen(seen).state = "OPEN"
  BY <1>1, OpenIsSound DEF ToOpen, Sound, Circuits
<1>4. Sound(ToOpen(counted)) /\ ToOpen(counted).state = "OPEN"
  BY <1>2, OpenIsSound DEF ToOpen, Sound, Circuits
<1>5. OnFailure(c, error) \in {c, seen, counted, ToOpen(seen), ToOpen(counted)}
  BY DEF OnFailure
<1> QED
  BY <1>1, <1>2, <1>3, <1>4, <1>5 DEF NoEarlyTrial

LEMMA AdmittedIsSound ==
    ASSUME NEW c, Sound(c), clock \in Nat \ {0}, Admits(c)
    PROVE  Sound(Admitted(c)) /\ NoEarlyTrial(c, Admitted(c))
<1>1. CASE c.state = "OPEN"
  <2>1. c.timer # NoTimer /\ clock >= c.timer
    BY <1>1, ApiClientAssumption DEF Sound, Admits, Circuits, NoTimer
  <2> QED
    BY <1>1, <2>1, HalfOpenIsSound DEF Admitted
<1>2. CASE c.state # "OPEN"
  BY <1>2 DEF Admitted, NoEarlyTrial
<1> QED
  BY <1>1, <1>2

-----------------------------------------------------------------------------
\* What a step does to the breakers.
Stepped(circuits) ==
    /\ circuits \in [Breakers -> Circuits]
    /\ \A b \in Breakers :
         Sound(circuits[b]) /\ NoEarlyTrial(circuit[b], circuits[b])

LEMMA UnchangedIsStepped == ClientInv => Stepped(circuit)
BY DEF ClientInv, ClientTypeOK, Stepped, NoEarlyTrial

LEMMA OneChanged ==
    ASSUME ClientInv, NEW b \in Breakers, NEW c,
           Sound(c), NoEarlyTrial(circuit[b], c)
    PROVE  Stepped([circuit EXCEPT ![b] = c])
<1>1. c \in Circuits
  BY DEF Sound
<1> QED
  BY <1>1, UnchangedIsStepped DEF ClientInv, ClientTypeOK, Stepped

LEMMA SettleSteps ==
    ASSUME ClientInv, NEW f \in Fetches, NEW b \in Breakers, NEW after,
           Sound(after), NoEarlyTrial(circuit[b], after),
           Settle(f, b, after)
    PROVE  Stepped(circuit') /\ CallsSound(fetching')
<1>1. circuit' = [circuit EXCEPT ![b] = after] \/ circuit' = circuit
  BY DEF Settle, ClientInv, ClientTypeOK
<1>2. NoFetch \in FetchStates
  BY ApiClientAssumption DEF NoFetch, FetchStates, Kinds
<1>3. CallsSound(fetching')
  BY <1>2 DEF Settle, ClientInv, ClientTypeOK, CallsSound, NoFetch
<1> QED
  BY <1>1, <1>3, OneChanged, UnchangedIsStepped

LEMMA ThrowSteps ==
    ASSUME ClientInv, NEW f \in Fetches, NEW error, Throw(f, error)
    PROVE  Stepped(circuit') /\ CallsSound(fetching')
<1> DEFINE b == BreakerOf(fetching[f].kind)
<1>1. b \in Breakers
  BY DEF BreakerOf, Breakers
<1>2. Sound(circuit[b]) /\ clock \in Nat \ {0}
  BY <1>1 DEF ClientInv, ClientTypeOK
<1>3. \A e : Sound(OnFailure(circuit[b], e))
             /\ NoEarlyTrial(circuit[b], OnFailure(circuit[b], e))
  BY <1>2, FailureIsSound
<1>4. CASE /\ fetching[f].attempt < Retries
           /\ fetching' = [fetching EXCEPT ![f].at = "backoff"]
           /\ UNCHANGED circuit
  BY <1>4, UnchangedIsStepped DEF ClientInv, ClientTypeOK, CallsSound, FetchStates
<1>5. CASE \E e : Settle(f, b, OnFailure(circuit[b], e))
  BY <1>1, <1>3, <1>5, SettleSteps
<1> QED
  BY <1>4, <1>5 DEF Throw

\* Every step leaves the breakers sound, starts no trial too early and keeps
\* the types of the calls.
LEMMA EveryStep ==
    ASSUME ClientInv, ClientNext
    PROVE  /\ Stepped(circuit')
           /\ CallsSound(fetching')
           /\ clock' \in Nat \ {0} /\ clock' >= clock
           /\ circuit' # circuit => clock' = clock
<1> USE DEF ClientInv, ClientTypeOK
<1>1. ASSUME NEW f \in Fetches, NEW kind \in Kinds, Call(f, kind)
      PROVE  Stepped(circuit') /\ CallsSound(fetching') /\ UNCHANGED clock
  <2> DEFINE b == BreakerOf(kind)
  <2>1. b \in Breakers
    BY DEF BreakerOf, Breakers
  <2>2. CallsSound(fetching')
    BY <1>1, ApiClientAssumption DEF Call, CallsSound, FetchStates
  <2>3. CASE kind = "get"
    BY <1>1, <2>2, <2>3, UnchangedIsStepped DEF Call
  <2>4. CASE kind # "get"
    <3>1. Admits(circuit[b]) /\ circuit' = [circuit EXCEPT ![b] = Admitted(circuit[b])]
      BY <1>1, <2>4, <2>1 DEF Call
    <3> QED
      BY <1>1, <2>1, <2>2, <3>1, AdmittedIsSound, OneChanged DEF Call
  <2> QED
    BY <2>3, <2>4
<1>2. ASSUME NEW f \in Fetches, FetchFails(f)
      PROVE  Stepped(circuit') /\ CallsSound(fetching') /\ UNCHANGED clock
  BY <1>2, ThrowSteps DEF FetchFails
<1>3. ASSUME NEW f \in Fetches, NEW ok \in BOOLEAN, HeadersArrive(f, ok)
      PROVE  Stepped(circuit') /\ CallsSound(fetching') /\ UNCHANGED clock
  BY <1>3, UnchangedIsStepped DEF HeadersArrive, CallsSound, FetchStates
<1>4. ASSUME NEW f \in Fetches, NEW readable \in BOOLEAN, BodyRead(f, readable)
      PROVE  Stepped(circuit') /\ CallsSound(fetching') /\ UNCHANGED clock
  <2> DEFINE b == BreakerOf(fetching[f].kind)
  <2>1. b \in Breakers
    BY DEF BreakerOf, Breakers
  <2>2. Sound(OnSuccess(circuit[b])) /\ NoEarlyTrial(circuit[b], OnSuccess(circuit[b]))
    BY <2>1, SuccessIsSound
  <2>3. CASE \E e : Throw(f, e)
    BY <1>4, <2>3, ThrowSteps DEF BodyRead
  <2>4. CASE Settle(f, b, OnSuccess(circuit[b]))
    BY <1>4, <2>1, <2>2, <2>4, SettleSteps DEF BodyRead
  <2>5. CASE fetching' = [fetching EXCEPT ![f].at = "verifying"] /\ UNCHANGED circuit
    BY <1>4, <2>5, UnchangedIsStepped DEF BodyRead, CallsSound, FetchStates
  <2> QED
    BY <1>4, <2>3, <2>4, <2>5 DEF BodyRead
<1>5. ASSUME NEW f \in Fetches, BackoffOver(f)
      PROVE  Stepped(circuit') /\ CallsSound(fetching') /\ UNCHANGED clock
  <2>1. fetching[f].attempt + 1 \in 0..Retries
    BY <1>5, ApiClientAssumption DEF BackoffOver, CallsSound, FetchStates
  <2> QED
    BY <1>5, <2>1, UnchangedIsStepped DEF BackoffOver, CallsSound, FetchStates
<1>6. ASSUME NEW f \in Fetches, NEW valid \in BOOLEAN, IssuedVerified(f, valid)
      PROVE  Stepped(circuit') /\ CallsSound(fetching') /\ UNCHANGED clock
  <2>1. "service" \in Breakers
    BY DEF Breakers
  <2>2. CASE Settle(f, "service", OnSuccess(circuit["service"]))
    BY <1>6, <2>1, <2>2, SuccessIsSound, SettleSteps DEF IssuedVerified
  <2>3. CASE \E e : Settle(f, "service", OnFailure(circuit["service"], e))
    BY <1>6, <2>1, <2>3, FailureIsSound, SettleSteps DEF IssuedVerified
  <2> QED
    BY <1>6, <2>2, <2>3 DEF IssuedVerified
<1>7. ASSUME NEW b \in Breakers, TimerFires(b)
      PROVE  Stepped(circuit') /\ CallsSound(fetching') /\ UNCHANGED clock
  <2>1. circuit[b].timer # NoTimer /\ clock >= circuit[b].timer
    BY <1>7 DEF TimerFires, Circuits, NoTimer
  <2> QED
    BY <1>7, <2>1, HalfOpenIsSound, OneChanged DEF TimerFires
<1>8. ASSUME NEW b \in Breakers, ResetBreaker(b)
      PROVE  Stepped(circuit') /\ CallsSound(fetching') /\ UNCHANGED clock
  BY <1>8, ClosedIsSound, OneChanged DEF ResetBreaker
<1>9. CASE ClientTick
  BY <1>9, UnchangedIsStepped DEF ClientTick, CallsSound
<1> QED
  BY <1>1, <1>2, <1>3, <1>4, <1>5, <1>6, <1>7, <1>8, <1>9 DEF ClientNext

LEMMA InvInitially == ClientInit => ClientInv
<1> SUFFICES ASSUME ClientInit PROVE ClientInv
  OBVIOUS
<1>1. NoFetch \in FetchStates /\ NoFetch.at # "backoff"
  BY ApiClientAssumption DEF NoFetch, FetchStates, Kinds
<1>2. \A b \in Breakers : Sound(circuit[b])
  BY DEF ClientInit, Sound, Circuits, NoTimer
<1> QED
  BY <1>1, <1>2 DEF ClientInit, ClientInv, ClientTypeOK, CallsSound, Sound

LEMMA InvKept == ClientInv /\ [ClientNext]_clientVars => ClientInv'
<1> SUFFICES ASSUME ClientInv, [ClientNext]_clientVars PROVE ClientInv'
  OBVIOUS
<1>1. CASE ClientNext
  <2>1. /\ Stepped(circuit') /\ CallsSound(fetching')
        /\ clock' \in Nat \ {0} /\ clock' >= clock
    BY <1>1, EveryStep
  <2>2. ASSUME NEW b \in Breakers PROVE Sound(circuit[b])'
    <3>1. Sound(circuit'[b])
      BY <2>1 DEF Stepped
    <3>2. circuit'[b].lastFailure <= clock'
      BY <2>1, <3>1 DEF Sound, Circuits, ClientInv, ClientTypeOK
    <3> QED
      BY <3>1, <3>2 DEF Sound
  <2> QED
    BY <2>1, <2>2 DEF ClientInv, ClientTypeOK, CallsSound, Stepped
<1>2. CASE UNCHANGED clientVars
  BY <1>2 DEF clientVars, ClientInv, ClientTypeOK, CallsSound, Sound
<1> QED
  BY <1>1, <1>2

\* In every state of the client the strengthened invariant holds: types, breakers
\* with their timers, and calls that fit the breaker they were admitted by.
THEOREM ClientInvariant == ClientSpec => []ClientInv
BY InvInitially, InvKept, PTL DEF ClientSpec

\* The variables keep their types; no call makes more attempts than it may.
THEOREM ClientTypeCorrect == ClientSpec => []ClientTypeOK
<1>1. ClientInv => ClientTypeOK
  BY DEF ClientInv
<1> QED
  BY <1>1, ClientInvariant, PTL

\* For any number of calls, thresholds and retries, and whatever order their
\* answers arrive in, an open breaker has its timer and no other breaker one.
THEOREM OpenAlwaysHasTimer == ClientSpec => []OpenHasTimer
<1>1. ClientInv => OpenHasTimer
  BY DEF ClientInv, OpenHasTimer, Sound
<1> QED
  BY <1>1, ClientInvariant, PTL

\* No trial begins before the breaker's reset time-out is over.
THEOREM TrialsAlwaysWait == ClientSpec => TrialsWait
<1>1. ClientInv /\ [ClientNext]_clientVars =>
        [\A b \in Breakers :
           circuit[b].state # "HALF_OPEN" /\ circuit'[b].state = "HALF_OPEN"
             => circuit[b].timer # NoTimer /\ clock >= circuit[b].timer]_clientVars
  BY EveryStep DEF Stepped, NoEarlyTrial
<1> QED
  BY <1>1, ClientInvariant, PTL DEF ClientSpec, TrialsWait

Less == {ss \in Nat \X Nat : ss[1] < ss[2]}

LEMMA LeastExists ==
    ASSUME NEW T \in SUBSET Nat, T # {}
    PROVE  \E t \in T : \A y \in T : t <= y
    <1>1. IsWellFoundedOn(Less, Nat)
        BY NatLessThanWellFounded DEF OpToRel, Less
    <1>2. PICK t \in T : \A y \in T : ~(<<y, t>> \in Less)
        BY <1>1, WFMin
    <1>3. ASSUME NEW y \in T PROVE t <= y
        <2>1. y \in Nat /\ t \in Nat /\ <<y, t>> \in Nat \X Nat
            OBVIOUS
        <2>2. ~(y < t)
            BY <1>2, <1>3, <2>1 DEF Less
        <2> QED BY <2>1, <2>2
    <1> QED BY <1>3

-----------------------------------------------------------------------------
(***************************************************************************)
(*                                                                         *)
(***************************************************************************)

-----------------------------------------------------------------------------
(***************************************************************************)
(* The list of resources.                                                  *)
(***************************************************************************)
Ids(data) == {RidOf[d[1]] : d \in data}

\* A hash that was read at some time: no other inscription has one of that time.
Dated(d, hs, n) ==
    /\ d = <<d[1], d[2]>> /\ d[1] \in Indexable /\ d[2] \in 1..n
    /\ \A x \in Indexable : hs[x] = d[2] => x = d[1]

DataFits(data, hs, n) ==
    /\ IsFiniteSet(data)
    /\ \A d \in data : Dated(d, hs, n)
    /\ \A d, c \in data : d[2] = c[2] \/ RidOf[d[1]] = RidOf[c[1]] => d = c

\* The ids still to be found and those found are no more than were known, and have
\* among them every id that stayed.  Where one stayed, the three counts grow.
Finding(q, s, hs, n) ==
    /\ IsFiniteSet(q.todo) /\ DataFits(q.data, hs, n)
    /\ q.todo \cap Ids(q.data) = {}
    /\ Cardinality(q.data) + Cardinality(q.todo) <= q.known
    /\ s \subseteq q.todo \cup Ids(q.data)
    /\ s # {} => q.total <= q.counted
    /\ s # {} => q.counted <= q.known

RequestFields == {"at", "page", "order", "total", "counted", "known", "todo", "data", "wanted"}

RequestShape(q) ==
    /\ DOMAIN q = RequestFields /\ q = [field \in DOMAIN q |-> q[field]]
    /\ q.total \in Nat /\ q.counted \in Nat /\ q.known \in Nat

\* A request, with the ids that stayed since it began.
RequestFits(q, s, R, hs, n) ==
    /\ RequestShape(q)
    /\ q.at \in {"count", "recount", "members"} => q.data = {}
    /\ q.at = "recount" /\ s # {} => q.total <= Cardinality(R)
    /\ q.at = "members" /\ s # {} => q.total <= q.counted
    /\ q.at = "members" /\ s # {} => q.counted <= Cardinality(R)
    /\ q.at = "find" => Finding(q, s, hs, n)
    /\ q.at = "fetch" /\ q.known <= q.total => s \subseteq q.todo \cup Ids(q.data)
    /\ q.at = "answer" /\ q.known <= q.total => s \subseteq Ids(q.data)

HashesFit(hs, n) ==
    /\ n \in Nat /\ hs \in [Indexable -> 0..n]
    /\ \A e, x \in Indexable : hs[e] = hs[x] /\ hs[e] # 0 => e = x

StoreFits ==
    /\ IsFiniteSet(rids) /\ HashesFit(hashes, writes)
    /\ half \subseteq Indexable /\ \A e, x \in half : e = x

RequestsFit ==
    /\ DOMAIN request = Loads /\ request = [r \in Loads |-> request[r]]
    /\ DOMAIN steady = Loads /\ steady = [r \in Loads |-> steady[r]]
    /\ \A r \in Loads : steady[r] \subseteq Described
    /\ \A r \in Loads : RequestFits(request[r], steady[r], rids, hashes, writes)

ListingInv == StoreFits /\ RequestsFit

-----------------------------------------------------------------------------
\* Hashes can be put in order by their times, the latest first.
LEMMA DatesAreOrdered ==
    ASSUME NEW data, IsFiniteSet(data), NEW f \in [data -> Nat],
           \A d, c \in data : f[d] = f[c] => d = c
    PROVE  \E s \in [1..Cardinality(data) -> data] : \A i, j \in DOMAIN s : i < j => f[s[i]] > f[s[j]]
<1> DEFINE Falls(s) == \A i, j \in DOMAIN s : i < j => f[s[i]] > f[s[j]]
           Orderly(n) == \A q \in SUBSET data : Cardinality(q) = n => \E s \in [1..n -> q] : Falls(s)
           T == {n \in Nat : ~Orderly(n)}
<1>1. \A q \in SUBSET data : IsFiniteSet(q) /\ Cardinality(q) \in Nat
  BY FS_Subset, FS_CardinalityType
<1>2. SUFFICES ASSUME T # {} PROVE FALSE
  <2>1. Orderly(Cardinality(data))
    BY <1>1, <1>2
  <2>2. QED BY <2>1
<1>3. PICK n \in T : \A m \in T : n <= m
  <2>1. T \in SUBSET Nat
    OBVIOUS
  <2> HIDE DEF T
  <2>2. QED BY <1>2, <2>1, LeastExists
<1>4. n \in Nat /\ ~Orderly(n) /\ \A m \in Nat : m < n => Orderly(m)
  <2>1. n \in Nat /\ ~Orderly(n)
    BY <1>3
  <2>2. ASSUME NEW m \in Nat, m < n PROVE Orderly(m)
    <3>1. m \notin T
      BY <1>3, <2>1, <2>2
    <3>2. QED BY <3>1
  <2>3. QED BY <2>1, <2>2
<1>5. PICK q \in SUBSET data : Cardinality(q) = n /\ ~\E s \in [1..n -> q] : Falls(s)
  BY <1>4
<1>6. CASE n = 0
  <2>1. [k \in 1..0 |-> k] \in [1..n -> q] /\ Falls([k \in 1..0 |-> k])
    BY <1>6
  <2>2. QED BY <1>5, <2>1
<1>7. CASE n # 0
  <2> DEFINE F == {f[d] : d \in q}
  <2>0. q # {}
    BY <1>5, <1>7, FS_EmptySet
  <2>1. F # {} /\ F \in SUBSET Nat
    BY <2>0
  <2>2. PICK x \in q : \A y \in q : f[x] <= f[y]
    <3>1. PICK k \in F : \A y \in F : k <= y
      BY <2>1, LeastExists
    <3>2. QED BY <3>1
  <2>3. Cardinality(q \ {x}) = n - 1 /\ n - 1 \in Nat /\ n - 1 < n
    BY <1>1, <1>4, <1>5, <1>7, FS_RemoveElement
  <2>4. PICK s \in [1..(n - 1) -> q \ {x}] : Falls(s)
    BY <1>4, <2>3
  <2> DEFINE t == [i \in 1..n |-> IF i = n THEN x ELSE s[i]]
  <2>5. t \in [1..n -> q]
    BY <1>4, <2>3
  <2>6. Falls(t)
    <3> SUFFICES ASSUME NEW i \in 1..n, NEW j \in 1..n, i < j PROVE f[t[i]] > f[t[j]]
      OBVIOUS
    <3>1. i \in 1..(n - 1) /\ t[i] = s[i] /\ s[i] \in q \ {x}
      BY <1>4, <2>3
    <3>2. CASE j = n
      <4>1. t[j] = x /\ f[x] <= f[s[i]] /\ f[x] # f[s[i]] /\ f[x] \in Nat /\ f[s[i]] \in Nat
        BY <2>1, <2>2, <3>1, <3>2
      <4>2. QED BY <3>1, <4>1
    <3>3. CASE j # n
      <4>1. j \in 1..(n - 1) /\ t[j] = s[j]
        BY <1>4, <2>3, <3>3
      <4>2. QED BY <2>4, <3>1, <4>1
    <3>4. QED BY <3>2, <3>3
  <2>7. QED BY <1>5, <2>5, <2>6
<1>8. QED BY <1>6, <1>7

\* The sorted list names the ids of all hashes.
LEMMA SortedIdsAreAll ==
    ASSUME NEW q, NEW data, NEW hs, NEW n, DataFits(data, hs, n), n \in Nat
    PROVE  /\ ByIndexedAt(q, data) \in Seq(Ids(data)) /\ Len(ByIndexedAt(q, data)) = Cardinality(data)
           /\ RangeOf(ByIndexedAt(q, data)) = Ids(data)
<1> DEFINE k == Cardinality(data)
           f == [d \in data |-> d[2]]
           Before(a, b) == IF q.order = "asc" THEN a[2] < b[2] ELSE a[2] > b[2]
           Well(s) == \A i, j \in DOMAIN s : i < j => Before(s[i], s[j])
           sorted == CHOOSE s \in [1..k -> data] : Well(s)
           L == ByIndexedAt(q, data)
<1>1. /\ IsFiniteSet(data) /\ k \in Nat
      /\ \A d \in data : d[2] \in Nat
      /\ \A d, c \in data : d[2] = c[2] => d = c
  BY FS_CardinalityType DEF DataFits, Dated
<1>2. L = [i \in 1..k |-> RidOf[sorted[i][1]]]
  BY DEF ByIndexedAt
<1>3. PICK s \in [1..k -> data] : \A i, j \in DOMAIN s : i < j => f[s[i]] > f[s[j]]
  <2>1. f \in [data -> Nat] /\ \A d, c \in data : f[d] = f[c] => d = c
    BY <1>1
  <2> HIDE DEF f
  <2>2. QED BY <1>1, <2>1, DatesAreOrdered
<1>4. \E t \in [1..k -> data] : Well(t)
  <2>1. \A i, j \in 1..k : i < j => s[i][2] > s[j][2]
    BY <1>3
  <2>2. CASE q.order # "asc"
    <3>1. Well(s)
      BY <2>1, <2>2
    <3>2. QED BY <3>1
  <2>3. CASE q.order = "asc"
    <3> DEFINE t == [i \in 1..k |-> s[k + 1 - i]]
    <3>1. \A i \in 1..k : k + 1 - i \in 1..k
      BY <1>1
    <3>2. t \in [1..k -> data]
      BY <3>1
    <3>3. ASSUME NEW i \in 1..k, NEW j \in 1..k, i < j PROVE t[i][2] < t[j][2]
      <4>0. k + 1 - j \in 1..k /\ k + 1 - i \in 1..k /\ k + 1 - j < k + 1 - i
        BY <1>1, <3>3
      <4>1. s[k + 1 - j][2] > s[k + 1 - i][2]
        BY <2>1, <4>0
      <4>2. s[k + 1 - j] \in data /\ s[k + 1 - i] \in data
        BY <3>1
      <4>3. QED BY <1>1, <4>1, <4>2
    <3>4. Well(t)
      BY <2>3, <3>2, <3>3
    <3>5. QED BY <3>2, <3>4
  <2>4. QED BY <2>2, <2>3
<1>5. sorted \in [1..k -> data] /\ Well(sorted)
  <2> HIDE DEF Well
  <2>1. QED BY <1>4
<1> HIDE DEF sorted, L
<1>6. ASSUME NEW i \in 1..k, NEW j \in 1..k, sorted[i] = sorted[j] PROVE i = j
  <2>1. sorted[i][2] \in Nat
    BY <1>1, <1>5
  <2>2. ~(i < j) /\ ~(j < i)
    BY <1>5, <1>6, <2>1
  <2>3. QED BY <1>1, <2>2
<1>7. sorted \in Surjection(1..k, data)
  <2>1. sorted \in Injection(1..k, data)
    BY <1>5, <1>6 DEF Injection, IsInjective
  <2>2. Cardinality(1..k) = k
    BY <1>1, FS_Interval
  <2>3. QED BY <1>1, <2>1, <2>2, FS_Injection
<1>8. L \in [1..k -> Ids(data)]
  BY <1>2, <1>5 DEF Ids
<1>9. Ids(data) \subseteq RangeOf(L)
  <2> SUFFICES ASSUME NEW d \in data PROVE RidOf[d[1]] \in RangeOf(L)
    BY DEF Ids
  <2>1. PICK i \in 1..k : sorted[i] = d
    BY <1>7 DEF Surjection
  <2>2. L[i] = RidOf[d[1]] /\ i \in DOMAIN L
    BY <1>2, <2>1
  <2>3. QED BY <2>2 DEF RangeOf
<1>10. RangeOf(L) \subseteq Ids(data)
  BY <1>8 DEF RangeOf
<1>11. L \in Seq(Ids(data)) /\ Len(L) = k
  BY <1>1, <1>8
<1>12. QED BY <1>9, <1>10, <1>11 DEF L

LEMMA WholeIsItself ==
    ASSUME NEW S, NEW s \in Seq(S)
    PROVE  RangeOf(SubSeq(s, 1, Len(s))) = RangeOf(s)
<1> DEFINE t == SubSeq(s, 1, Len(s))
<1>1. t \in Seq(S) /\ Len(s) \in Nat /\ Len(t) = Len(s) /\ \A i \in 1..Len(s) : t[i] = s[i]
  OBVIOUS
<1> HIDE DEF t
<1>2. DOMAIN t = DOMAIN s /\ DOMAIN s = 1..Len(s)
  BY <1>1
<1>3. QED BY <1>1, <1>2 DEF RangeOf, t

\* When no count fell short of what was known, nothing is cut off.
LEMMA NothingIsCutOff ==
    ASSUME NEW q, RequestShape(q), NEW data, NEW hs, NEW n, DataFits(data, hs, n), n \in Nat,
           Cardinality(data) <= q.known, q.known <= q.total, q.total <= q.counted, q.counted <= q.known
    PROVE  RangeOf(WantedOf(q, data)) = Ids(data)
<1> DEFINE k == Cardinality(data)
           L == ByIndexedAt(q, data)
<1>1. k \in Nat /\ q.total \in Nat /\ q.counted \in Nat /\ q.known \in Nat
  BY FS_CardinalityType DEF DataFits, RequestShape
<1> HIDE DEF k
<1>2. k <= q.known
  BY DEF k
<1>3. q.counted = q.total /\ k <= q.total
  BY <1>1, <1>2
<1>4. SliceStart(q) = 0 /\ SliceEnd(q) = q.total
  BY <1>1, <1>3 DEF SliceStart, SliceEnd, Smaller
<1>5. Smaller(SliceEnd(q), k) = k
  BY <1>1, <1>3, <1>4 DEF Smaller
<1>6. WantedOf(q, data) = SubSeq(L, 1, k)
  BY <1>4, <1>5 DEF WantedOf, k
<1>7. L \in Seq(Ids(data)) /\ Len(L) = k /\ RangeOf(L) = Ids(data)
  BY SortedIdsAreAll DEF k
<1> HIDE DEF L
<1>8. QED BY <1>6, <1>7, WholeIsItself

-----------------------------------------------------------------------------
(* The writers. *)
LEMMA DataStayDated ==
    ASSUME NEW data, NEW hs, NEW n, NEW hs2, NEW n2, DataFits(data, hs, n), n \in Nat, n2 \in Nat, n <= n2,
           \A x \in Indexable : hs2[x] = hs[x] \/ hs2[x] = 0 \/ hs2[x] > n
    PROVE  DataFits(data, hs2, n2)
<1>1. ASSUME NEW d \in data PROVE Dated(d, hs2, n2)
  <2>1. Dated(d, hs, n)
    BY DEF DataFits
  <2>2. d[2] \in 1..n /\ d[2] \in 1..n2 /\ d[2] # 0 /\ ~(d[2] > n)
    BY <2>1 DEF Dated
  <2>3. \A x \in Indexable : hs2[x] = d[2] => hs[x] = d[2]
    BY <2>2
  <2>4. QED BY <2>1, <2>2, <2>3 DEF Dated
<1>2. QED BY <1>1 DEF DataFits

LEMMA RequestOutlivesWriter ==
    ASSUME NEW q, NEW s, NEW R, NEW hs, NEW n, RequestFits(q, s, R, hs, n), IsFiniteSet(R),
           NEW s2 \in SUBSET s, NEW R2, NEW hs2, NEW n2, IsFiniteSet(R2), n \in Nat, n2 \in Nat, n <= n2,
           s2 # {} => Cardinality(R) <= Cardinality(R2),
           \A x \in Indexable : hs2[x] = hs[x] \/ hs2[x] = 0 \/ hs2[x] > n
    PROVE  RequestFits(q, s2, R2, hs2, n2)
<1>1. Cardinality(R) \in Nat /\ Cardinality(R2) \in Nat
  BY FS_CardinalityType
<1>2. RequestShape(q) /\ q.total \in Nat /\ q.counted \in Nat
  BY DEF RequestFits, RequestShape
<1>3. s2 # {} => s # {}
  OBVIOUS
<1>4. q.at = "recount" /\ s2 # {} => q.total <= Cardinality(R2)
  BY <1>1, <1>2, <1>3 DEF RequestFits
<1>5. q.at = "members" /\ s2 # {} => q.counted <= Cardinality(R2)
  BY <1>1, <1>2, <1>3 DEF RequestFits
<1>6. q.at = "find" => Finding(q, s2, hs2, n2)
  <2>1. Finding(q, s, hs, n) => Finding(q, s2, hs2, n2)
    BY <1>3, DataStayDated DEF Finding
  <2>2. QED BY <2>1 DEF RequestFits
<1>7. QED BY <1>2, <1>3, <1>4, <1>5, <1>6 DEF RequestFits

LEMMA WriterStep ==
    ASSUME ListingInv, UNCHANGED request, Keep, StoreFits', writes <= writes',
           Described' # {} => rids \subseteq rids',
           \A x \in Indexable : hashes'[x] = hashes[x] \/ hashes'[x] = 0 \/ hashes'[x] > writes
    PROVE  ListingInv'
<1>1. /\ StoreFits /\ RequestsFit /\ IsFiniteSet(rids) /\ IsFiniteSet(rids')
      /\ writes \in Nat /\ writes' \in Nat
  BY DEF ListingInv, StoreFits, HashesFit
<1>2. steady' = [r \in Loads |-> steady[r] \cap Described']
  BY DEF Keep
<1>3. ASSUME NEW r \in Loads
      PROVE  steady'[r] \subseteq Described' /\ RequestFits(request[r], steady'[r], rids', hashes', writes')
  <2>1. steady'[r] \in SUBSET steady[r] /\ steady'[r] \subseteq Described'
    BY <1>2
  <2>2. RequestFits(request[r], steady[r], rids, hashes, writes)
    BY <1>1 DEF RequestsFit
  <2>3. steady'[r] # {} => Cardinality(rids) <= Cardinality(rids')
    BY <1>1, <2>1, FS_Subset
  <2>4. QED BY <1>1, <2>1, <2>2, <2>3, RequestOutlivesWriter
<1>4. DOMAIN request = Loads /\ request = [r \in Loads |-> request[r]]
  BY <1>1 DEF RequestsFit
<1>5. DOMAIN steady' = Loads /\ steady' = [r \in Loads |-> steady'[r]]
  BY <1>2
<1>6. RequestsFit'
  BY <1>3, <1>4, <1>5 DEF RequestsFit
<1>7. QED BY <1>6 DEF ListingInv

\* One more hash, written now.
LEMMA NewestHash ==
    ASSUME NEW hs, NEW n, HashesFit(hs, n), NEW e \in Indexable,
           NEW hs2, hs2 = [x \in Indexable |-> IF x = e THEN n + 1 ELSE hs[x]]
    PROVE  HashesFit(hs2, n + 1) /\ \A x \in Indexable : hs2[x] = hs[x] \/ hs2[x] > n
<1>1. n \in Nat /\ \A x \in Indexable : hs[x] \in 0..n
  BY DEF HashesFit
<1>2. hs2 \in [Indexable -> 0..(n + 1)]
  BY <1>1
<1>3. ASSUME NEW x \in Indexable, NEW y \in Indexable, hs2[x] = hs2[y], hs2[x] # 0 PROVE x = y
  <2>1. CASE x = e /\ y # e
    BY <1>1, <1>3, <2>1
  <2>2. CASE x # e /\ y = e
    BY <1>1, <1>3, <2>2
  <2>3. CASE x # e /\ y # e
    BY <1>3, <2>3 DEF HashesFit
  <2>4. QED BY <2>1, <2>2, <2>3
<1>4. QED BY <1>1, <1>2, <1>3 DEF HashesFit

LEMMA WritersStep ==
    ASSUME ListingInv,
           \/ \E e \in Indexable : StoreListed(e) \/ AddByHand(e)
           \/ DescribeByHand \/ FailByHand \/ ResetList \/ ResetHashes
    PROVE  ListingInv'
<1>1. /\ StoreFits /\ IsFiniteSet(rids) /\ HashesFit(hashes, writes) /\ writes \in Nat
      /\ half \subseteq Indexable /\ \A e, x \in half : e = x
  BY DEF ListingInv, StoreFits, HashesFit
<1>2. ASSUME NEW e \in Indexable, StoreListed(e) PROVE ListingInv'
  <2>1. /\ UNCHANGED <<request, half>> /\ Keep /\ rids' = rids \cup {RidOf[e]} /\ writes' = writes + 1
        /\ hashes' = [hashes EXCEPT ![e] = writes + 1]
    BY <1>2 DEF StoreListed
  <2>2. hashes' = [x \in Indexable |-> IF x = e THEN writes + 1 ELSE hashes[x]]
    BY <1>1, <2>1 DEF HashesFit
  <2>3. IsFiniteSet(rids')
    BY <1>1, <2>1, FS_AddElement
  <2>4. HashesFit(hashes', writes') /\ \A x \in Indexable : hashes'[x] = hashes[x] \/ hashes'[x] > writes
    BY <1>1, <2>1, <2>2, NewestHash
  <2>5. StoreFits'
    BY <1>1, <2>1, <2>3, <2>4 DEF StoreFits
  <2>6. QED BY <1>1, <2>1, <2>4, <2>5, WriterStep
<1>3. ASSUME NEW e \in Indexable, AddByHand(e) PROVE ListingInv'
  <2>1. UNCHANGED <<request, hashes, writes>> /\ Keep /\ rids' = rids \cup {RidOf[e]} /\ half' = {e}
    BY <1>3 DEF AddByHand
  <2>2. StoreFits'
    BY <1>1, <2>1, FS_AddElement DEF StoreFits
  <2>3. QED BY <1>1, <2>1, <2>2, WriterStep
<1>4. CASE DescribeByHand
  <2>1. /\ UNCHANGED <<request, rids>> /\ Keep /\ writes' = writes + 1 /\ half' = {} /\ half # {}
        /\ hashes' = [x \in Indexable |-> IF x \in half THEN writes + 1 ELSE hashes[x]]
    BY <1>4 DEF DescribeByHand
  <2>2. PICK e \in Indexable : half = {e}
    BY <1>1, <2>1
  <2>3. hashes' = [x \in Indexable |-> IF x = e THEN writes + 1 ELSE hashes[x]]
    BY <2>1, <2>2
  <2>4. HashesFit(hashes', writes') /\ \A x \in Indexable : hashes'[x] = hashes[x] \/ hashes'[x] > writes
    BY <1>1, <2>1, <2>3, NewestHash
  <2>5. StoreFits'
    BY <1>1, <2>1, <2>4 DEF StoreFits
  <2>6. QED BY <1>1, <2>1, <2>4, <2>5, WriterStep
<1>5. CASE FailByHand
  <2>1. UNCHANGED <<request, steady, rids, hashes, writes>> /\ half' = {}
    BY <1>5 DEF FailByHand
  <2>2. StoreFits'
    BY <1>1, <2>1 DEF StoreFits
  <2>3. RequestsFit'
    BY <2>1 DEF ListingInv, RequestsFit, Described, Listed
  <2>4. QED BY <2>2, <2>3 DEF ListingInv
<1>6. CASE ResetList
  <2>1. UNCHANGED <<request, hashes, writes, half>> /\ Keep /\ rids' = {}
    BY <1>6 DEF ResetList
  <2>2. StoreFits' /\ Described' = {}
    BY <1>1, <2>1, FS_EmptySet DEF StoreFits, Described, Listed
  <2>3. QED BY <1>1, <2>1, <2>2, WriterStep
<1>7. CASE ResetHashes
  <2>1. UNCHANGED <<request, rids, writes, half>> /\ Keep /\ hashes' = [e \in Indexable |-> 0]
    BY <1>7 DEF ResetHashes
  <2>2. StoreFits'
    BY <1>1, <2>1 DEF StoreFits, HashesFit
  <2>3. QED BY <1>1, <2>1, <2>2, WriterStep
<1>8. QED BY <1>2, <1>3, <1>4, <1>5, <1>6, <1>7

-----------------------------------------------------------------------------
(* The page's requests. *)
LEMMA RequestMoves ==
    ASSUME ListingInv, UNCHANGED storeVars, NEW r \in Loads, NEW q, NEW s,
           request' = [request EXCEPT ![r] = q], steady' = [steady EXCEPT ![r] = s],
           s \subseteq Described, RequestFits(q, s, rids, hashes, writes)
    PROVE  ListingInv'
<1>1. UNCHANGED <<rids, hashes, writes, half>>
  BY DEF storeVars
<1>2. StoreFits' /\ Described' = Described
  BY <1>1 DEF ListingInv, StoreFits, Described, Listed
<1>3. /\ DOMAIN request = Loads /\ request = [x \in Loads |-> request[x]]
      /\ DOMAIN steady = Loads /\ steady = [x \in Loads |-> steady[x]]
      /\ \A x \in Loads : steady[x] \subseteq Described
      /\ \A x \in Loads : RequestFits(request[x], steady[x], rids, hashes, writes)
  BY DEF ListingInv, RequestsFit
<1>4. /\ request'[r] = q /\ \A x \in Loads : x # r => request'[x] = request[x]
      /\ DOMAIN request' = Loads /\ request' = [x \in Loads |-> request'[x]]
  BY <1>3
<1>5. /\ steady'[r] = s /\ \A x \in Loads : x # r => steady'[x] = steady[x]
      /\ DOMAIN steady' = Loads /\ steady' = [x \in Loads |-> steady'[x]]
  BY <1>3
<1>6. ASSUME NEW x \in Loads
      PROVE  steady'[x] \subseteq Described' /\ RequestFits(request'[x], steady'[x], rids', hashes', writes')
  <2>1. CASE x = r
    BY <1>1, <1>2, <1>4, <1>5, <2>1
  <2>2. CASE x # r
    BY <1>1, <1>2, <1>3, <1>4, <1>5, <2>2
  <2>3. QED BY <2>1, <2>2
<1>7. RequestsFit'
  BY <1>4, <1>5, <1>6 DEF RequestsFit
<1>8. QED BY <1>2, <1>7 DEF ListingInv

LEMMA AskedFits ==
    \A p, o, s, R, hs, n : RequestFits(Asked(p, o), s, R, hs, n)
<1> TAKE p, o, s, R, hs, n
<1> DEFINE q == Asked(p, o)
<1>1. DOMAIN q = RequestFields /\ q = [field \in DOMAIN q |-> q[field]]
  BY DEF Asked, NoRequest, RequestFields
<1>2. q.at = "count" /\ q.data = {} /\ q.total = 0 /\ q.counted = 0 /\ q.known = 0
  BY DEF Asked, NoRequest
<1> HIDE DEF q
<1>3. RequestShape(q)
  BY <1>1, <1>2 DEF RequestShape
<1>4. RequestFits(q, s, R, hs, n)
  BY <1>2, <1>3 DEF RequestFits
<1>5. QED BY <1>4 DEF q

LEMMA IdleFits ==
    \A s, R, hs, n : RequestFits(NoRequest, s, R, hs, n) /\ RequestFits(DoneLoad, s, R, hs, n)
<1> TAKE s, R, hs, n
<1> SUFFICES ASSUME NEW q, NEW a \in {"idle", "done"},
                    q = [at |-> a, page |-> 0, order |-> "desc", total |-> 0, counted |-> 0, known |-> 0,
                         todo |-> {}, data |-> {}, wanted |-> <<>>]
             PROVE  RequestFits(q, s, R, hs, n)
  BY DEF NoRequest, DoneLoad
<1>1. RequestShape(q) /\ q.at = a
  BY DEF RequestShape, RequestFields
<1>2. QED BY <1>1 DEF RequestFits

LEMMA LoadStep ==
    ASSUME ListingInv, UNCHANGED storeVars, NEW p, NEW o, LoadList(p, o)
    PROVE  ListingInv'
<1> DEFINE r == CHOOSE x \in FreeLoads : TRUE
<1>1. r \in Loads
  BY DEF LoadList, FreeLoads
<1>2. request' = [request EXCEPT ![r] = Asked(p, o)] /\ steady' = [steady EXCEPT ![r] = Described]
  BY DEF LoadList
<1> HIDE DEF r
<1>3. QED BY <1>1, <1>2, AskedFits, RequestMoves

LEMMA PageStep ==
    ASSUME ListingInv,
           \/ Open \/ Close \/ Reorder \/ ReloadForNetwork \/ TryLoadAgain
           \/ \E p \in 1..MaxStored : Turn(p)
    PROVE  ListingInv'
<1>1. UNCHANGED storeVars
  BY DEF Open, Close, Reorder, ReloadForNetwork, TryLoadAgain, Turn
<1>2. (UNCHANGED <<request, steady>>) \/ \E p, o : LoadList(p, o)
  BY DEF Open, Close, Reorder, ReloadForNetwork, TryLoadAgain, Turn
<1>3. CASE UNCHANGED <<request, steady>>
  BY <1>1, <1>3 DEF storeVars, ListingInv, StoreFits, RequestsFit, Described, Listed
<1>4. QED BY <1>1, <1>2, <1>3, LoadStep
-----------------------------------------------------------------------------
(* The reads of a request. *)
LEMMA ReadStep ==
    ASSUME ListingInv, NEW r \in Loads, NEW q, Became(r, q), Silent,
           RequestFits(q, steady[r], rids, hashes, writes)
    PROVE  ListingInv'
<1>1. /\ UNCHANGED storeVars /\ request' = [request EXCEPT ![r] = q] /\ steady' = steady
      /\ steady[r] \subseteq Described
      /\ DOMAIN steady = Loads /\ steady = [x \in Loads |-> steady[x]]
  BY DEF Became, Silent, ListingInv, RequestsFit
<1>2. steady' = [steady EXCEPT ![r] = steady[r]]
  BY <1>1
<1>3. QED BY <1>1, <1>2, RequestMoves

LEMMA CountStep ==
    ASSUME ListingInv, NEW r \in Loads, Count(r)
    PROVE  ListingInv'
<1> DEFINE q == request[r]
           p == [q EXCEPT !.at = "recount", !.total = Cardinality(rids)]
           s == steady[r]
<1>1. q.at = "count" /\ Became(r, p) /\ Silent
  BY DEF Count
<1>2. RequestFits(q, s, rids, hashes, writes) /\ RequestShape(q) /\ q.data = {}
  BY <1>1 DEF ListingInv, RequestsFit, RequestFits
<1>3. Cardinality(rids) \in Nat
  BY FS_CardinalityType DEF ListingInv, StoreFits
<1> HIDE DEF q
<1>4. RequestShape(p) /\ p.at = "recount" /\ p.total = Cardinality(rids) /\ p.data = {}
  BY <1>2, <1>3 DEF RequestShape, RequestFields
<1> HIDE DEF p
<1>5. RequestFits(p, s, rids, hashes, writes)
  BY <1>3, <1>4 DEF RequestFits
<1>6. QED BY <1>1, <1>5, ReadStep

LEMMA RecountStep ==
    ASSUME ListingInv, NEW r \in Loads, Recount(r)
    PROVE  ListingInv'
<1> DEFINE q == request[r]
           a == IF rids = {} THEN "answer" ELSE "members"
           p == [q EXCEPT !.at = a, !.counted = Cardinality(rids)]
           s == steady[r]
<1>1. q.at = "recount" /\ Became(r, p) /\ Silent
  BY DEF Recount
<1>2. RequestFits(q, s, rids, hashes, writes) /\ RequestShape(q) /\ q.data = {}
  BY <1>1 DEF ListingInv, RequestsFit, RequestFits
<1>3. Cardinality(rids) \in Nat /\ (s # {} => q.total <= Cardinality(rids))
  BY <1>1, <1>2, FS_CardinalityType DEF ListingInv, StoreFits, RequestFits
<1>4. rids = {} => s = {}
  BY DEF ListingInv, RequestsFit, Described, Listed
<1>5. (rids = {} /\ a = "answer") \/ a = "members"
  OBVIOUS
<1> HIDE DEF q, a
<1>6. /\ RequestShape(p) /\ p.at = a /\ p.total = q.total /\ p.counted = Cardinality(rids) /\ p.data = {}
  BY <1>2, <1>3 DEF RequestShape, RequestFields
<1> HIDE DEF p, s
<1>7. RequestFits(p, s, rids, hashes, writes)
  <2>1. CASE rids = {} /\ a = "answer"
    BY <1>4, <1>6, <2>1 DEF RequestFits
  <2>2. CASE a = "members"
    BY <1>3, <1>6, <2>2 DEF RequestFits
  <2>3. QED BY <1>5, <2>1, <2>2
<1>8. QED BY <1>1, <1>7, ReadStep DEF s

LEMMA MembersStep ==
    ASSUME ListingInv, NEW r \in Loads, Members(r)
    PROVE  ListingInv'
<1> DEFINE q == request[r]
           a == IF rids = {} THEN "answer" ELSE "find"
           p == [q EXCEPT !.at = a, !.known = Cardinality(rids), !.todo = rids]
           s == steady[r]
<1>1. q.at = "members" /\ Became(r, p) /\ Silent
  BY DEF Members
<1>2. RequestFits(q, s, rids, hashes, writes) /\ RequestShape(q) /\ q.data = {}
  BY <1>1 DEF ListingInv, RequestsFit, RequestFits
<1>3. /\ Cardinality(rids) \in Nat /\ IsFiniteSet(rids)
      /\ s # {} => q.total <= q.counted
      /\ s # {} => q.counted <= Cardinality(rids)
  BY <1>1, <1>2, FS_CardinalityType DEF ListingInv, StoreFits, RequestFits
<1>4. s \subseteq rids
  BY DEF ListingInv, RequestsFit, Described, Listed
<1>5. (rids = {} /\ a = "answer") \/ a = "find"
  OBVIOUS
<1> HIDE DEF q, a
<1>6. /\ RequestShape(p) /\ p.at = a /\ p.total = q.total /\ p.counted = q.counted /\ p.known = Cardinality(rids)
      /\ p.todo = rids /\ p.data = {}
  BY <1>2, <1>3 DEF RequestShape, RequestFields
<1> HIDE DEF p, s
<1>7. RequestFits(p, s, rids, hashes, writes)
  <2>1. CASE rids = {} /\ a = "answer"
    BY <1>4, <1>6, <2>1 DEF RequestFits
  <2>2. CASE a = "find"
    <3>1. Ids({}) = {} /\ DataFits({}, hashes, writes) /\ Cardinality({}) = 0
      BY FS_EmptySet DEF Ids, DataFits
    <3>2. Finding(p, s, hashes, writes)
      BY <1>3, <1>4, <1>6, <3>1 DEF Finding
    <3>3. QED BY <1>6, <2>2, <3>2 DEF RequestFits
  <2>3. QED BY <1>5, <2>1, <2>2
<1>8. QED BY <1>1, <1>7, ReadStep DEF s

\* What is found for an id is dated, and is found if the id stayed.
LEMMA FoundIsDated ==
    ASSUME ListingInv, NEW id
    PROVE  /\ \A d \in FoundFor(id) : Dated(d, hashes, writes) /\ RidOf[d[1]] = id /\ hashes[d[1]] = d[2]
           /\ FoundFor(id) = {} => id \notin Described
<1>1. /\ hashes \in [Indexable -> 0..writes] /\ writes \in Nat
      /\ \A e, x \in Indexable : hashes[e] = hashes[x] /\ hashes[e] # 0 => e = x
  BY DEF ListingInv, StoreFits, HashesFit
<1>2. ASSUME NEW d \in FoundFor(id)
      PROVE  Dated(d, hashes, writes) /\ RidOf[d[1]] = id /\ hashes[d[1]] = d[2]
  <2>1. PICK e \in Indexable : d = <<e, hashes[e]>> /\ RidOf[e] = id /\ hashes[e] # 0
    BY DEF FoundFor
  <2>2. d[1] = e /\ d[2] = hashes[e] /\ hashes[e] \in 1..writes
    BY <1>1, <2>1
  <2>3. QED BY <1>1, <2>1, <2>2 DEF Dated
<1>3. ASSUME id \in Described PROVE FoundFor(id) # {}
  <2>1. PICK e \in Indexable : id = RidOf[e] /\ Listed(e)
    BY <1>3 DEF Described
  <2>2. <<e, hashes[e]>> \in FoundFor(id)
    BY <2>1 DEF FoundFor, Listed
  <2>3. QED BY <2>2
<1>4. QED BY <1>2, <1>3

\* One more is found.
LEMMA FoundOneMore ==
    ASSUME ListingInv, NEW data, DataFits(data, hashes, writes), NEW id, id \notin Ids(data), NEW d \in FoundFor(id)
    PROVE  /\ DataFits(data \cup {d}, hashes, writes) /\ Ids(data \cup {d}) = Ids(data) \cup {id}
           /\ Cardinality(data \cup {d}) = Cardinality(data) + 1
<1>1. Dated(d, hashes, writes) /\ RidOf[d[1]] = id /\ hashes[d[1]] = d[2]
  BY FoundIsDated
<1>2. \A c \in data : RidOf[c[1]] # id
  BY DEF Ids
<1>3. \A c \in data : c[2] # d[2]
  BY <1>1, <1>2 DEF DataFits, Dated
<1>4. d \notin data /\ IsFiniteSet(data)
  BY <1>1, <1>2 DEF DataFits
<1>5. IsFiniteSet(data \cup {d}) /\ Cardinality(data \cup {d}) = Cardinality(data) + 1
  BY <1>4, FS_AddElement
<1>6. Ids(data \cup {d}) = Ids(data) \cup {id}
  BY <1>1 DEF Ids
<1>7. DataFits(data \cup {d}, hashes, writes)
  BY <1>1, <1>2, <1>3, <1>5 DEF DataFits
<1>8. QED BY <1>5, <1>6, <1>7
\* What holds of the hashes once one id has been looked up.
FoundSo(q, id, data, s) ==
    /\ DataFits(data, hashes, writes) /\ (q.todo \ {id}) \cap Ids(data) = {}
    /\ Cardinality(data) + Cardinality(q.todo \ {id}) <= q.known
    /\ s \subseteq (q.todo \ {id}) \cup Ids(data)

LEMMA LookUpFinds ==
    ASSUME ListingInv, NEW q, NEW s, RequestShape(q), Finding(q, s, hashes, writes), s \subseteq Described,
           NEW id \in q.todo
    PROVE  /\ FoundFor(id) = {} => FoundSo(q, id, q.data, s)
           /\ \A d \in FoundFor(id) : FoundSo(q, id, q.data \cup {d}, s)
<1>1. /\ IsFiniteSet(q.todo) /\ DataFits(q.data, hashes, writes) /\ id \notin Ids(q.data)
      /\ q.todo \cap Ids(q.data) = {} /\ s \subseteq q.todo \cup Ids(q.data)
      /\ Cardinality(q.data) + Cardinality(q.todo) <= q.known
  BY DEF Finding
<1>2. /\ Cardinality(q.todo) \in Nat /\ Cardinality(q.data) \in Nat /\ q.known \in Nat
      /\ Cardinality(q.todo \ {id}) = Cardinality(q.todo) - 1
  BY <1>1, FS_CardinalityType, FS_RemoveElement DEF DataFits, RequestShape
<1>3. ASSUME FoundFor(id) = {} PROVE FoundSo(q, id, q.data, s)
  <2>1. id \notin s
    BY <1>3, FoundIsDated
  <2>2. Cardinality(q.data) + Cardinality(q.todo \ {id}) <= q.known
    BY <1>1, <1>2
  <2>3. QED BY <1>1, <2>1, <2>2 DEF FoundSo
<1>4. ASSUME NEW d \in FoundFor(id) PROVE FoundSo(q, id, q.data \cup {d}, s)
  <2> DEFINE data == q.data \cup {d}
  <2>1. DataFits(data, hashes, writes) /\ Ids(data) = Ids(q.data) \cup {id} /\ Cardinality(data) = Cardinality(q.data) + 1
    BY <1>1, FoundOneMore
  <2> HIDE DEF data
  <2>2. Cardinality(data) + Cardinality(q.todo \ {id}) <= q.known
    BY <1>1, <1>2, <2>1
  <2>3. FoundSo(q, id, data, s)
    BY <1>1, <2>1, <2>2 DEF FoundSo
  <2>4. QED BY <2>3 DEF data
<1>5. QED BY <1>3, <1>4

\* After the last look-up all that stayed is wanted.
LEMMA LastLookUp ==
    ASSUME ListingInv, NEW q, NEW s, RequestShape(q), Finding(q, s, hashes, writes),
           NEW id, q.todo = {id}, NEW data, FoundSo(q, id, data, s), NEW a,
           WantedOf(q, data) = <<>> => a = "answer", WantedOf(q, data) # <<>> => a = "fetch"
    PROVE  RequestFits([q EXCEPT !.at = a, !.counted = 0, !.data = {}, !.wanted = WantedOf(q, data),
                                 !.todo = RangeOf(WantedOf(q, data))], s, rids, hashes, writes)
<1> DEFINE W == WantedOf(q, data)
           p == [q EXCEPT !.at = a, !.counted = 0, !.data = {}, !.wanted = W, !.todo = RangeOf(W)]
<1>1. /\ DataFits(data, hashes, writes) /\ s \subseteq Ids(data)
      /\ Cardinality(data) <= q.known /\ writes \in Nat
  <2>1. q.todo \ {id} = {} /\ Cardinality({}) = 0
    BY FS_EmptySet
  <2>2. DataFits(data, hashes, writes) /\ s \subseteq Ids(data) /\ Cardinality(data) + 0 <= q.known
    BY <2>1 DEF FoundSo
  <2>3. Cardinality(data) \in Nat /\ q.known \in Nat /\ writes \in Nat
    BY <2>2, FS_CardinalityType DEF DataFits, RequestShape, ListingInv, StoreFits, HashesFit
  <2>4. QED BY <2>2, <2>3
<1>2. q.known <= q.total /\ s # {} => RangeOf(W) = Ids(data)
  BY <1>1, NothingIsCutOff DEF Finding
<1>3. q.known <= q.total => s \subseteq RangeOf(W)
  BY <1>1, <1>2
<1>4. W = <<>> => RangeOf(W) = {}
  BY DEF RangeOf
<1>5. (W = <<>> /\ a = "answer") \/ a = "fetch"
  OBVIOUS
<1> HIDE DEF W
<1>6. RequestShape(p) /\ p.at = a /\ p.todo = RangeOf(W) /\ p.known = q.known /\ p.total = q.total /\ p.data = {}
  BY DEF RequestShape, RequestFields
<1> HIDE DEF p
<1>7. RequestFits(p, s, rids, hashes, writes)
  <2>1. CASE W = <<>> /\ a = "answer"
    BY <1>3, <1>4, <1>6, <2>1 DEF RequestFits
  <2>2. CASE a = "fetch"
    BY <1>3, <1>6, <2>2 DEF RequestFits
  <2>3. QED BY <1>5, <2>1, <2>2
<1>8. QED BY <1>7 DEF p, W

LEMMA OneLookUp ==
    ASSUME NEW q, NEW s, RequestShape(q), q.at = "find", Finding(q, s, hashes, writes),
           NEW id, NEW data, FoundSo(q, id, data, s)
    PROVE  RequestFits([q EXCEPT !.data = data, !.todo = @ \ {id}], s, rids, hashes, writes)
<1> DEFINE p == [q EXCEPT !.data = data, !.todo = @ \ {id}]
<1>1. /\ RequestShape(p) /\ p.at = "find" /\ p.data = data /\ p.todo = q.todo \ {id}
      /\ p.known = q.known /\ p.total = q.total /\ p.counted = q.counted
  BY DEF RequestShape, RequestFields
<1> HIDE DEF p
<1>2. IsFiniteSet(p.todo)
  BY <1>1, FS_Subset DEF Finding
<1>3. Finding(p, s, hashes, writes)
  BY <1>1, <1>2 DEF Finding, FoundSo
<1>4. RequestFits(p, s, rids, hashes, writes)
  BY <1>1, <1>3 DEF RequestFits
<1>5. QED BY <1>4 DEF p

LEMMA FindStep ==
    ASSUME ListingInv, NEW r \in Loads, NEW id, Find(r, id)
    PROVE  ListingInv'
<1> DEFINE q == request[r]
           s == steady[r]
           Now(data) ==
             IF q.todo = {id}
             THEN [q EXCEPT !.at = IF WantedOf(q, data) = <<>> THEN "answer" ELSE "fetch",
                            !.counted = 0, !.data = {}, !.wanted = WantedOf(q, data),
                            !.todo = RangeOf(WantedOf(q, data))]
             ELSE [q EXCEPT !.data = data, !.todo = @ \ {id}]
<1>1. /\ q.at = "find" /\ id \in q.todo /\ Silent
      /\ \/ FoundFor(id) = {} /\ Became(r, Now(q.data))
         \/ \E d \in FoundFor(id) : Became(r, Now(q.data \cup {d}))
  BY DEF Find
<1>2. RequestShape(q) /\ Finding(q, s, hashes, writes) /\ s \subseteq Described
  BY <1>1 DEF ListingInv, RequestsFit, RequestFits
<1>3. ASSUME NEW data, FoundSo(q, id, data, s) PROVE RequestFits(Now(data), s, rids, hashes, writes)
  <2>1. CASE q.todo = {id}
    <3> DEFINE a == IF WantedOf(q, data) = <<>> THEN "answer" ELSE "fetch"
    <3>1. (WantedOf(q, data) = <<>> => a = "answer") /\ (WantedOf(q, data) # <<>> => a = "fetch")
      OBVIOUS
    <3>2. Now(data) = [q EXCEPT !.at = a, !.counted = 0, !.data = {}, !.wanted = WantedOf(q, data),
                                !.todo = RangeOf(WantedOf(q, data))]
      BY <2>1
    <3> HIDE DEF q, s, a, Now
    <3>3. RequestFits([q EXCEPT !.at = a, !.counted = 0, !.data = {}, !.wanted = WantedOf(q, data),
                                !.todo = RangeOf(WantedOf(q, data))], s, rids, hashes, writes)
      BY <1>2, <1>3, <2>1, <3>1, LastLookUp
    <3>4. QED BY <3>2, <3>3
  <2>2. CASE q.todo # {id}
    <3>1. Now(data) = [q EXCEPT !.data = data, !.todo = @ \ {id}]
      BY <2>2
    <3> HIDE DEF q, s, Now
    <3>2. RequestFits([q EXCEPT !.data = data, !.todo = @ \ {id}], s, rids, hashes, writes)
      BY <1>1, <1>2, <1>3, OneLookUp
    <3>3. QED BY <3>1, <3>2
  <2>3. QED BY <2>1, <2>2
<1> HIDE DEF q, Now
<1>4. PICK data : Became(r, Now(data)) /\ FoundSo(q, id, data, s)
  <2> HIDE DEF s
  <2>1. QED BY <1>1, <1>2, LookUpFinds
<1>5. QED BY <1>1, <1>3, <1>4, ReadStep DEF s

LEMMA FetchStep ==
    ASSUME ListingInv, NEW r \in Loads, NEW id, Fetch(r, id)
    PROVE  ListingInv'
<1> DEFINE q == request[r]
           s == steady[r]
           Now(data) == [q EXCEPT !.at = IF q.todo = {id} THEN "answer" ELSE "fetch",
                                  !.data = data, !.todo = @ \ {id}]
<1>1. /\ q.at = "fetch" /\ id \in q.todo /\ Silent
      /\ \/ FoundFor(id) = {} /\ Became(r, Now(q.data))
         \/ \E d \in FoundFor(id) : Became(r, Now(q.data \cup {d}))
  BY DEF Fetch
<1>2. /\ RequestShape(q) /\ s \subseteq Described
      /\ q.known <= q.total => s \subseteq q.todo \cup Ids(q.data)
  BY <1>1 DEF ListingInv, RequestsFit, RequestFits
<1>3. ASSUME NEW data, s \subseteq q.todo \cup Ids(q.data) => s \subseteq (q.todo \ {id}) \cup Ids(data)
      PROVE  RequestFits(Now(data), s, rids, hashes, writes)
  <2> DEFINE a == IF q.todo = {id} THEN "answer" ELSE "fetch"
             p == [q EXCEPT !.at = a, !.data = data, !.todo = @ \ {id}]
  <2>1. (q.todo = {id} /\ a = "answer") \/ a = "fetch"
    OBVIOUS
  <2> HIDE DEF q, a
  <2>2. /\ RequestShape(p) /\ p.at = a /\ p.data = data /\ p.todo = q.todo \ {id}
        /\ p.known = q.known /\ p.total = q.total
    BY <1>2 DEF RequestShape, RequestFields
  <2> HIDE DEF p, s
  <2>3. p.known <= p.total => s \subseteq p.todo \cup Ids(p.data)
    BY <1>2, <1>3, <2>2
  <2>4. RequestFits(p, s, rids, hashes, writes)
    <3>1. CASE q.todo = {id} /\ a = "answer"
      <4>1. p.todo = {}
        BY <2>2, <3>1
      <4>2. QED BY <2>2, <2>3, <3>1, <4>1 DEF RequestFits
    <3>2. CASE a = "fetch"
      BY <2>2, <2>3, <3>2 DEF RequestFits
    <3>3. QED BY <2>1, <3>1, <3>2
  <2>5. QED BY <2>4 DEF p, a
<1> HIDE DEF q, Now
<1>4. PICK data : Became(r, Now(data)) /\ (s \subseteq q.todo \cup Ids(q.data) => s \subseteq (q.todo \ {id}) \cup Ids(data))
  <2> HIDE DEF s
  <2>1. CASE FoundFor(id) = {} /\ Became(r, Now(q.data))
    <3>1. id \notin s
      BY <1>2, <2>1, FoundIsDated
    <3>2. s \subseteq q.todo \cup Ids(q.data) => s \subseteq (q.todo \ {id}) \cup Ids(q.data)
      BY <3>1
    <3>3. QED BY <2>1, <3>2
  <2>2. ASSUME NEW d \in FoundFor(id), Became(r, Now(q.data \cup {d}))
        PROVE  \E data : Became(r, Now(data)) /\ (s \subseteq q.todo \cup Ids(q.data) => s \subseteq (q.todo \ {id}) \cup Ids(data))
    <3>1. RidOf[d[1]] = id
      BY FoundIsDated
    <3>2. Ids(q.data \cup {d}) = Ids(q.data) \cup {id}
      BY <3>1 DEF Ids
    <3>3. QED BY <2>2, <3>2
  <2>3. QED BY <1>1, <2>1, <2>2
<1>5. QED BY <1>1, <1>3, <1>4, ReadStep DEF s

LEMMA EndStep ==
    ASSUME ListingInv, NEW r \in Loads, ListingArrives(r) \/ ListingFails(r)
    PROVE  ListingInv'
<1>1. /\ UNCHANGED storeVars
      /\ request' = [request EXCEPT ![r] = DoneLoad] /\ steady' = [steady EXCEPT ![r] = {}]
  BY DEF ListingArrives, ListingFails, Ended, Became
<1>2. QED BY <1>1, IdleFits, RequestMoves

LEMMA ListingInvariant == ListingSpec => []ListingInv
<1>1. ListingInit => ListingInv
  <2> SUFFICES ASSUME ListingInit PROVE ListingInv
    OBVIOUS
  <2>1. rids = {} /\ hashes = [e \in Indexable |-> 0] /\ writes = 0 /\ half = {}
    BY DEF ListingInit
  <2>2. StoreFits
    BY <2>1, FS_EmptySet DEF StoreFits, HashesFit
  <2>3. /\ request = [r \in Loads |-> IF r = FirstLoad THEN Asked(1, "desc") ELSE NoRequest]
        /\ steady = [r \in Loads |-> {}]
    BY DEF ListingInit
  <2>4. \A r \in Loads : request[r] = Asked(1, "desc") \/ request[r] = NoRequest
    BY <2>3
  <2>5. \A r \in Loads : RequestFits(request[r], steady[r], rids, hashes, writes)
    BY <2>4, AskedFits, IdleFits
  <2>6. RequestsFit
    BY <2>3, <2>5 DEF RequestsFit
  <2>7. QED BY <2>2, <2>6 DEF ListingInv
<1>2. ListingInv /\ [ListingNext]_listingVars => ListingInv'
  <2> SUFFICES ASSUME ListingInv, [ListingNext]_listingVars PROVE ListingInv'
    OBVIOUS
  <2>1. CASE UNCHANGED listingVars
    BY <2>1 DEF listingVars, storeVars, ListingInv, StoreFits, RequestsFit, Described, Listed
  <2>2. QED BY <2>1, WritersStep, PageStep, CountStep, RecountStep, MembersStep, FindStep, FetchStep, EndStep
            DEF ListingNext
<1>3. QED BY <1>1, <1>2, PTL DEF ListingSpec

\* For any resources, writers and requests: an answer lists every resource that was
\* there from the request's beginning to its end, unless the set grew beyond its first
\* count (resourceManager.ts:92-150).
THEOREM AnswersListWhatStays == ListingSpec => []ListsWhatStays
<1>1. ListingInv => ListsWhatStays
  BY DEF ListingInv, RequestsFit, RequestFits, ListsWhatStays, Ids
<1>2. QED BY <1>1, ListingInvariant, PTL
=============================================================================
