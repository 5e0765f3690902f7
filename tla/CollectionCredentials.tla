----------------------- MODULE CollectionCredentials -----------------------
(***************************************************************************)
(* CollectionCredentialService of the API                                  *)
(* (packages/ordinals-plus-api/src/services/collectionCredentialService.ts)*)
(* over the repositories of collections and of credentials, beside callers *)
(* that change collections and credentials directly.  A call runs up to    *)
(* its next await in one action: the read of a collection, the request to  *)
(* the service that signs or revokes, the write.                           *)
(***************************************************************************)
EXTENDS Naturals, FiniteSets

CONSTANTS
    CollectionIds,   \* ids createCollection may generate
    CredentialIds,   \* ids of credentials
    Curators,        \* DIDs of curators, who issue credentials
    Items,           \* DIDs of items
    Labels,          \* what else is indexed: a category with its tags
    Calls,       \* bound: calls that may be in flight at once
    MaxCalls,    \* bound: calls ever made
    MaxFiles     \* bound: backups made and restored

VARIABLES
    collections,     \* what is stored, by id
    metadata,        \* ids that have an entry in the second map
    byId,            \* ids the index by id knows
    byField,         \* pairs of a field's value and an id
    backup,          \* the file createBackup wrote, or none
    created,         \* history: ids ever generated
    credentials,        \* what is stored, by id
    credentialBackup,   \* the file createBackup wrote, or none
    calls,        \* what each call in flight waits for, and has read so far
    issued,       \* history: the credential ids that were signed
    started,      \* history: calls made
    files         \* history: backups made and restored

-----------------------------------------------------------------------------
(* InMemoryCollectionRepository (repositories/collectionRepository.ts):     *)
(* collections as JSON under a storage key, an index by id, and one index  *)
(* per searchable field.  Every change is a read (getCollectionById), an   *)
(* await, and a write: two changes of one collection interleave there.     *)
(*                                                                         *)
(* A storage key is a fresh uuid that a collection keeps for good, so the  *)
(* store is indexed by collection id here.  The indexes by curator, item,  *)
(* category, tag and inscription are filled and emptied alike: they are    *)
(* one relation between the values of those fields and collection ids.     *)
NoCollection == [curator |-> "none"]
NoCredential == "no credential"
EmptyCredential == "{ id: '' }"
NotStored == [collection |-> "none"]

ASSUME CollectionsAssumption ==
    /\ MaxCalls \in Nat /\ MaxFiles \in Nat
    /\ CredentialIds \cap {NoCredential, EmptyCredential} = {}

Collection ==
    [curator : Curators, items : SUBSET Items, label : Labels,
     credential : CredentialIds \cup {NoCredential, EmptyCredential}]

\* The issuer comes from the credential, the rest from its metadata.
Credential == [collection : CollectionIds, issuer : Curators, revoked : BOOLEAN]

repositoryVars == <<collections, metadata, byId, byField, backup, created>>

NoBackup == [file |-> "none"]

\* getCollectionById: through the index by id, then the store.
Found(id) == id \in byId /\ collections[id] # NoCollection

\* indexCollection and removeCollectionFromIndexes touch the same pairs.
Entries(id, c) == ({c.curator, c.label} \cup c.items) \X {id}

\* findCollections with one filter on an indexed field: the field's set is
\* intersected with the index by id, and each id is then loaded.
FoundUnder(v) == {id \in byId : <<v, id>> \in byField /\ Found(id)}

RepositoryInit ==
    /\ collections = [id \in CollectionIds |-> NoCollection]
    /\ metadata = {}
    /\ byId = {}
    /\ byField = {}
    /\ backup = NoBackup
    /\ created = {}

\* createCollection: nothing is awaited.
Create(id, c) ==
    /\ id \notin created
    /\ c.credential = NoCredential
    /\ collections' = [collections EXCEPT ![id] = c]
    /\ metadata' = metadata \cup {id}
    /\ byId' = byId \cup {id}
    /\ byField' = byField \cup Entries(id, c)
    /\ created' = created \cup {id}
    /\ UNCHANGED backup

\* What a caller may make of the collection c it has read.  Adding an item
\* that is there, and changing or removing one that is not, change nothing.
\* An update of an item changes its order or notes, which are not indexed.
AddItem(c) == {[c EXCEPT !.items = @ \cup {i}] : i \in Items \ c.items}
RemoveItem(c) == {[c EXCEPT !.items = @ \ {i}] : i \in c.items}
UpdateItem(c) == {d \in {c} : d.items # {}}
UpdateMetadata(c) == {[c EXCEPT !.label = l] : l \in Labels}

SetCredential(c, credential) == [c EXCEPT !.credential = credential]

Edits(c) == AddItem(c) \cup RemoveItem(c) \cup UpdateItem(c) \cup UpdateMetadata(c)

\* (mutant of Write: the storage key is taken before the await)
WriteByOldKey(id, old, new) ==
    /\ collections' = [collections EXCEPT ![id] = new]
    /\ metadata' = metadata \cup {id}
    /\ byId' = byId \cup {id}
    /\ byField' = (byField \ Entries(id, old)) \cup Entries(id, new)
    /\ UNCHANGED <<backup, created>>

\* (mutant of Write: the old entries are removed last)
WriteIndexFirst(id, old, new) ==
    IF id \in byId
    THEN /\ collections' = [collections EXCEPT ![id] = new]
         /\ metadata' = metadata \cup {id}
         /\ byField' = (byField \cup Entries(id, new)) \ Entries(id, old)
         /\ UNCHANGED <<byId, backup, created>>
    ELSE UNCHANGED repositoryVars

\* The second half of every change: the index by id is asked again after the
\* await; the entries of the collection that was read are replaced by those
\* of the one that is stored.
Write(id, old, new) ==
    IF id \in byId
    THEN /\ collections' = [collections EXCEPT ![id] = new]
         /\ metadata' = metadata \cup {id}
         /\ byField' = (byField \ Entries(id, old)) \cup Entries(id, new)
         /\ UNCHANGED <<byId, backup, created>>
    ELSE UNCHANGED repositoryVars

\* The second half of deleteCollection: the key is not asked for again.
Delete(id, old) ==
    /\ byId' = byId \ {id}
    /\ byField' = byField \ Entries(id, old)
    /\ collections' = [collections EXCEPT ![id] = NoCollection]
    /\ metadata' = metadata \ {id}
    /\ UNCHANGED <<backup, created>>

\* createBackup, or its timer: the two maps, without the indexes.
Backup ==
    /\ backup' = [collections |-> collections, metadata |-> metadata]
    /\ UNCHANGED <<collections, metadata, byId, byField, created>>

\* restoreFromBackup: everything is cleared, the maps are filled, and the
\* indexes are rebuilt from the collections that getCollectionById finds.
\* It looks them up in the index by id, which has just been cleared.
Restore ==
    LET rebuilt == {id \in backup.metadata : id \in {}}
    IN  /\ backup # NoBackup
        /\ collections' = backup.collections
        /\ metadata' = backup.metadata
        /\ byId' = rebuilt
        /\ byField' = UNION {Entries(id, backup.collections[id]) : id \in rebuilt}
        /\ UNCHANGED <<backup, created>>

-----------------------------------------------------------------------------
(* InMemoryCredentialRepository (repositories/credentialRepository.ts):     *)
(* credentials under a storage key, metadata and indexes by credential id. *)
(* An id is stored once by the collection credential service, and its      *)
(* updates keep the credential and change its metadata, so the storage key *)
(* and the index entries of an id never change: one map stands for all.    *)
credentialVars == <<credentials, credentialBackup>>

NoCredentialBackup == [file |-> "none"]

Stored(cid) == credentials[cid] # NotStored

CredentialInit ==
    /\ credentials = [cid \in CredentialIds |-> NotStored]
    /\ credentialBackup = NoCredentialBackup

\* storeCredential: nothing is awaited.
StoreCredential(cid, credential) ==
    /\ credentials' = [credentials EXCEPT ![cid] = credential]
    /\ UNCHANGED credentialBackup

\* The second half of updateCredential: the storage key was taken before the
\* await, and all of the entry is written again.
UpdateCredential(cid, credential) ==
    /\ credentials' = [credentials EXCEPT ![cid] = credential]
    /\ UNCHANGED credentialBackup

\* The second half of deleteCredential.
DeleteCredential(cid) ==
    /\ credentials' = [credentials EXCEPT ![cid] = NotStored]
    /\ UNCHANGED credentialBackup

\* createBackup, or its timer.
BackupCredentials ==
    /\ credentialBackup' = [credentials |-> credentials]
    /\ UNCHANGED credentials

\* restoreFromBackup: the maps and the indexes as they were written.  Between
\* clearing and filling them nothing is awaited.
RestoreCredentials ==
    /\ credentialBackup # NoCredentialBackup
    /\ credentials' = credentialBackup.credentials
    /\ UNCHANGED credentialBackup

-----------------------------------------------------------------------------
(* The service. *)
collectionsVars == <<repositoryVars, credentialVars, calls, issued, started, files>>

Idle == [at |-> "idle"]
Writing(id, old, new) == [at |-> "writing", id |-> id, old |-> old, new |-> new]

SetCall(k, call) == calls' = [calls EXCEPT ![k] = call]
Ends(k) == SetCall(k, Idle)

\* A new call is made.
MayStart(k) ==
    /\ calls[k] = Idle
    /\ started < MaxCalls
    /\ started' = started + 1

CollectionsInit ==
    /\ RepositoryInit
    /\ CredentialInit
    /\ calls = [k \in Calls |-> Idle]
    /\ issued = {}
    /\ started = 0
    /\ files = 0

-----------------------------------------------------------------------------
(* Calls to the repository of collections.                                 *)

CreateCollection ==
    /\ \E id \in CollectionIds, u \in Curators, l \in Labels, its \in SUBSET Items :
         Create(id, [curator |-> u, items |-> its, label |-> l,
                     credential |-> NoCredential])
    /\ UNCHANGED <<credentialVars, calls, issued, started, files>>

\* updateCollection, addItemToCollection, updateCollectionItem and
\* removeItemFromCollection up to their write.  What they will write depends
\* on the collection they have read and on nothing later.
StartEdit(k, id) ==
    /\ MayStart(k)
    /\ Found(id)
    /\ \E new \in Edits(collections[id]) :
         SetCall(k, Writing(id, collections[id], new))
    /\ UNCHANGED <<repositoryVars, credentialVars, issued, files>>

FinishWrite(k) ==
    LET c == calls[k]
    IN  /\ c.at = "writing"
        /\ Write(c.id, c.old, c.new)
        /\ Ends(k)
        /\ UNCHANGED <<credentialVars, issued, started, files>>

StartDelete(k, id) ==
    /\ MayStart(k)
    /\ Found(id)
    /\ SetCall(k, [at |-> "deleting", id |-> id, old |-> collections[id]])
    /\ UNCHANGED <<repositoryVars, credentialVars, issued, files>>

FinishDelete(k) ==
    /\ calls[k].at = "deleting"
    /\ Delete(calls[k].id, calls[k].old)
    /\ Ends(k)
    /\ UNCHANGED <<credentialVars, issued, started, files>>

-----------------------------------------------------------------------------
(* issueCollectionCredential                                               *)

\* (mutant of StartIssue: anybody may issue)
StartIssueUnchecked(k, id, issuer) ==
    /\ MayStart(k)
    /\ Found(id)
    /\ SetCall(k, [at |-> "signing", id |-> id, issuer |-> issuer])
    /\ UNCHANGED <<repositoryVars, credentialVars, issued, files>>

\* The curator is checked against the collection as it is read here; the
\* credential made from it is sent to be signed.
StartIssue(k, id, issuer) ==
    /\ MayStart(k)
    /\ Found(id)
    /\ collections[id].curator = issuer
    /\ SetCall(k, [at |-> "signing", id |-> id, issuer |-> issuer])
    /\ UNCHANGED <<repositoryVars, credentialVars, issued, files>>

\* The request is refused or lost: the call throws, nothing is changed.
RequestFails(k) ==
    /\ calls[k].at \in {"signing", "revoking"}
    /\ Ends(k)
    /\ UNCHANGED <<repositoryVars, credentialVars, issued, started, files>>

\* Signed: the credential is stored, then attached.
Signed(k) ==
    LET c == calls[k]
    IN  /\ c.at = "signing"
        /\ \E cid \in CredentialIds \ issued :
             /\ issued' = issued \cup {cid}
             /\ StoreCredential(cid, [collection |-> c.id, issuer |-> c.issuer,
                                      revoked |-> FALSE])
             /\ SetCall(k, [at |-> "attaching", id |-> c.id, credential |-> cid])
        /\ UNCHANGED <<repositoryVars, started, files>>

\* setCollectionCredential, up to its write: of a collection that is gone it
\* returns null, which neither issuing nor revoking looks at.
Attach(k) ==
    LET c == calls[k]
    IN  /\ c.at = "attaching"
        /\ IF Found(c.id)
           THEN SetCall(k, Writing(c.id, collections[c.id],
                                   SetCredential(collections[c.id], c.credential)))
           ELSE Ends(k)
        /\ UNCHANGED <<repositoryVars, credentialVars, issued, started, files>>

-----------------------------------------------------------------------------
(* revokeCollectionCredential                                              *)

StartRevoke(k, cid, issuer) ==
    /\ MayStart(k)
    /\ Stored(cid)
    /\ credentials[cid].issuer = issuer
    /\ SetCall(k, [at |-> "revoking", cid |-> cid, read |-> credentials[cid]])
    /\ UNCHANGED <<repositoryVars, credentialVars, issued, files>>

\* Revoked by the API: updateCredential reads the entry, unless it is gone,
\* which the service does not notice.
Revoked(k) ==
    LET c == calls[k]
    IN  /\ c.at = "revoking"
        /\ SetCall(k, IF Stored(c.cid)
                      THEN [at |-> "marking", cid |-> c.cid, read |-> c.read]
                      ELSE [at |-> "attaching", id |-> c.read.collection,
                            credential |-> EmptyCredential])
        /\ UNCHANGED <<repositoryVars, credentialVars, issued, started, files>>

\* The entry is written with the credential and metadata that were read
\* before the request.  Whatever credential the collection has is cleared.
MarkRevoked(k) ==
    LET c == calls[k]
    IN  /\ c.at = "marking"
        /\ UpdateCredential(c.cid, [c.read EXCEPT !.revoked = TRUE])
        /\ SetCall(k, [at |-> "attaching", id |-> c.read.collection,
                       credential |-> EmptyCredential])
        /\ UNCHANGED <<repositoryVars, issued, started, files>>

StartDeleteCredential(k, cid) ==
    /\ MayStart(k)
    /\ Stored(cid)
    /\ SetCall(k, [at |-> "erasing", cid |-> cid])
    /\ UNCHANGED <<repositoryVars, credentialVars, issued, files>>

FinishDeleteCredential(k) ==
    /\ calls[k].at = "erasing"
    /\ DeleteCredential(calls[k].cid)
    /\ Ends(k)
    /\ UNCHANGED <<repositoryVars, issued, started, files>>

-----------------------------------------------------------------------------
CallSteps(k) ==
    \/ FinishWrite(k)
    \/ FinishDelete(k)
    \/ RequestFails(k)
    \/ Signed(k)
    \/ Attach(k)
    \/ Revoked(k)
    \/ MarkRevoked(k)
    \/ FinishDeleteCredential(k)

Starts(k) ==
    \/ \E id \in CollectionIds : StartEdit(k, id) \/ StartDelete(k, id)
    \/ \E id \in CollectionIds, u \in Curators : StartIssue(k, id, u)
    \/ \E cid \in CredentialIds, u \in Curators : StartRevoke(k, cid, u)
    \/ \E cid \in CredentialIds : StartDeleteCredential(k, cid)

Files ==
    /\ files < MaxFiles
    /\ files' = files + 1
    /\ \/ (Backup \/ Restore) /\ UNCHANGED credentialVars
       \/ (BackupCredentials \/ RestoreCredentials) /\ UNCHANGED repositoryVars
    /\ UNCHANGED <<calls, issued, started>>

CollectionsNext ==
    \/ CreateCollection
    \/ \E k \in Calls : Starts(k) \/ CallSteps(k)
    \/ Files

CollectionsSpec == CollectionsInit /\ [][CollectionsNext]_collectionsVars

-----------------------------------------------------------------------------
RepositoryTypeOK ==
    /\ collections \in [CollectionIds -> Collection \cup {NoCollection}]
    /\ metadata \subseteq CollectionIds
    /\ byId \subseteq CollectionIds
    /\ byField \subseteq (Curators \cup Labels \cup Items) \X CollectionIds
    /\ created \subseteq CollectionIds
    /\ backup # NoBackup =>
         /\ backup.collections \in [CollectionIds -> Collection \cup {NoCollection}]
         /\ backup.metadata \subseteq CollectionIds

CredentialTypeOK ==
    /\ credentials \in [CredentialIds -> Credential \cup {NotStored}]
    /\ credentialBackup # NoCredentialBackup =>
         credentialBackup.credentials \in [CredentialIds -> Credential \cup {NotStored}]

CollectionsTypeOK ==
    /\ RepositoryTypeOK
    /\ CredentialTypeOK
    /\ issued \subseteq CredentialIds
    /\ started \in 0..MaxCalls
    /\ files \in 0..MaxFiles
    /\ \A k \in Calls :
         calls[k].at \in {"idle", "writing", "deleting", "signing", "attaching",
                          "revoking", "marking", "erasing"}

\* A collection that is reachable by its id is stored, and is found under
\* every value it carries, whatever changes of it overlap (each removes the
\* entries of what it read, which may no longer be what is stored).
IndexComplete ==
    \A id \in byId :
        /\ collections[id] # NoCollection
        /\ id \in metadata
        /\ Entries(id, collections[id]) \subseteq byField

\* What the comment "Rebuild indexes" (collectionRepository.ts:1014) has a
\* restore do: every collection that is stored can be looked up.
StoredIsReachable == \A id \in CollectionIds : collections[id] # NoCollection => Found(id)

\* A collection that was deleted while it was being changed stays deleted.
DeletedStaysDeleted ==
    [][\A id \in created \ byId : id \notin byId']_repositoryVars

\* A credential a collection carries was issued for this collection by its
\* curator, whatever was deleted, restored or attached while it was signed.
AttachedByCurator ==
    \A id \in CollectionIds, cid \in CredentialIds :
        Found(id) /\ collections[id].credential = cid /\ Stored(cid) =>
            /\ credentials[cid].collection = id
            /\ credentials[cid].issuer = collections[id].curator

\* What the comment "Remove the credential reference from the collection"
\* (collectionCredentialService.ts:256) promises: only the credential that is
\* being revoked is taken off its collection.
OnlyRevokedIsDetached ==
    [][\A id \in CollectionIds, cid \in CredentialIds :
          /\ Found(id) /\ collections[id].credential = cid
          /\ Found(id)' /\ collections'[id].credential = EmptyCredential
          => credentials[cid] = NotStored \/ credentials[cid].revoked]_collectionsVars
=============================================================================
