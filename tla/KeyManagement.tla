--------------------------- MODULE KeyManagement ---------------------------
(***************************************************************************)
(* KeyManager of the library (packages/ordinalsplus/src/key-management)    *)
(* over the in-memory storage or the encrypted one.  Storage calls are     *)
(* asynchronous, so several operations may be under way at once, each      *)
(* somewhere between its awaits.                                           *)
(*                                                                         *)
(* The in-memory storage hands out the object it holds: metadata that one  *)
(* operation assigns to it is seen by every other operation that holds the *)
(* same object, until the key is stored again, which puts a copy in its    *)
(* place.  The encrypted storage hands out a fresh object each time.  An   *)
(* object is named by its key and the number of stores that made it.       *)
(***************************************************************************)
EXTENDS Naturals, FiniteSets

CONSTANTS
    Keys,           \* key ids: a public key determines its id
    Aliases,
    KeyTasks,       \* bound: operations that may be under way at once
    MaxStores,      \* bound: stores of keys
    MaxPasswords,   \* bound: changes of the master password
    NoAlias

ASSUME KeyAssumption ==
    /\ NoAlias \notin Aliases
    /\ MaxStores \in Nat /\ MaxPasswords \in Nat

VARIABLES
    encrypted,      \* which of the two storages backs the manager
    stored,         \* keys: [made, revoked, sealed] or NotStored
    aliases,        \* aliases: alias -> key id
    known,          \* key ids ever generated or imported
    stores,         \* number of stores so far
    masterKey,      \* the number of the password the storage encrypts with
    passwords,      \* number of passwords ever chosen
    task            \* what each operation does next

keyVars == <<encrypted, stored, aliases, known, stores, masterKey, passwords, task>>

NotStored == [made |-> 0, revoked |-> FALSE, sealed |-> 0]
NoKey == "no key"
NoTask == [at |-> "none"]

StoredKeys == {k \in Keys : stored[k] # NotStored}
\* A key whose entry cannot be decrypted is answered with null.
Readable(k) == k \in StoredKeys /\ (encrypted => stored[k].sealed = masterKey)
\* The key a name leads to: an id is tried first, then an alias.
Named(name) == IF name \in Keys THEN name ELSE aliases[name]

KeyInit ==
    /\ encrypted \in BOOLEAN
    /\ stored = [k \in Keys |-> NotStored]
    /\ aliases = [a \in Aliases |-> NoKey]
    /\ known = {} /\ stores = 0 /\ masterKey = 0 /\ passwords = 0
    /\ task = [t \in KeyTasks |-> NoTask]

Go(t, next) == task' = [task EXCEPT ![t] = next]
End(t) == Go(t, NoTask)

\* storeKey: a new object under the key's id, and the alias if there is one.
StoreAs(k, revoked, alias, sealedWith) ==
    /\ stores < MaxStores
    /\ stores' = stores + 1
    /\ stored' = [stored EXCEPT ![k] =
          [made |-> stores', revoked |-> revoked, sealed |-> sealedWith]]
    /\ aliases' = IF alias = NoAlias THEN aliases ELSE [aliases EXCEPT ![alias] = k]

Store(k, revoked, alias) == StoreAs(k, revoked, alias, masterKey)

\* createKey: a key nobody has, stored under its alias and then under others.
StartCreate(t, k, alias, more) ==
    /\ task[t] = NoTask /\ k \notin known
    /\ known' = known \cup {k}
    /\ Go(t, [at |-> "store", key |-> k, alias |-> alias, more |-> more \ {alias}])
    /\ UNCHANGED <<encrypted, stored, aliases, stores, masterKey, passwords>>

\* importKey: the private key may be one that is stored already.
StartImport(t, k, alias) ==
    /\ task[t] = NoTask
    /\ known' = known \cup {k}
    /\ Go(t, [at |-> "store", key |-> k, alias |-> alias, more |-> {}])
    /\ UNCHANGED <<encrypted, stored, aliases, stores, masterKey, passwords>>

StoreNew(t) ==
    LET c == task[t] IN
    /\ c.at = "store"
    /\ Store(c.key, FALSE, c.alias)
    /\ \/ c.more = {} /\ End(t)
       \/ \E a \in c.more : Go(t, [at |-> "store", key |-> c.key, alias |-> a, more |-> c.more \ {a}])
    /\ UNCHANGED <<encrypted, known, masterKey, passwords>>

\* getKey, then getKeyByAlias: the operation goes on with the object it got.
Lookup(t, k, next) ==
    /\ task[t] = NoTask
    /\ Readable(k)
    /\ Go(t, [at |-> next, key |-> k, made |-> stored[k].made,
              revoked |-> stored[k].revoked])
    /\ UNCHANGED <<encrypted, stored, aliases, known, stores, masterKey, passwords>>

StartRotate(t, k) == Lookup(t, k, "aliases")
StartRevoke(t, k) == Lookup(t, k, "mark")

\* getAliasesToKeyIdsMap finds aliases in the in-memory storage only; of
\* several, the first one is taken.
FindAlias(t) ==
    LET c == task[t]
        Own == {a \in Aliases : aliases[a] = c.key /\ c.key \in StoredKeys}
    IN  /\ c.at = "aliases"
        /\ \E a \in (IF encrypted \/ Own = {} THEN {NoAlias} ELSE Own) :
             Go(t, [at |-> "replace", key |-> c.key, made |-> c.made,
                    revoked |-> c.revoked, alias |-> a])
        /\ UNCHANGED <<encrypted, stored, aliases, known, stores, masterKey, passwords>>

\* The new key is generated and takes over the alias.
Replace(t, k) ==
    LET c == task[t] IN
    /\ c.at = "replace" /\ k \notin known
    /\ known' = known \cup {k}
    /\ Store(k, FALSE, c.alias)
    /\ Go(t, [c EXCEPT !.at = "retire"])
    /\ UNCHANGED <<encrypted, masterKey, passwords>>

DropKey(k) ==
    /\ stored' = [stored EXCEPT ![k] = NotStored]
    /\ aliases' = [a \in Aliases |-> IF aliases[a] = k THEN NoKey ELSE aliases[a]]

\* (mutant of Archive) the metadata the key had is not kept
ArchiveAfresh(t) ==
    LET c == task[t] IN
    /\ c.at = "retire"
    /\ Store(c.key, FALSE, NoAlias)
    /\ End(t)
    /\ UNCHANGED <<encrypted, known, masterKey, passwords>>

\* archiveOldKey: the object held since the start is stored once more, under
\* an alias with a time stamp, which nothing else uses.
Archive(t) ==
    LET c == task[t] IN
    /\ c.at = "retire"
    /\ Store(c.key, c.revoked, NoAlias)
    /\ End(t)
    /\ UNCHANGED <<encrypted, known, masterKey, passwords>>

Retire(t) ==
    /\ task[t].at = "retire"
    /\ DropKey(task[t].key)
    /\ End(t)
    /\ UNCHANGED <<encrypted, known, stores, masterKey, passwords>>

\* revokeKey: the mark goes into the object at hand, hence into everybody's
\* who holds the same one, and the key is stored once more.
MarkRevoked(t) ==
    LET c == task[t]
        Shares(u) == /\ ~encrypted
                     /\ task[u].at \in {"aliases", "replace", "retire", "mark"}
                     /\ task[u].key = c.key /\ task[u].made = c.made
    IN  /\ c.at = "mark"
        /\ Store(c.key, TRUE, NoAlias)
        /\ task' = [u \in KeyTasks |->
                      IF u = t THEN NoTask
                      ELSE IF Shares(u) THEN [task[u] EXCEPT !.revoked = TRUE]
                      ELSE task[u]]
        /\ UNCHANGED <<encrypted, known, masterKey, passwords>>

DeleteKey(k) ==
    /\ k \in StoredKeys
    /\ DropKey(k)
    /\ UNCHANGED <<encrypted, known, stores, masterKey, passwords, task>>

\* Only this alias goes, others of the key stay and lead nowhere.
DeleteKeyByAlias(a) ==
    /\ aliases[a] # NoKey
    /\ aliases' = [aliases EXCEPT ![a] = NoKey]
    /\ stored' = [stored EXCEPT ![aliases[a]] = NotStored]
    /\ UNCHANGED <<encrypted, known, stores, masterKey, passwords, task>>

(***************************************************************************)
(* sign refuses a revoked key when it looks the key up; then it waits for  *)
(* the curve's module and signs with the object it holds.  Whoever signed  *)
(* may have the signature verified under the name it was made with.        *)
(***************************************************************************)
StartSign(t, name) ==
    /\ task[t] = NoTask
    /\ Readable(Named(name)) /\ ~stored[Named(name)].revoked
    /\ Go(t, [at |-> "sign", name |-> name, key |-> Named(name),
              made |-> stored[Named(name)].made])
    /\ UNCHANGED <<encrypted, stored, aliases, known, stores, masterKey, passwords>>

Sign(t) ==
    /\ task[t].at = "sign"
    /\ Go(t, [at |-> "signed", name |-> task[t].name, key |-> task[t].key])
    /\ UNCHANGED <<encrypted, stored, aliases, known, stores, masterKey, passwords>>

\* What verify answers of a signature of key k; a revoked key verifies like any.
VerifyAnswer(name, k) == Readable(Named(name)) /\ Named(name) = k

Verify(t) ==
    /\ task[t].at = "signed"
    /\ End(t)
    /\ UNCHANGED <<encrypted, stored, aliases, known, stores, masterKey, passwords>>

(***************************************************************************)
(* What the kind of a key decides, apart from any storage: the bytes of    *)
(* its public key, the keys that can be imported, the scheme it signs      *)
(* with, its address and its DID.                                          *)
(***************************************************************************)
KeyKinds == {"Ed25519", "secp256k1", "schnorr"}
PublicLength == [Ed25519 |-> 32, secp256k1 |-> 65, schnorr |-> 33]
Importable(kind, length, onCurve) == length = 32 /\ (kind = "Ed25519" \/ onCurve)
SignsWith(kind) == IF kind = "Ed25519" THEN "eddsa" ELSE "ecdsa"
VerifiesWith(kind) == IF kind = "Ed25519" THEN "eddsa" ELSE "ecdsa"

\* Outputs to a witness key hash take a compressed key only; an error is null.
AddressKind(kind) ==
    CASE kind = "schnorr" -> "p2tr"
      [] kind = "secp256k1" /\ PublicLength[kind] = 33 -> "p2wpkh"
      [] OTHER -> "null"
HasDid(kind) == kind = "Ed25519"

\* Whatever is generated can be imported again, and verifies what it signs.
ASSUME KindsAgree ==
    \A kind \in KeyKinds : Importable(kind, 32, TRUE) /\ SignsWith(kind) = VerifiesWith(kind)

(***************************************************************************)
(* changeMasterPassword of the encrypted storage: list what can be         *)
(* decrypted, clear everything, store the list under the new password, and *)
(* only then use the new password.                                         *)
(***************************************************************************)
StartPassword(t) ==
    /\ encrypted /\ task[t] = NoTask /\ passwords < MaxPasswords
    /\ passwords' = passwords + 1
    /\ LET listed == {k \in Keys : Readable(k)}
       IN  Go(t, [at |-> "clear", password |-> passwords', listed |-> listed,
                  left |-> {<<k, stored[k].revoked>> : k \in listed},
                  since |-> stores])
    /\ UNCHANGED <<encrypted, stored, aliases, known, stores, masterKey>>

ClearStorage(t) ==
    /\ task[t].at = "clear"
    /\ stored' = [k \in Keys |-> NotStored]
    /\ aliases' = [a \in Aliases |-> NoKey]
    /\ Go(t, [task[t] EXCEPT !.at = "reseal"])
    /\ UNCHANGED <<encrypted, known, stores, masterKey, passwords>>

Reseal(t) ==
    /\ task[t].at = "reseal"
    /\ \E e \in task[t].left :
         /\ StoreAs(e[1], e[2], NoAlias, task[t].password)
         /\ Go(t, [task[t] EXCEPT !.left = @ \ {e}])
    /\ UNCHANGED <<encrypted, known, masterKey, passwords>>

UsePassword(t) ==
    /\ task[t].at = "reseal" /\ task[t].left = {}
    /\ masterKey' = task[t].password
    /\ End(t)
    /\ UNCHANGED <<encrypted, stored, aliases, known, stores, passwords>>

KeyNext ==
    \/ \E t \in KeyTasks :
         \/ \E k \in Keys, a \in Aliases \cup {NoAlias} :
              \/ \E more \in SUBSET Aliases : StartCreate(t, k, a, more)
              \/ StartImport(t, k, a)
         \/ \E k \in Keys : StartRotate(t, k) \/ StartRevoke(t, k) \/ Replace(t, k)
         \/ StoreNew(t)
         \/ FindAlias(t) \/ Archive(t) \/ Retire(t)
         \/ MarkRevoked(t)
         \/ \E name \in Keys \cup Aliases : StartSign(t, name)
         \/ Sign(t) \/ Verify(t)
         \/ StartPassword(t) \/ ClearStorage(t) \/ Reseal(t) \/ UsePassword(t)
    \/ \E k \in Keys : DeleteKey(k)
    \/ \E a \in Aliases : DeleteKeyByAlias(a)

KeySpec == KeyInit /\ [][KeyNext]_keyVars

-----------------------------------------------------------------------------
KeyTypeOK ==
    /\ encrypted \in BOOLEAN
    /\ stored \in [Keys -> [made : 0..MaxStores, revoked : BOOLEAN, sealed : 0..MaxPasswords]]
    /\ \A k, j \in StoredKeys : stored[k].made = stored[j].made => k = j
    /\ aliases \in [Aliases -> Keys \cup {NoKey}]
    /\ StoredKeys \subseteq known /\ known \subseteq Keys
    /\ stores \in 0..MaxStores /\ masterKey \in 0..passwords /\ passwords \in 0..MaxPasswords
    /\ \A t \in KeyTasks : task[t].at \in
         {"none", "store", "aliases", "replace", "retire", "mark", "sign", "signed", "clear", "reseal"}

\* A key that is stored as revoked is stored without the mark again in three
\* ways only: it is imported or stored under one more alias of its creation;
\* a rotation that archives it holds an object older than the mark; or a
\* change of the password had listed it before.  In particular, a rotation
\* that reads the key after its revocation keeps the mark; and whoever signs
\* with it had looked it up before (key-manager.ts:194-213, 225-253, 330-347).
RevocationOutlives ==
    /\ [][\A k \in Keys :
         stored[k].revoked /\ stored'[k] # NotStored /\ ~stored'[k].revoked =>
           \E t \in KeyTasks :
             \/ task[t].at = "store" /\ task[t].key = k
             \/ task[t].at = "retire" /\ task[t].key = k /\ task[t].made < stored[k].made
             \/ task[t].at = "reseal"]_keyVars
    /\ [][\A t \in KeyTasks :
         task[t].at = "sign" /\ task'[t] # task[t] /\ stored[task[t].key].revoked =>
           task[t].made < stored[task[t].key].made]_keyVars

\* Expected to fail: "Revoked keys cannot be used for signing"
\* (.aigne/doc-smith/docs/api-reference-key-management.md:201).
RevokedNeverSigns ==
    [][\A t \in KeyTasks :
         task[t].at = "sign" /\ task'[t] # task[t] => ~stored[task[t].key].revoked]_keyVars

\* Expected to fail: what was signed under a name verifies under it.
SignedVerifies ==
    \A t \in KeyTasks : task[t].at = "signed" => VerifyAnswer(task[t].name, task[t].key)

\* Expected to fail: a key has an address or a DID; one of secp256k1 should have an
\* address (key-manager.test.ts:168-177).
KindsAreNamed == \A kind \in KeyKinds : HasDid(kind) \/ AddressKind(kind) # "null"

=============================================================================
