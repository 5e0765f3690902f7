---------------------------- MODULE LibraryProofs ----------------------------
(***************************************************************************)
(* Theorems about the stateful parts of the library, one section for each. *)
(***************************************************************************)
EXTENDS KeyManagement, TxConstruction, AuditLog, ClientSync, ClientCaches, DidResolution, DidDocuments, ErrorRecovery,
        ProviderQueries, ResourceCrawl, FiniteSetTheorems, SequenceTheorems, WellFoundedInduction, TLAPS

-----------------------------------------------------------------------------
(***************************************************************************)
(* The keys of the key manager.                                            *)
(***************************************************************************)
StoredEntries == [made : 0..MaxStores, revoked : BOOLEAN, sealed : 0..MaxPasswords]

\* After n stores, with the keys `have` ever had: what is stored has a number
\* of its own.
StorageFits(held, n, have) ==
    /\ held \in [Keys -> StoredEntries] /\ have \subseteq Keys /\ n \in 0..MaxStores
    /\ \A k \in Keys : held[k] # NotStored => k \in have /\ held[k].made \in 1..n
    /\ \A j, k \in Keys : held[j] # NotStored /\ held[k] # NotStored /\ held[j].made = held[k].made => j = k

\* An object that an operation holds is no newer than what is stored of its key,
\* and if it is the same one it says the same of its revocation.
ObjectFits(key, nr, revoked, held, n, have) ==
    /\ key \in have /\ nr \in 1..n /\ revoked \in BOOLEAN
    /\ held[key] # NotStored =>
         nr <= held[key].made /\ (nr = held[key].made => revoked = held[key].revoked)

Steps == {"none", "store", "aliases", "replace", "retire", "mark", "sign", "signed", "clear", "reseal"}

TaskFits(c, held, n, have, latest) ==
    /\ c.at \in Steps
    /\ c.at = "store" =>
         /\ c = [at |-> c.at, key |-> c.key, alias |-> c.alias, more |-> c.more]
         /\ c.key \in have /\ c.alias \in Aliases \cup {NoAlias} /\ c.more \subseteq Aliases
    /\ c.at \in {"aliases", "mark"} =>
         /\ c = [at |-> c.at, key |-> c.key, made |-> c.made, revoked |-> c.revoked]
         /\ ObjectFits(c.key, c.made, c.revoked, held, n, have)
    /\ c.at \in {"replace", "retire"} =>
         /\ c = [at |-> c.at, key |-> c.key, made |-> c.made, revoked |-> c.revoked, alias |-> c.alias]
         /\ c.alias \in Aliases \cup {NoAlias}
         /\ ObjectFits(c.key, c.made, c.revoked, held, n, have)
    /\ c.at = "sign" => ObjectFits(c.key, c.made, FALSE, held, n, have)
    /\ c.at \in {"clear", "reseal"} =>
         /\ c = [at |-> c.at, password |-> c.password, listed |-> c.listed, left |-> c.left,
                 since |-> c.since]
         /\ c.password \in 1..latest /\ c.left \subseteq have \X BOOLEAN

TasksFit ==
    /\ DOMAIN task = KeyTasks
    /\ \A t \in KeyTasks : TaskFits(task[t], stored, stores, known, passwords)

ManagerFits ==
    /\ encrypted \in BOOLEAN /\ aliases \in [Aliases -> Keys \cup {NoKey}]
    /\ passwords \in 0..MaxPasswords /\ masterKey \in 0..passwords

KeyInv == ManagerFits /\ StorageFits(stored, stores, known) /\ TasksFit

\* What a step does to the storage: what is stored of a key stays, goes, or is
\* newer than all before.
Renews(held, next, n) ==
    \A k \in Keys : next[k] = held[k] \/ next[k] = NotStored \/ next[k].made > n

LEMMA KeyFacts == MaxStores \in Nat /\ MaxPasswords \in Nat /\ NoAlias \notin Aliases
BY KeyAssumption

\* A store puts in an entry with the next number.
LEMMA StoreRenews ==
    ASSUME NEW held, NEW n, NEW have, StorageFits(held, n, have), NEW more, have \subseteq more,
           more \subseteq Keys, n < MaxStores, NEW k \in more, NEW next \in [Keys -> StoredEntries],
           next[k].made = n + 1, \A j \in Keys \ {k} : next[j] = held[j]
    PROVE  StorageFits(next, n + 1, more) /\ Renews(held, next, n)
<1>1. n \in 0..MaxStores /\ n + 1 \in 0..MaxStores /\ k \in Keys /\ n + 1 \in 1..(n + 1)
  BY KeyFacts DEF StorageFits
<1>2. next[k].made = n + 1 /\ \A j \in Keys \ {k} : next[j] = held[j]
  OBVIOUS
<1>3. \A j \in Keys : next[j] # NotStored => j \in more /\ next[j].made \in 1..(n + 1)
  BY <1>1, <1>2 DEF StorageFits
<1>4. \A j \in Keys \ {k} : next[j] # NotStored => next[j].made \in 1..n
  BY <1>2 DEF StorageFits
<1>5. \A i, j \in Keys : next[i] # NotStored /\ next[j] # NotStored /\ next[i].made = next[j].made => i = j
  <2> SUFFICES ASSUME NEW i \in Keys, NEW j \in Keys, next[i] # NotStored, next[j] # NotStored,
                      next[i].made = next[j].made
               PROVE  i = j
    OBVIOUS
  <2>1. CASE i # k /\ j # k
    BY <1>2, <2>1 DEF StorageFits
  <2>2. CASE i = k /\ j # k
    BY <1>1, <1>2, <1>4, <2>2
  <2>3. CASE i # k /\ j = k
    BY <1>1, <1>2, <1>4, <2>3
  <2>4. QED BY <2>1, <2>2, <2>3
<1>6. StorageFits(next, n + 1, more)
  BY <1>1, <1>3, <1>5 DEF StorageFits
<1>7. Renews(held, next, n)
  BY <1>1, <1>2 DEF Renews
<1>8. QED BY <1>6, <1>7

LEMMA DropRenews ==
    ASSUME NEW held, NEW n, NEW have, StorageFits(held, n, have), NEW next,
           next \in [Keys -> StoredEntries], \A k \in Keys : next[k] \in {held[k], NotStored}
    PROVE  StorageFits(next, n, have) /\ Renews(held, next, n)
BY DEF StorageFits, Renews

LEMMA NotStoredIsEntry == NotStored \in StoredEntries /\ NotStored.revoked = FALSE /\ NotStored.made = 0
BY KeyFacts DEF NotStored, StoredEntries

LEMMA ObjectKept ==
    ASSUME NEW key, NEW nr, NEW revoked, NEW held, NEW n \in Nat, NEW have \in SUBSET Keys,
           ObjectFits(key, nr, revoked, held, n, have), NEW next, Renews(held, next, n),
           NEW m \in Nat, n <= m, NEW more, have \subseteq more, next \in [Keys -> StoredEntries]
    PROVE  ObjectFits(key, nr, revoked, next, m, more)
<1>1. key \in Keys /\ next[key] \in StoredEntries
  BY DEF ObjectFits
<1>2. next[key].made \in Nat
  BY <1>1, KeyFacts DEF StoredEntries
<1>3. QED BY <1>1, <1>2 DEF ObjectFits, Renews

\* What an operation holds fits after any step.
LEMMA TaskKept ==
    ASSUME NEW c, NEW held, NEW n \in Nat, NEW have \in SUBSET Keys, NEW latest \in Nat,
           TaskFits(c, held, n, have, latest), NEW next, Renews(held, next, n),
           NEW m \in Nat, n <= m, NEW more, have \subseteq more, next \in [Keys -> StoredEntries],
           NEW later \in Nat, latest <= later
    PROVE  TaskFits(c, next, m, more, later)
<1>1. c.at \in Steps
  BY DEF TaskFits
<1>2. CASE c.at = "store"
  BY <1>1, <1>2 DEF TaskFits
<1>3. CASE c.at \in {"aliases", "mark"}
  BY <1>1, <1>3, ObjectKept DEF TaskFits
<1>4. CASE c.at \in {"replace", "retire"}
  BY <1>1, <1>4, ObjectKept DEF TaskFits
<1>5. CASE c.at = "sign"
  BY <1>1, <1>5, ObjectKept DEF TaskFits
<1>6. CASE c.at \in {"clear", "reseal"}
  <2>1. c.left \subseteq more \X BOOLEAN /\ c.password \in 1..later
    BY <1>6 DEF TaskFits
  <2>2. QED BY <1>1, <1>6, <2>1 DEF TaskFits
<1>7. CASE c.at \in {"none", "signed"}
  BY <1>1, <1>7 DEF TaskFits
<1>8. QED BY <1>1, <1>2, <1>3, <1>4, <1>5, <1>6, <1>7 DEF Steps

\* A step of task t, which goes on with `next`.
LEMMA TasksKept ==
    ASSUME KeyInv, StorageFits(stored', stores', known'), Renews(stored, stored', stores),
           stores <= stores', known \subseteq known', passwords' \in Nat, passwords <= passwords',
           NEW t \in KeyTasks, NEW next, task' = [task EXCEPT ![t] = next],
           TaskFits(next, stored', stores', known', passwords')
    PROVE  TasksFit'
<1>1. DOMAIN task' = KeyTasks /\ task'[t] = next /\ \A u \in KeyTasks \ {t} : task'[u] = task[u]
  BY DEF KeyInv, TasksFit
<1>2. /\ stores \in Nat /\ stores' \in Nat /\ known \in SUBSET Keys /\ passwords \in Nat
      /\ stored' \in [Keys -> StoredEntries]
  BY KeyFacts DEF KeyInv, StorageFits, ManagerFits
<1>3. \A u \in KeyTasks : TaskFits(task[u], stored', stores', known', passwords')
  BY <1>2, TaskKept DEF KeyInv, TasksFit
<1>4. \A u \in KeyTasks : TaskFits(task'[u], stored', stores', known', passwords')
  BY <1>1, <1>3
<1>5. QED BY <1>1, <1>4 DEF TasksFit

LEMMA SameRenews ==
    ASSUME NEW held, NEW n, NEW have, StorageFits(held, n, have), NEW more, have \subseteq more,
           more \subseteq Keys
    PROVE  StorageFits(held, n, more) /\ Renews(held, held, n)
BY DEF StorageFits, Renews

LEMMA IdleFits ==
    ASSUME NEW held, NEW n, NEW have, NEW latest
    PROVE  TaskFits(NoTask, held, n, have, latest)
<1>1. NoTask.at = "none"
  BY DEF NoTask
<1>2. QED BY <1>1 DEF TaskFits, Steps

\* The operations that begin.
LEMMA StartStep ==
    ASSUME KeyInv, NEW t \in KeyTasks, NEW next, Go(t, next), UNCHANGED <<encrypted, stored, aliases, stores>>,
           known \subseteq known', known' \subseteq Keys, passwords' \in 0..MaxPasswords,
           passwords <= passwords', masterKey' = masterKey,
           TaskFits(next, stored, stores, known', passwords')
    PROVE  KeyInv'
<1>1. StorageFits(stored', stores', known') /\ Renews(stored, stored', stores)
  BY SameRenews DEF KeyInv
<1>2. stores <= stores' /\ passwords' \in Nat
  BY KeyFacts DEF KeyInv, StorageFits
<1>3. TasksFit'
  BY <1>1, <1>2, TasksKept DEF Go
<1>4. ManagerFits'
  BY KeyFacts DEF KeyInv, ManagerFits
<1>5. QED BY <1>1, <1>3, <1>4 DEF KeyInv

LEMMA CreateStep ==
    ASSUME KeyInv, NEW t \in KeyTasks, NEW k \in Keys, NEW a \in Aliases \cup {NoAlias},
           StartImport(t, k, a) \/ \E more \in SUBSET Aliases : StartCreate(t, k, a, more)
    PROVE  KeyInv'
<1>1. PICK more \in SUBSET Aliases :
        /\ Go(t, [at |-> "store", key |-> k, alias |-> a, more |-> more])
        /\ known' = known \cup {k}
        /\ UNCHANGED <<encrypted, stored, aliases, stores, masterKey, passwords>>
  <2>1. CASE StartImport(t, k, a)
    BY <2>1 DEF StartImport
  <2>2. ASSUME NEW more \in SUBSET Aliases, StartCreate(t, k, a, more)
        PROVE  /\ more \ {a} \in SUBSET Aliases
               /\ Go(t, [at |-> "store", key |-> k, alias |-> a, more |-> more \ {a}])
               /\ known' = known \cup {k}
               /\ UNCHANGED <<encrypted, stored, aliases, stores, masterKey, passwords>>
    BY <2>2 DEF StartCreate
  <2>3. QED BY <2>1, <2>2
<1>2. TaskFits([at |-> "store", key |-> k, alias |-> a, more |-> more], stored, stores, known', passwords')
  BY <1>1 DEF TaskFits, Steps
<1>3. known \subseteq known' /\ known' \subseteq Keys /\ passwords' \in 0..MaxPasswords
      /\ passwords <= passwords'
  BY <1>1, KeyFacts DEF KeyInv, StorageFits, ManagerFits
<1>4. QED BY <1>1, <1>2, <1>3, StartStep

\* An object that has just been looked up is the one that is stored.
LEMMA LookedUp ==
    ASSUME KeyInv, NEW k, Readable(k)
    PROVE  /\ k \in Keys /\ stored[k] # NotStored
           /\ ObjectFits(k, stored[k].made, stored[k].revoked, stored, stores, known)
<1>1. k \in Keys /\ stored[k] # NotStored /\ stored[k] \in StoredEntries
  BY DEF Readable, StoredKeys, KeyInv, StorageFits
<1>2. k \in known /\ stored[k].made \in 1..stores /\ stored[k].revoked \in BOOLEAN
      /\ stores \in Nat
  BY <1>1, KeyFacts DEF KeyInv, StorageFits, StoredEntries
<1>3. QED BY <1>1, <1>2 DEF ObjectFits

LEMMA LookupStep ==
    ASSUME KeyInv, NEW t \in KeyTasks, NEW k, NEW next \in {"aliases", "mark"}, Lookup(t, k, next)
    PROVE  KeyInv'
<1> DEFINE nr == stored[k].made
           revoked == stored[k].revoked
           c == [at |-> next, key |-> k, made |-> nr, revoked |-> revoked]
<1>1. /\ Go(t, c)
      /\ UNCHANGED <<encrypted, stored, aliases, known, stores, masterKey, passwords>>
  BY DEF Lookup
<1>2. ObjectFits(k, nr, revoked, stored, stores, known)
  BY LookedUp DEF Lookup
<1> HIDE DEF nr, revoked
<1>3. /\ c.at = next /\ c.key = k /\ c.made = nr /\ c.revoked = revoked
      /\ c = [at |-> c.at, key |-> c.key, made |-> c.made, revoked |-> c.revoked]
  OBVIOUS
<1> HIDE DEF c
<1>4. TaskFits(c, stored, stores, known', passwords')
  BY <1>1, <1>2, <1>3 DEF TaskFits, Steps
<1>5. known \subseteq known' /\ known' \subseteq Keys /\ passwords' \in 0..MaxPasswords
      /\ passwords <= passwords'
  BY <1>1, KeyFacts DEF KeyInv, StorageFits, ManagerFits
<1>6. QED BY <1>1, <1>4, <1>5, StartStep

LEMMA FindStep ==
    ASSUME KeyInv, NEW t \in KeyTasks, FindAlias(t)
    PROVE  KeyInv'
<1> DEFINE key == task[t].key
           nr == task[t].made
           revoked == task[t].revoked
<1>1. PICK a \in Aliases \cup {NoAlias} :
        Go(t, [at |-> "replace", key |-> key, made |-> nr, revoked |-> revoked, alias |-> a])
  BY DEF FindAlias
<1>2. task[t].at = "aliases"
      /\ UNCHANGED <<encrypted, stored, aliases, known, stores, masterKey, passwords>>
  BY DEF FindAlias
<1>3. ObjectFits(key, nr, revoked, stored, stores, known)
  BY <1>2 DEF KeyInv, TasksFit, TaskFits
<1> HIDE DEF key, nr, revoked
<1> DEFINE c == [at |-> "replace", key |-> key, made |-> nr, revoked |-> revoked, alias |-> a]
<1>4. TaskFits(c, stored, stores, known', passwords')
  BY <1>2, <1>3 DEF TaskFits, Steps
<1>5. known \subseteq known' /\ known' \subseteq Keys /\ passwords' \in 0..MaxPasswords
      /\ passwords <= passwords'
  BY <1>2, KeyFacts DEF KeyInv, StorageFits, ManagerFits
<1>6. Go(t, c)
  BY <1>1
<1> HIDE DEF c
<1>7. QED BY <1>2, <1>4, <1>5, <1>6, StartStep

LEMMA SignStep ==
    ASSUME KeyInv, NEW t \in KeyTasks,
           Sign(t) \/ Verify(t) \/ \E name \in Keys \cup Aliases : StartSign(t, name)
    PROVE  KeyInv'
<1>1. UNCHANGED <<encrypted, stored, aliases, known, stores, masterKey, passwords>>
  BY DEF Sign, Verify, StartSign
<1>2. known \subseteq known' /\ known' \subseteq Keys /\ passwords' \in 0..MaxPasswords
      /\ passwords <= passwords'
  BY <1>1, KeyFacts DEF KeyInv, StorageFits, ManagerFits
<1>3. CASE Verify(t)
  <2>1. TaskFits(NoTask, stored, stores, known', passwords') /\ Go(t, NoTask)
    BY <1>3, IdleFits DEF Verify, End
  <2>2. QED BY <1>1, <1>2, <2>1, StartStep
<1>4. CASE Sign(t)
  <2> DEFINE c == [at |-> "signed", name |-> task[t].name, key |-> task[t].key]
  <2>1. Go(t, c) /\ c.at = "signed"
    BY <1>4 DEF Sign
  <2> HIDE DEF c
  <2>2. TaskFits(c, stored, stores, known', passwords')
    BY <2>1 DEF TaskFits, Steps
  <2>3. QED BY <1>1, <1>2, <2>1, <2>2, StartStep
<1>5. ASSUME NEW name \in Keys \cup Aliases, StartSign(t, name) PROVE KeyInv'
  <2> DEFINE key == Named(name)
             c == [at |-> "sign", name |-> name, key |-> key, made |-> stored[key].made]
  <2>1. Go(t, c) /\ Readable(key) /\ ~stored[key].revoked
    BY <1>5 DEF StartSign
  <2> HIDE DEF key
  <2>2. ObjectFits(key, stored[key].made, stored[key].revoked, stored, stores, known)
    BY <2>1, LookedUp
  <2>3. stored[key].revoked = FALSE
    BY <2>1, <2>2 DEF ObjectFits
  <2>4. c.at = "sign" /\ c.key = key /\ c.made = stored[key].made
    OBVIOUS
  <2> HIDE DEF c
  <2>5. TaskFits(c, stored, stores, known', passwords')
    BY <1>1, <2>2, <2>3, <2>4 DEF TaskFits, Steps
  <2>6. QED BY <1>1, <1>2, <2>1, <2>5, StartStep
<1>6. QED BY <1>3, <1>4, <1>5

\* The operations that store a key.
LEMMA StoreStep ==
    ASSUME KeyInv, NEW k \in known', NEW revoked \in BOOLEAN, NEW alias \in Aliases \cup {NoAlias},
           NEW seal \in 0..MaxPasswords, StoreAs(k, revoked, alias, seal),
           known \subseteq known', known' \subseteq Keys,
           UNCHANGED <<encrypted, masterKey, passwords>>
    PROVE  /\ ManagerFits' /\ StorageFits(stored', stores', known') /\ Renews(stored, stored', stores)
           /\ stores' = stores + 1 /\ stores \in Nat /\ passwords \in Nat
           /\ stored'[k] # NotStored /\ stored'[k].revoked = revoked /\ stored'[k].made = stores + 1
           /\ \A j \in Keys \ {k} : stored'[j] = stored[j]
<1>1. /\ stores < MaxStores /\ stores' = stores + 1 /\ stores \in Nat /\ passwords \in Nat
      /\ k \in Keys /\ stored \in [Keys -> StoredEntries]
      /\ stored' = [stored EXCEPT ![k] = [made |-> stores + 1, revoked |-> revoked, sealed |-> seal]]
      /\ aliases' = IF alias = NoAlias THEN aliases ELSE [aliases EXCEPT ![alias] = k]
  BY KeyFacts DEF StoreAs, KeyInv, StorageFits, ManagerFits
<1>2. ManagerFits'
  BY <1>1 DEF KeyInv, ManagerFits
<1>3. StorageFits(stored, stores, known)
  BY DEF KeyInv
<1>4. stored'[k] = [made |-> stores + 1, revoked |-> revoked, sealed |-> seal]
      /\ \A j \in Keys \ {k} : stored'[j] = stored[j]
  BY <1>1
<1>5. [made |-> stores + 1, revoked |-> revoked, sealed |-> seal] \in StoredEntries
  BY <1>1, KeyFacts DEF StoredEntries
<1>6. stored' \in [Keys -> StoredEntries]
  BY <1>1, <1>5
<1>7. stored'[k].made = stores + 1 /\ stored'[k].revoked = revoked
  BY <1>4
<1>8. StorageFits(stored', stores', known') /\ Renews(stored, stored', stores)
  BY <1>1, <1>3, <1>4, <1>6, <1>7, StoreRenews
<1>9. stored'[k] # NotStored
  BY <1>1, <1>7, NotStoredIsEntry
<1>10. QED BY <1>1, <1>2, <1>4, <1>7, <1>8, <1>9

LEMMA StoreNewStep ==
    ASSUME KeyInv, NEW t \in KeyTasks, StoreNew(t)
    PROVE  KeyInv'
<1> DEFINE key == task[t].key
           alias == task[t].alias
           more == task[t].more
<1>1. /\ task[t].at = "store"
      /\ key \in known /\ alias \in Aliases \cup {NoAlias} /\ more \subseteq Aliases
      /\ task[t] = [at |-> "store", key |-> key, alias |-> alias, more |-> more]
  BY DEF StoreNew, KeyInv, TasksFit, TaskFits
<1>2. /\ StoreAs(key, FALSE, alias, masterKey) /\ UNCHANGED <<encrypted, known, masterKey, passwords>>
      /\ End(t) \/ \E a \in more : Go(t, [at |-> "store", key |-> key, alias |-> a, more |-> more \ {a}])
  BY DEF StoreNew, Store
<1> HIDE DEF key, alias, more
<1>3. known' = known /\ known' \subseteq Keys /\ masterKey \in 0..MaxPasswords
  BY <1>2, KeyFacts DEF KeyInv, StorageFits, ManagerFits
<1>4. /\ ManagerFits' /\ StorageFits(stored', stores', known') /\ Renews(stored, stored', stores)
      /\ stores' = stores + 1 /\ stores \in Nat /\ passwords \in Nat
  BY <1>1, <1>2, <1>3, StoreStep
<1>5. \E next : Go(t, next) /\ TaskFits(next, stored', stores', known', passwords')
  <2>1. CASE End(t)
    BY <2>1, IdleFits DEF End
  <2>2. ASSUME NEW a \in more, Go(t, [at |-> "store", key |-> key, alias |-> a, more |-> more \ {a}])
        PROVE  \E next : Go(t, next) /\ TaskFits(next, stored', stores', known', passwords')
    <3> DEFINE next == [at |-> "store", key |-> key, alias |-> a, more |-> more \ {a}]
    <3>1. key \in known' /\ a \in Aliases \cup {NoAlias} /\ more \ {a} \subseteq Aliases
      BY <1>1, <1>2
    <3>2. TaskFits(next, stored', stores', known', passwords')
      BY <3>1 DEF TaskFits, Steps
    <3>3. QED BY <2>2, <3>2
  <2>3. QED BY <1>2, <2>1, <2>2
<1>6. PICK next : Go(t, next) /\ TaskFits(next, stored', stores', known', passwords')
  BY <1>5
<1>7. stores <= stores' /\ passwords' \in Nat /\ passwords <= passwords' /\ known \subseteq known'
  BY <1>2, <1>4
<1>8. TasksFit'
  BY <1>4, <1>6, <1>7, TasksKept DEF Go
<1>9. QED BY <1>4, <1>8 DEF KeyInv

LEMMA ReplaceStep ==
    ASSUME KeyInv, NEW t \in KeyTasks, NEW k \in Keys, Replace(t, k)
    PROVE  KeyInv' /\ ~stored[k].revoked /\ \A j \in Keys \ {k} : stored'[j] = stored[j]
<1> DEFINE key == task[t].key
           nr == task[t].made
           revoked == task[t].revoked
           alias == task[t].alias
           was == [at |-> "replace", key |-> key, made |-> nr, revoked |-> revoked, alias |-> alias]
           next == [at |-> "retire", key |-> key, made |-> nr, revoked |-> revoked, alias |-> alias]
<1>1. /\ task[t].at = "replace" /\ task[t] = was /\ alias \in Aliases \cup {NoAlias}
      /\ ObjectFits(key, nr, revoked, stored, stores, known)
  BY DEF Replace, KeyInv, TasksFit, TaskFits
<1>2. /\ StoreAs(k, FALSE, alias, masterKey) /\ UNCHANGED <<encrypted, masterKey, passwords>>
      /\ known' = known \cup {k} /\ k \notin known /\ Go(t, [task[t] EXCEPT !.at = "retire"])
  BY DEF Replace, Store
<1>3. known' \subseteq Keys /\ masterKey \in 0..MaxPasswords /\ known \in SUBSET Keys
  BY <1>2, KeyFacts DEF KeyInv, StorageFits, ManagerFits
<1> HIDE DEF key, nr, revoked, alias
<1>4. Go(t, next)
  BY <1>1, <1>2
<1>5. /\ ManagerFits' /\ StorageFits(stored', stores', known') /\ Renews(stored, stored', stores)
      /\ stores' = stores + 1 /\ stores \in Nat /\ passwords \in Nat
      /\ \A j \in Keys \ {k} : stored'[j] = stored[j]
  BY <1>1, <1>2, <1>3, StoreStep
<1>6. ObjectFits(key, nr, revoked, stored', stores', known')
  BY <1>1, <1>2, <1>3, <1>5, ObjectKept DEF StorageFits
<1>7. TaskFits(next, stored', stores', known', passwords')
  BY <1>1, <1>6 DEF TaskFits, Steps
<1> HIDE DEF next
<1>8. stores <= stores' /\ passwords' \in Nat /\ passwords <= passwords' /\ known \subseteq known'
  BY <1>2, <1>5
<1>9. TasksFit'
  BY <1>4, <1>5, <1>7, <1>8, TasksKept DEF Go
<1>10. ~stored[k].revoked
  BY <1>2, NotStoredIsEntry DEF KeyInv, StorageFits
<1>11. QED BY <1>5, <1>9, <1>10 DEF KeyInv

\* A rotation that archives the key with an object as new as what is stored keeps
\* the mark of a revocation.
LEMMA ArchiveStep ==
    ASSUME KeyInv, NEW t \in KeyTasks, Archive(t)
    PROVE  /\ KeyInv' /\ task[t].at = "retire" /\ task[t].key \in Keys
           /\ stored[task[t].key] # NotStored /\ stored[task[t].key].revoked /\ ~stored'[task[t].key].revoked
                => task[t].made < stored[task[t].key].made
           /\ \A j \in Keys \ {task[t].key} : stored'[j] = stored[j]
<1> DEFINE key == task[t].key
           nr == task[t].made
           revoked == task[t].revoked
<1>1. task[t].at = "retire" /\ ObjectFits(key, nr, revoked, stored, stores, known)
  BY DEF Archive, KeyInv, TasksFit, TaskFits
<1>2. /\ StoreAs(key, revoked, NoAlias, masterKey) /\ Go(t, NoTask)
      /\ UNCHANGED <<encrypted, known, masterKey, passwords>>
  BY DEF Archive, Store, End
<1>3. /\ known' \subseteq Keys /\ masterKey \in 0..MaxPasswords /\ stored \in [Keys -> StoredEntries]
      /\ stores \in Nat
  BY <1>2, KeyFacts DEF KeyInv, StorageFits, ManagerFits
<1> HIDE DEF key, nr, revoked
<1>4. key \in Keys /\ key \in known' /\ revoked \in BOOLEAN /\ nr \in Nat
  BY <1>1, <1>2, <1>3 DEF ObjectFits
<1>5. /\ ManagerFits' /\ StorageFits(stored', stores', known') /\ Renews(stored, stored', stores)
      /\ stores' = stores + 1 /\ stores \in Nat /\ passwords \in Nat /\ stored'[key].revoked = revoked
      /\ \A j \in Keys \ {key} : stored'[j] = stored[j]
  BY <1>2, <1>3, <1>4, StoreStep
<1>6. TasksFit'
  <2>1. stores <= stores' /\ passwords' \in Nat /\ passwords <= passwords' /\ known \subseteq known'
    BY <1>2, <1>5
  <2>2. TaskFits(NoTask, stored', stores', known', passwords')
    BY IdleFits
  <2>3. QED BY <1>2, <1>5, <2>1, <2>2, TasksKept DEF Go
<1>7. stored[key] # NotStored /\ stored[key].revoked /\ ~revoked => nr < stored[key].made
  <2>1. stored[key] \in StoredEntries
    BY <1>3, <1>4
  <2>2. stored[key].made \in Nat
    BY <2>1, KeyFacts DEF StoredEntries
  <2>3. SUFFICES ASSUME stored[key] # NotStored, stored[key].revoked, ~revoked
                PROVE  nr < stored[key].made
    OBVIOUS
  <2>4. nr <= stored[key].made /\ (nr = stored[key].made => revoked = stored[key].revoked)
    BY <1>1, <2>3 DEF ObjectFits
  <2>5. nr # stored[key].made
    BY <2>3, <2>4
  <2>6. QED BY <1>4, <2>2, <2>4, <2>5
<1>8. QED BY <1>1, <1>4, <1>5, <1>6, <1>7 DEF KeyInv, key, nr

\* The mark reaches everybody who holds the object, and the key that is stored now
\* is newer than theirs.
LEMMA MarkStep ==
    ASSUME KeyInv, NEW t \in KeyTasks, MarkRevoked(t)
    PROVE  /\ KeyInv' /\ \A j \in Keys : stored'[j].revoked \/ stored'[j] = stored[j]
           /\ \A u \in KeyTasks : task[u].at = "sign" => task'[u] = task[u]
<1> DEFINE key == task[t].key
           Shares(u) == /\ ~encrypted
                        /\ task[u].at \in {"aliases", "replace", "retire", "mark"}
                        /\ task[u].key = key /\ task[u].made = task[t].made
<1>1. task[t].at = "mark" /\ key \in known
  BY DEF MarkRevoked, KeyInv, TasksFit, TaskFits, ObjectFits
<1>2. /\ StoreAs(key, TRUE, NoAlias, masterKey) /\ UNCHANGED <<encrypted, known, masterKey, passwords>>
      /\ task' = [u \in KeyTasks |->
                     IF u = t THEN NoTask
                     ELSE IF Shares(u) THEN [task[u] EXCEPT !.revoked = TRUE]
                     ELSE task[u]]
  BY DEF MarkRevoked, Store
<1>3. /\ known' = known /\ known \in SUBSET Keys /\ masterKey \in 0..MaxPasswords
      /\ passwords' = passwords
  BY <1>2, KeyFacts DEF KeyInv, StorageFits, ManagerFits
<1> HIDE DEF key
<1>4. /\ ManagerFits' /\ StorageFits(stored', stores', known') /\ Renews(stored, stored', stores)
      /\ stores' = stores + 1 /\ stores \in Nat /\ passwords \in Nat
      /\ stored'[key].revoked /\ stored'[key].made = stores + 1
      /\ \A j \in Keys \ {key} : stored'[j] = stored[j]
  BY <1>1, <1>2, <1>3, StoreStep
<1>5. stored' \in [Keys -> StoredEntries] /\ stores' \in Nat
  BY <1>4 DEF StorageFits
<1>6. ASSUME NEW u \in KeyTasks
      PROVE  TaskFits(task'[u], stored', stores', known', passwords')
  <2>1. TaskFits(task[u], stored, stores, known, passwords)
    BY DEF KeyInv, TasksFit
  <2>2. TaskFits(task[u], stored', stores', known', passwords')
    BY <1>3, <1>4, <1>5, <2>1, TaskKept
  <2>3. CASE u = t
    BY <1>2, <2>3, IdleFits
  <2>4. CASE u # t /\ ~Shares(u)
    BY <1>2, <2>2, <2>4
  <2>5. CASE u # t /\ Shares(u)
    <3> DEFINE at == task[u].at
               nr == task[u].made
               revoked == task[u].revoked
               alias == task[u].alias
    <3>1. PICK r, mark : r = task[u] /\ mark = TRUE /\ task'[u] = [r EXCEPT !.revoked = mark]
      BY <1>2, <2>5
    <3>2. at \in {"aliases", "replace", "retire", "mark"} /\ task[u].key = key
          /\ ObjectFits(key, nr, revoked, stored, stores, known)
      BY <2>1, <2>5 DEF TaskFits
    <3>3. nr \in 1..stores
      BY <3>2 DEF ObjectFits
    <3>4. ObjectFits(key, nr, TRUE, stored', stores', known')
      <4>1. nr \in 1..stores' /\ nr <= stored'[key].made /\ nr # stored'[key].made
        BY <1>4, <3>3
      <4>2. QED BY <1>1, <1>3, <4>1 DEF ObjectFits
    <3>5. CASE at \in {"aliases", "mark"}
      <4>1. task[u] = [at |-> at, key |-> key, made |-> nr, revoked |-> revoked]
        BY <2>1, <3>2, <3>5 DEF TaskFits
      <4> DEFINE c == [at |-> at, key |-> key, made |-> nr, revoked |-> mark]
      <4> HIDE DEF at, nr, revoked, alias
      <4>2. task'[u] = c
        <5>1. r = [at |-> at, key |-> key, made |-> nr, revoked |-> revoked]
          BY <3>1, <4>1
        <5>2. [r EXCEPT !.revoked = mark] = c
          BY <5>1
        <5>3. QED BY <3>1, <5>2
      <4>3. /\ c.at = at /\ c.key = key /\ c.made = nr /\ c.revoked = mark
            /\ c = [at |-> c.at, key |-> c.key, made |-> c.made, revoked |-> c.revoked]
        OBVIOUS
      <4> HIDE DEF c
      <4>4. TaskFits(c, stored', stores', known', passwords')
        BY <3>1, <3>4, <3>5, <4>3 DEF TaskFits, Steps
      <4>5. QED BY <4>2, <4>4
    <3>6. CASE at \in {"replace", "retire"}
      <4>1. task[u] = [at |-> at, key |-> key, made |-> nr, revoked |-> revoked, alias |-> alias]
            /\ alias \in Aliases \cup {NoAlias}
        BY <2>1, <3>2, <3>6 DEF TaskFits
      <4> DEFINE c == [at |-> at, key |-> key, made |-> nr, revoked |-> mark, alias |-> alias]
      <4> HIDE DEF at, nr, revoked, alias
      <4>2. task'[u] = c
        <5>1. r = [at |-> at, key |-> key, made |-> nr, revoked |-> revoked, alias |-> alias]
          BY <3>1, <4>1
        <5>2. [r EXCEPT !.revoked = mark] = c
          BY <5>1
        <5>3. QED BY <3>1, <5>2
      <4>3. /\ c.at = at /\ c.key = key /\ c.made = nr /\ c.revoked = mark /\ c.alias = alias
            /\ c = [at |-> c.at, key |-> c.key, made |-> c.made, revoked |-> c.revoked, alias |-> c.alias]
        OBVIOUS
      <4> HIDE DEF c
      <4>4. TaskFits(c, stored', stores', known', passwords')
        BY <3>1, <3>4, <3>6, <4>1, <4>3 DEF TaskFits, Steps
      <4>5. QED BY <4>2, <4>4
    <3>7. QED BY <3>2, <3>5, <3>6
  <2>6. QED BY <2>3, <2>4, <2>5
<1>7. DOMAIN task' = KeyTasks
  BY <1>2
<1>8. TasksFit'
  BY <1>6, <1>7 DEF TasksFit
<1>9. \A u \in KeyTasks : task[u].at = "sign" => task'[u] = task[u]
  BY <1>1, <1>2
<1>10. QED BY <1>4, <1>8, <1>9 DEF KeyInv

\* The operations that take keys away.
LEMMA RetireStep ==
    ASSUME KeyInv, NEW t \in KeyTasks, Retire(t)
    PROVE  KeyInv' /\ \A k \in Keys : stored'[k] \in {stored[k], NotStored}
<1>1. /\ DropKey(task[t].key) /\ Go(t, NoTask)
      /\ UNCHANGED <<encrypted, known, stores, masterKey, passwords>>
  BY DEF Retire, End
<1>2. stored' \in [Keys -> StoredEntries] /\ (\A k \in Keys : stored'[k] \in {stored[k], NotStored})
      /\ aliases' \in [Aliases -> Keys \cup {NoKey}]
  BY <1>1, NotStoredIsEntry DEF DropKey, KeyInv, StorageFits, ManagerFits
<1>3. StorageFits(stored', stores', known') /\ Renews(stored, stored', stores)
  BY <1>1, <1>2, DropRenews DEF KeyInv
<1>4. stores <= stores' /\ passwords' \in Nat /\ passwords <= passwords' /\ known \subseteq known'
  BY <1>1, KeyFacts DEF KeyInv, StorageFits, ManagerFits
<1>5. TaskFits(NoTask, stored', stores', known', passwords')
  BY IdleFits
<1>6. TasksFit'
  BY <1>1, <1>3, <1>4, <1>5, TasksKept DEF Go
<1>7. QED BY <1>1, <1>2, <1>3, <1>6 DEF KeyInv, ManagerFits

LEMMA DeleteStep ==
    ASSUME KeyInv, (\E k \in Keys : DeleteKey(k)) \/ \E a \in Aliases : DeleteKeyByAlias(a)
    PROVE  KeyInv' /\ \A k \in Keys : stored'[k] \in {stored[k], NotStored}
<1>1. /\ stored' \in [Keys -> StoredEntries] /\ (\A k \in Keys : stored'[k] \in {stored[k], NotStored})
      /\ aliases' \in [Aliases -> Keys \cup {NoKey}]
      /\ UNCHANGED <<encrypted, known, stores, masterKey, passwords, task>>
  <2>1. ASSUME NEW k \in Keys, DeleteKey(k) PROVE <1>1!:
    BY <2>1, NotStoredIsEntry DEF DeleteKey, DropKey, KeyInv, StorageFits, ManagerFits
  <2>2. ASSUME NEW a \in Aliases, DeleteKeyByAlias(a) PROVE <1>1!:
    BY <2>2, NotStoredIsEntry DEF DeleteKeyByAlias, KeyInv, StorageFits, ManagerFits
  <2>3. QED BY <2>1, <2>2
<1>2. StorageFits(stored', stores', known') /\ Renews(stored, stored', stores)
  BY <1>1, DropRenews DEF KeyInv
<1>3. /\ stores \in Nat /\ passwords \in Nat /\ known \in SUBSET Keys
  BY KeyFacts DEF KeyInv, StorageFits, ManagerFits
<1>4. \A t \in KeyTasks : TaskFits(task[t], stored', stores, known, passwords)
  BY <1>1, <1>2, <1>3, TaskKept DEF KeyInv, TasksFit
<1>5. TasksFit'
  BY <1>1, <1>4 DEF KeyInv, TasksFit
<1>6. QED BY <1>1, <1>2, <1>5 DEF KeyInv, ManagerFits

\* The change of the password.
LEMMA StartPasswordStep ==
    ASSUME KeyInv, NEW t \in KeyTasks, StartPassword(t)
    PROVE  KeyInv'
<1> DEFINE listed == {k \in Keys : Readable(k)}
           left == {<<k, stored[k].revoked>> : k \in listed}
           c == [at |-> "clear", password |-> passwords + 1, listed |-> listed, left |-> left,
                 since |-> stores]
<1>1. /\ Go(t, c) /\ passwords < MaxPasswords /\ passwords' = passwords + 1
      /\ UNCHANGED <<encrypted, stored, aliases, known, stores, masterKey>>
  BY DEF StartPassword
<1>2. left \subseteq known \X BOOLEAN
  <2> SUFFICES ASSUME NEW k \in Keys, Readable(k) PROVE <<k, stored[k].revoked>> \in known \X BOOLEAN
    OBVIOUS
  <2>1. QED BY LookedUp DEF ObjectFits
<1> HIDE DEF listed, left
<1>3. passwords' \in 0..MaxPasswords /\ passwords <= passwords' /\ passwords + 1 \in 1..passwords'
      /\ known \subseteq known' /\ known' \subseteq Keys
  BY <1>1, KeyFacts DEF KeyInv, StorageFits, ManagerFits
<1>4. /\ c.at = "clear" /\ c.password = passwords + 1 /\ c.left = left
      /\ c = [at |-> c.at, password |-> c.password, listed |-> c.listed, left |-> c.left,
              since |-> c.since]
  OBVIOUS
<1> HIDE DEF c
<1>5. TaskFits(c, stored, stores, known', passwords')
  BY <1>1, <1>2, <1>3, <1>4 DEF TaskFits, Steps
<1>6. QED BY <1>1, <1>3, <1>5, StartStep

LEMMA ClearStep ==
    ASSUME KeyInv, NEW t \in KeyTasks, ClearStorage(t)
    PROVE  KeyInv' /\ \A k \in Keys : stored'[k] \in {stored[k], NotStored}
<1> DEFINE password == task[t].password
           listed == task[t].listed
           left == task[t].left
           since == task[t].since
           was == [at |-> "clear", password |-> password, listed |-> listed, left |-> left, since |-> since]
           c == [at |-> "reseal", password |-> password, listed |-> listed, left |-> left, since |-> since]
<1>1. task[t] = was /\ password \in 1..passwords /\ left \subseteq known \X BOOLEAN
  BY DEF ClearStorage, KeyInv, TasksFit, TaskFits
<1>2. /\ stored' = [k \in Keys |-> NotStored] /\ aliases' = [a \in Aliases |-> NoKey]
      /\ UNCHANGED <<encrypted, known, stores, masterKey, passwords>>
  BY DEF ClearStorage
<1>3. PICK r, reseal : r = task[t] /\ reseal = "reseal" /\ Go(t, [r EXCEPT !.at = reseal])
  BY DEF ClearStorage
<1> HIDE DEF password, listed, left, since
<1>4. Go(t, c)
  <2>1. r = was
    BY <1>1, <1>3
  <2>2. [r EXCEPT !.at = reseal] = c
    BY <1>3, <2>1
  <2>3. QED BY <1>3, <2>2
<1>5. stored' \in [Keys -> StoredEntries] /\ (\A k \in Keys : stored'[k] \in {stored[k], NotStored})
      /\ aliases' \in [Aliases -> Keys \cup {NoKey}]
  BY <1>2, NotStoredIsEntry
<1>6. StorageFits(stored', stores', known') /\ Renews(stored, stored', stores)
  BY <1>2, <1>5, DropRenews DEF KeyInv
<1>7. stores <= stores' /\ passwords' \in Nat /\ passwords <= passwords' /\ known \subseteq known'
  BY <1>2, KeyFacts DEF KeyInv, StorageFits, ManagerFits
<1>8. /\ c.at = "reseal" /\ c.password = password /\ c.left = left
      /\ c = [at |-> c.at, password |-> c.password, listed |-> c.listed, left |-> c.left,
              since |-> c.since]
  OBVIOUS
<1> HIDE DEF c
<1>9. TaskFits(c, stored', stores', known', passwords')
  BY <1>1, <1>2, <1>8 DEF TaskFits, Steps
<1>10. TasksFit'
  BY <1>4, <1>6, <1>7, <1>9, TasksKept DEF Go
<1>11. QED BY <1>2, <1>5, <1>6, <1>10 DEF KeyInv, ManagerFits

LEMMA ResealStep ==
    ASSUME KeyInv, NEW t \in KeyTasks, Reseal(t)
    PROVE  KeyInv'
<1> DEFINE password == task[t].password
           listed == task[t].listed
           left == task[t].left
           since == task[t].since
           was == [at |-> "reseal", password |-> password, listed |-> listed, left |-> left, since |-> since]
<1>1. task[t] = was /\ password \in 1..passwords /\ left \subseteq known \X BOOLEAN
  BY DEF Reseal, KeyInv, TasksFit, TaskFits
<1>2. PICK e \in left : /\ StoreAs(e[1], e[2], NoAlias, password)
                        /\ Go(t, [task[t] EXCEPT !.left = @ \ {e}])
  BY DEF Reseal
<1>3. UNCHANGED <<encrypted, known, masterKey, passwords>>
  BY DEF Reseal
<1>4. PICK r, rest : r = task[t] /\ rest = left \ {e} /\ Go(t, [r EXCEPT !.left = rest])
  BY <1>2
<1> HIDE DEF password, listed, left, since
<1> DEFINE c == [at |-> "reseal", password |-> password, listed |-> listed, left |-> rest, since |-> since]
<1>5. Go(t, c)
  <2>1. r = was
    BY <1>1, <1>4
  <2>2. [r EXCEPT !.left = rest] = c
    BY <2>1
  <2>3. QED BY <1>4, <2>2
<1>6. e[1] \in known' /\ e[2] \in BOOLEAN /\ known \subseteq known' /\ known' \subseteq Keys
      /\ password \in 0..MaxPasswords /\ passwords \in Nat /\ rest \subseteq known \X BOOLEAN
  BY <1>1, <1>3, <1>4, KeyFacts DEF KeyInv, StorageFits, ManagerFits
<1>7. /\ ManagerFits' /\ StorageFits(stored', stores', known') /\ Renews(stored, stored', stores)
      /\ stores' = stores + 1 /\ stores \in Nat
  BY <1>2, <1>3, <1>6, StoreStep
<1>8. stores <= stores' /\ passwords' \in Nat /\ passwords <= passwords'
  BY <1>3, <1>6, <1>7
<1>9. /\ c.at = "reseal" /\ c.password = password /\ c.left = rest
      /\ c = [at |-> c.at, password |-> c.password, listed |-> c.listed, left |-> c.left,
              since |-> c.since]
  OBVIOUS
<1> HIDE DEF c
<1>10. TaskFits(c, stored', stores', known', passwords')
  BY <1>1, <1>3, <1>6, <1>9 DEF TaskFits, Steps
<1>11. TasksFit'
  BY <1>5, <1>6, <1>7, <1>8, <1>10, TasksKept DEF Go
<1>12. QED BY <1>7, <1>11 DEF KeyInv

LEMMA UsePasswordStep ==
    ASSUME KeyInv, NEW t \in KeyTasks, UsePassword(t)
    PROVE  KeyInv'
<1>1. /\ Go(t, NoTask) /\ masterKey' = task[t].password /\ task[t].at = "reseal"
      /\ UNCHANGED <<encrypted, stored, aliases, known, stores, passwords>>
  BY DEF UsePassword, End
<1>2. task[t].password \in 1..passwords
  BY <1>1 DEF KeyInv, TasksFit, TaskFits
<1>3. stores <= stores' /\ passwords' \in Nat /\ passwords <= passwords' /\ known \subseteq known'
      /\ known' \subseteq Keys
  BY <1>1, KeyFacts DEF KeyInv, StorageFits, ManagerFits
<1>4. StorageFits(stored', stores', known') /\ Renews(stored, stored', stores)
  BY <1>1, <1>3, SameRenews DEF KeyInv
<1>5. TaskFits(NoTask, stored', stores', known', passwords')
  BY IdleFits
<1>6. TasksFit'
  BY <1>1, <1>3, <1>4, <1>5, TasksKept DEF Go
<1>7. masterKey' \in 0..passwords'
  BY <1>1, <1>2, KeyFacts DEF KeyInv, ManagerFits
<1>8. QED BY <1>1, <1>3, <1>6, <1>7 DEF KeyInv, ManagerFits

LEMMA KeyInvariant == KeySpec => []KeyInv
<1>1. KeyInit => KeyInv
  <2> SUFFICES ASSUME KeyInit PROVE KeyInv
    OBVIOUS
  <2>1. ManagerFits
    BY KeyFacts DEF KeyInit, ManagerFits
  <2>2. StorageFits(stored, stores, known)
    BY KeyFacts, NotStoredIsEntry DEF KeyInit, StorageFits
  <2>3. TasksFit
    BY IdleFits DEF KeyInit, TasksFit
  <2>4. QED BY <2>1, <2>2, <2>3 DEF KeyInv
<1>2. KeyInv /\ [KeyNext]_keyVars => KeyInv'
  <2> SUFFICES ASSUME KeyInv, [KeyNext]_keyVars PROVE KeyInv'
    OBVIOUS
  <2>1. CASE UNCHANGED keyVars
    BY <2>1 DEF KeyInv, ManagerFits, TasksFit, keyVars
  <2>2. ASSUME NEW t \in KeyTasks, NEW k \in Keys, StartRotate(t, k) \/ StartRevoke(t, k) PROVE KeyInv'
    BY <2>2, LookupStep DEF StartRotate, StartRevoke
  <2>3. QED BY <2>1, <2>2, CreateStep, StoreNewStep, ReplaceStep, FindStep, ArchiveStep, RetireStep, MarkStep,
               SignStep, StartPasswordStep, ClearStep, ResealStep, UsePasswordStep, DeleteStep DEF KeyNext
<1>3. QED BY <1>1, <1>2, PTL DEF KeySpec

\* What is stored of a key, and what the operations on it hold, has its type.
THEOREM KeyTypeCorrect == KeySpec => []KeyTypeOK
<1>1. KeyInv => KeyTypeOK
  <2> SUFFICES ASSUME KeyInv PROVE KeyTypeOK
    OBVIOUS
  <2>1. \A t \in KeyTasks : task[t].at \in Steps
    BY DEF KeyInv, TasksFit, TaskFits
  <2>2. \A k, j \in StoredKeys : stored[k].made = stored[j].made => k = j
    BY DEF KeyInv, StorageFits, StoredKeys
  <2>3. StoredKeys \subseteq known
    BY DEF KeyInv, StorageFits, StoredKeys
  <2>4. QED BY <2>1, <2>2, <2>3 DEF KeyInv, ManagerFits, StorageFits, StoredEntries, Steps, KeyTypeOK
<1>2. QED BY <1>1, KeyInvariant, PTL

\* Only who held or listed the key before its revocation stores it without the mark,
\* and only who looked it up before signs with it.
THEOREM RevocationIsKept == KeySpec => RevocationOutlives
<1> DEFINE Keeps == \A k \in Keys :
             stored[k].revoked /\ stored'[k] # NotStored /\ ~stored'[k].revoked =>
               \E t \in KeyTasks :
                 \/ task[t].at = "store" /\ task[t].key = k
                 \/ task[t].at = "retire" /\ task[t].key = k /\ task[t].made < stored[k].made
                 \/ task[t].at = "reseal"
           Signs == \A t \in KeyTasks :
             task[t].at = "sign" /\ task'[t] # task[t] /\ stored[task[t].key].revoked =>
               task[t].made < stored[task[t].key].made
<1>1. KeyInv /\ [KeyNext]_keyVars => [Keeps]_keyVars
  <2> SUFFICES ASSUME KeyInv, KeyNext PROVE Keeps
    OBVIOUS
  <2> SUFFICES ASSUME NEW k \in Keys, stored[k].revoked, stored'[k] # NotStored, ~stored'[k].revoked
               PROVE  \E t \in KeyTasks :
                        \/ task[t].at = "store" /\ task[t].key = k
                        \/ task[t].at = "retire" /\ task[t].key = k /\ task[t].made < stored[k].made
                        \/ task[t].at = "reseal"
    OBVIOUS
  <2>1. stored[k] # NotStored
    BY NotStoredIsEntry
  <2>2. stored'[k] \notin {stored[k], NotStored}
    OBVIOUS
  <2>3. ASSUME NEW t \in KeyTasks, StoreNew(t)
        PROVE  task[t].at = "store" /\ task[t].key = k
    <3>1. task[t].at = "store" /\ Store(task[t].key, FALSE, task[t].alias)
      BY <2>3 DEF StoreNew
    <3>2. \A j \in Keys \ {task[t].key} : stored'[j] = stored[j]
      BY <3>1 DEF Store, StoreAs, KeyInv, StorageFits
    <3>3. QED BY <2>2, <3>1, <3>2
  <2>4. ASSUME NEW t \in KeyTasks, Archive(t)
        PROVE  task[t].at = "retire" /\ task[t].key = k /\ task[t].made < stored[k].made
    BY <2>1, <2>2, <2>4, ArchiveStep
  <2>5. ASSUME NEW t \in KeyTasks, Reseal(t) PROVE task[t].at = "reseal"
    BY <2>5 DEF Reseal
  <2>6. ASSUME NEW t \in KeyTasks, NEW j \in Keys, Replace(t, j) PROVE FALSE
    BY <2>2, <2>6, ReplaceStep
  <2>7. ASSUME NEW t \in KeyTasks, MarkRevoked(t) PROVE FALSE
    BY <2>2, <2>7, MarkStep
  <2>8. ASSUME NEW t \in KeyTasks, Retire(t) \/ ClearStorage(t) PROVE FALSE
    BY <2>2, <2>8, RetireStep, ClearStep
  <2>9. CASE (\E j \in Keys : DeleteKey(j)) \/ \E a \in Aliases : DeleteKeyByAlias(a)
    BY <2>2, <2>9, DeleteStep
  <2>10. CASE stored' = stored
    BY <2>2, <2>10
  <2>11. QED BY <2>3, <2>4, <2>5, <2>6, <2>7, <2>8, <2>9, <2>10 DEF KeyNext, StartCreate, StartImport,
                StartRotate, StartRevoke, Lookup, FindAlias, StartSign, Sign, Verify, StartPassword, UsePassword
<1>2. KeyInv => Signs
  <2> SUFFICES ASSUME KeyInv, NEW t \in KeyTasks, task[t].at = "sign", stored[task[t].key].revoked
               PROVE  task[t].made < stored[task[t].key].made
    OBVIOUS
  <2> DEFINE key == task[t].key
             nr == task[t].made
  <2>1. ObjectFits(key, nr, FALSE, stored, stores, known)
    BY DEF KeyInv, TasksFit, TaskFits
  <2>2. stored[key] # NotStored /\ stored[key].revoked
    BY NotStoredIsEntry
  <2>3. key \in Keys /\ stored \in [Keys -> StoredEntries] /\ stores \in Nat
    BY <2>1, KeyFacts DEF ObjectFits, KeyInv, StorageFits
  <2> HIDE DEF key, nr
  <2>4. stored[key].made \in Nat /\ nr \in Nat
    BY <2>1, <2>3, KeyFacts DEF StoredEntries, ObjectFits
  <2>5. nr <= stored[key].made /\ (nr = stored[key].made => FALSE = stored[key].revoked)
    BY <2>1, <2>2 DEF ObjectFits
  <2>6. nr # stored[key].made
    BY <2>2, <2>5
  <2>7. nr < stored[key].made
    BY <2>4, <2>5, <2>6
  <2>8. QED BY <2>7 DEF key, nr
<1>3. KeyInv => [Signs]_keyVars
  BY <1>2
<1>4. KeySpec => [][Keeps]_keyVars
  BY <1>1, KeyInvariant, PTL DEF KeySpec
<1>5. KeySpec => [][Signs]_keyVars
  BY <1>3, KeyInvariant, PTL
<1>6. QED BY <1>4, <1>5 DEF RevocationOutlives

(***************************************************************************)
(* A set of natural numbers has a least one: what is said of every number  *)
(* is proved by looking at the least for which it fails.                   *)
(***************************************************************************)
Less == {ss \in Nat \X Nat : ss[1] < ss[2]}

LEMMA LeastExists ==
    ASSUME NEW T \in SUBSET Nat, T # {}
    PROVE  \E t \in T : \A y \in T : t <= y
    <1>1. IsWellFoundedOn(Less, Nat)
        BY NatLessThanWellFounded DEF OpToRel, Less
    <1>2. PICK t \in T : \A y \in T : ~(<<y, t>> \in Less)
        BY <1>1, WFMin
    <1>3. ASSUME NEW y \in T PROVE t <= y
        <2>1. y \in Nat /\ t \in Nat /\ <<y, t>> \in Nat \X Nat
            OBVIOUS
        <2>2. ~(y < t)
            BY <1>2, <1>3, <2>1 DEF Less
        <2> QED BY <2>1, <2>2
    <1> QED BY <1>3

-----------------------------------------------------------------------------
(***************************************************************************)
(* The amounts of the transactions.                                        *)
(***************************************************************************)

\* What holds of a set of coins as soon as it holds of its proper subsets holds of
\* all of them: the smallest set it would fail for has none.
LEMMA SubsetsHold ==
    ASSUME NEW G, \A s \in SUBSET Coins : (\A u \in SUBSET s : u # s => u \in G) => s \in G
    PROVE  SUBSET Coins \subseteq G
<1> SUFFICES ASSUME NEW bad \in SUBSET Coins, bad \notin G PROVE FALSE
  OBVIOUS
<1> DEFINE T == {Cardinality(s) : s \in (SUBSET Coins) \ G}
<1>1. \A s \in SUBSET Coins : IsFiniteSet(s) /\ Cardinality(s) \in Nat
  BY ConstructionAssumption, FS_Subset, FS_CardinalityType
<1>2. T \in SUBSET Nat /\ T # {}
  <2>1. T \in SUBSET Nat
    BY <1>1
  <2>2. Cardinality(bad) \in T
    OBVIOUS
  <2>3. QED BY <2>1, <2>2
<1>3. PICK n \in T : \A m \in T : n <= m
  BY <1>2, LeastExists
<1>4. PICK s \in (SUBSET Coins) \ G : n = Cardinality(s)
  OBVIOUS
<1>5. ASSUME NEW u \in SUBSET s, u # s PROVE u \in G
  <2>1. SUFFICES ASSUME u \notin G PROVE FALSE
    OBVIOUS
  <2>2. Cardinality(u) \in T
    BY <2>1
  <2>3. Cardinality(s) <= Cardinality(u)
    BY <1>3, <1>4, <2>2
  <2>4. Cardinality(u) <= Cardinality(s) /\ (Cardinality(s) = Cardinality(u) => s = u)
    BY <1>1, FS_Subset
  <2>5. QED BY <1>1, <1>5, <2>3, <2>4
<1>6. s \in SUBSET Coins /\ \A u \in SUBSET s : u # s => u \in G
  BY <1>4, <1>5
<1>7. s \in G
  BY <1>6
<1>8. QED BY <1>4, <1>7

First(s) == CHOOSE x \in s : TRUE
Sums(f, S) == f = [s \in SUBSET S |-> IF s = {} THEN 0 ELSE Worth[First(s)] + f[s \ {First(s)}]]

LEMMA TotalIsChosen ==
    ASSUME NEW S
    PROVE  Total(S) = (CHOOSE f : Sums(f, S))[S]
BY DEF Total, MapThenSumSet, MapThenFoldSet, Sums, First

LEMMA FirstIsIn == ASSUME NEW s, s # {} PROVE First(s) \in s
BY DEF First

LEMMA SumsAgree ==
    ASSUME NEW S \in SUBSET Coins, NEW f, NEW g, Sums(f, S), Sums(g, S)
    PROVE  f[S] = g[S]
<1> DEFINE G == {s \in SUBSET Coins : s \subseteq S => f[s] = g[s]}
<1>1. ASSUME NEW s \in SUBSET Coins, \A u \in SUBSET s : u # s => u \in G PROVE s \in G
  <2> SUFFICES ASSUME s \subseteq S PROVE f[s] = g[s]
    OBVIOUS
  <2>1. /\ f[s] = IF s = {} THEN 0 ELSE Worth[First(s)] + f[s \ {First(s)}]
        /\ g[s] = IF s = {} THEN 0 ELSE Worth[First(s)] + g[s \ {First(s)}]
    BY DEF Sums
  <2>2. CASE s = {}
    BY <2>1, <2>2
  <2>3. CASE s # {}
    <3>1. s \ {First(s)} # s /\ s \ {First(s)} \in SUBSET s
      BY <2>3, FirstIsIn
    <3>2. f[s \ {First(s)}] = g[s \ {First(s)}]
      BY <1>1, <3>1
    <3>3. QED BY <2>1, <2>3, <3>2
  <2>4. QED BY <2>2, <2>3
<1> HIDE DEF G
<1>2. SUBSET Coins \subseteq G
  BY <1>1, SubsetsHold
<1>3. QED BY <1>2 DEF G

\* MapThenSumSet sums by taking the first element and the rest.
LEMMA TotalUnfolds ==
    ASSUME NEW S \in SUBSET Coins
    PROVE  Total(S) = IF S = {} THEN 0 ELSE Worth[First(S)] + Total(S \ {First(S)})
<1> DEFINE Unfolds(s) == Total(s) = IF s = {} THEN 0 ELSE Worth[First(s)] + Total(s \ {First(s)})
           G == {s \in SUBSET Coins : Unfolds(s)}
<1>1. ASSUME NEW s \in SUBSET Coins, \A u \in SUBSET s : u # s => u \in G PROVE s \in G
  <2> DEFINE value == IF s = {} THEN 0 ELSE Worth[First(s)] + Total(s \ {First(s)})
             f == [u \in SUBSET s |-> IF u = s THEN value ELSE Total(u)]
  <2>1. ASSUME NEW u \in SUBSET s
        PROVE  f[u] = IF u = {} THEN 0 ELSE Worth[First(u)] + f[u \ {First(u)}]
    <3>1. CASE u = {}
      <4>1. CASE u = s
        BY <3>1, <4>1
      <4>2. CASE u # s
        BY <1>1, <3>1, <4>2
      <4>3. QED BY <4>1, <4>2
    <3>2. CASE u # {}
      <4> DEFINE rest == u \ {First(u)}
      <4>1. rest # u /\ rest # s /\ rest \in SUBSET s
        BY <3>2, FirstIsIn
      <4>2. f[rest] = Total(rest)
        BY <4>1
      <4>3. CASE u = s
        BY <3>2, <4>2, <4>3
      <4>4. CASE u # s
        <5>1. f[u] = Total(u) /\ Unfolds(u)
          BY <1>1, <4>4
        <5>2. QED BY <3>2, <4>2, <5>1
      <4>5. QED BY <4>3, <4>4
    <3>3. QED BY <3>1, <3>2
  <2>2. Sums(f, s)
    <3> HIDE DEF value
    <3>1. f = [u \in SUBSET s |-> f[u]]
      OBVIOUS
    <3>2. QED BY <2>1, <3>1 DEF Sums
  <2>3. f[s] = value
    OBVIOUS
  <2> HIDE DEF f
  <2>4. Sums(CHOOSE h : Sums(h, s), s)
    BY <2>2
  <2>5. Total(s) = value
    BY <2>2, <2>3, <2>4, SumsAgree, TotalIsChosen
  <2>6. QED BY <2>5
<1> HIDE DEF G
<1>2. SUBSET Coins \subseteq G
  BY <1>1, SubsetsHold
<1>3. QED BY <1>2 DEF G

LEMMA TotalIsNat ==
    ASSUME NEW S \in SUBSET Coins
    PROVE  Total(S) \in Nat
<1> DEFINE G == {s \in SUBSET Coins : Total(s) \in Nat}
<1>1. ASSUME NEW s \in SUBSET Coins, \A u \in SUBSET s : u # s => u \in G PROVE s \in G
  <2>1. CASE s = {}
    <3>1. Total(s) = 0
      BY <2>1, TotalUnfolds
    <3>2. QED BY <3>1
  <2>2. CASE s # {}
    <3>1. First(s) \in s /\ s \ {First(s)} # s /\ s \ {First(s)} \in SUBSET s
      BY <2>2, FirstIsIn
    <3>2. Total(s \ {First(s)}) \in Nat
      BY <1>1, <3>1
    <3>3. Worth[First(s)] \in Nat
      BY <3>1, ConstructionAssumption
    <3>4. Total(s) = Worth[First(s)] + Total(s \ {First(s)})
      BY <2>2, TotalUnfolds
    <3>5. Total(s) \in Nat
      BY <3>2, <3>3, <3>4
    <3>6. QED BY <3>5
  <2>3. QED BY <2>1, <2>2
<1> HIDE DEF G
<1>2. SUBSET Coins \subseteq G
  BY <1>1, SubsetsHold
<1>3. QED BY <1>2 DEF G

\* The total does not depend on which coin is taken first.
LEMMA TotalAdds ==
    ASSUME NEW S \in SUBSET Coins, NEW c \in Coins \ S
    PROVE  Total(S \cup {c}) = Worth[c] + Total(S)
<1> DEFINE G == {s \in SUBSET Coins : \A x \in Coins \ s : Total(s \cup {x}) = Worth[x] + Total(s)}
<1>1. ASSUME NEW s \in SUBSET Coins, \A u \in SUBSET s : u # s => u \in G PROVE s \in G
  <2> SUFFICES ASSUME NEW x \in Coins \ s PROVE Total(s \cup {x}) = Worth[x] + Total(s)
    OBVIOUS
  <2> DEFINE more == s \cup {x}
             y == First(more)
  <2>1. y \in more /\ more \in SUBSET Coins /\ more # {}
    BY FirstIsIn
  <2> HIDE DEF y
  <2>2. Total(more) = Worth[y] + Total(more \ {y})
    BY <2>1, TotalUnfolds DEF y
  <2>3. CASE y = x
    <3>1. more \ {y} = s
      BY <2>3
    <3>2. QED BY <2>2, <2>3, <3>1
  <2>4. CASE y # x
    <3> DEFINE rest == s \ {y}
    <3>1. y \in s /\ rest \in SUBSET s /\ rest # s /\ more \ {y} = rest \cup {x} /\ s = rest \cup {y}
          /\ x \in Coins \ rest /\ y \in Coins \ rest
      BY <2>1, <2>4
    <3>2. Total(rest \cup {x}) = Worth[x] + Total(rest) /\ Total(rest \cup {y}) = Worth[y] + Total(rest)
      BY <1>1, <3>1
    <3>3. Worth[x] \in Nat /\ Worth[y] \in Nat /\ Total(rest) \in Nat
      BY <3>1, ConstructionAssumption, TotalIsNat
    <3>4. Total(more) = Worth[y] + (Worth[x] + Total(rest)) /\ Total(s) = Worth[y] + Total(rest)
      BY <2>2, <3>1, <3>2
    <3>5. QED BY <3>3, <3>4
  <2>5. QED BY <2>3, <2>4
<1> HIDE DEF G
<1>2. SUBSET Coins \subseteq G
  BY <1>1, SubsetsHold
<1>3. QED BY <1>2 DEF G

LEMMA FeeMonotone ==
    ASSUME NEW v \in Nat, NEW w \in Nat, v <= w, NEW r \in Nat, NEW q \in Nat, r <= q
    PROVE  Fee(v, r) <= Fee(w, q) /\ Fee(v, r) \in Nat /\ v * r \in Nat
<1>1. v * r <= w * r
  OBVIOUS
<1>2. w * r <= w * q
  OBVIOUS
<1>3. CeilDiv(11 * v, 10) <= CeilDiv(11 * w, 10)
  BY DEF CeilDiv
<1>4. v * r \in Nat /\ CeilDiv(11 * v, 10) \in Nat /\ w * r \in Nat /\ w * q \in Nat /\ CeilDiv(11 * w, 10) \in Nat
  BY DEF CeilDiv
<1>5. QED BY <1>1, <1>2, <1>3, <1>4 DEF Fee, Larger

LEMMA FeeIsNat ==
    ASSUME NEW v \in Nat, NEW r \in Nat
    PROVE  Fee(v, r) \in Nat /\ v * r \in Nat
<1>1. v <= v /\ r <= r
  OBVIOUS
<1>2. QED BY <1>1, FeeMonotone

LEMMA FeeGrows ==
    ASSUME NEW v \in Nat, NEW w \in Nat, v <= w, NEW r \in Nat
    PROVE  Fee(v, r) <= Fee(w, r)
<1>1. r <= r
  OBVIOUS
<1>2. QED BY <1>1, FeeMonotone

LEMMA SelectedCover ==
    ASSUME NEW C, NEW target, NEW S \in SelectUtxos(C, target)
    PROVE  S \in SUBSET C /\ S # {} /\ Total(S) >= target
BY DEF SelectUtxos, TakeUntil

\* What is selected for a payment covers it with the fee for its inputs.
LEMMA PaidCover ==
    ASSUME NEW C, NEW way, NEW amount, NEW r, NEW S \in SelectResourceUtxos(C, way, amount, r)
    PROVE  /\ S \in SUBSET C
           /\ \/ \E c \in C : S = {c} /\ Worth[c] >= amount + Fee(PaymentSize(1), r)
              \/ Total(S) >= amount + Fee(PaymentSize(Cardinality(S)), r)
BY DEF SelectResourceUtxos, TakeUntil

-----------------------------------------------------------------------------
CommitFits(c, p) ==
    /\ p.rate \in Nat \ {0} /\ p.items \in 1..MaxItems
    /\ c.of \in {"single", "batch", "multi"} /\ c.coins \subseteq Coins
    /\ c.outputs \in Nat /\ c.each \in Nat /\ c.change \in Nat /\ c.fee \in Int
    /\ c.of # "batch" => p.bytes \in Bodies
    /\ c.of = "single" => p.items = 1 /\ c.each = SingleAmount(p.rate)
    /\ c.of = "multi" => c.each = MultiAmount(p.items, p.bytes, p.rate)
    /\ c.of # "multi" =>
         /\ Total(c.coins) = c.outputs * c.each + c.change + c.fee
         /\ c.coins \cap Scriptless = {} => c.fee >= Fee(CommitSize(1, c.outputs, TRUE), p.rate)

\* A reveal gives back what its fee leaves, or else pays with all there is.
RevealFits(v, c, p) ==
    /\ c.of \in {"single", "multi"} /\ v.rate \in Nat /\ v.rate >= p.rate
    /\ v.size \in Nat \ {0} /\ v.change \in Nat /\ v.fee \in Int
    /\ v.change > 0 => v.fee = Fee(v.size, v.rate)
    /\ v.change = 0 => v.fee = c.each - Postage * p.items

PaymentFits(y) ==
    /\ Total(y.coins) = y.amount + y.change + y.fee
    /\ y.fee >= Fee(PaymentSize(Cardinality(y.coins)), y.rate)
    /\ y.change = 0 \/ y.change >= Dust
    /\ y.allowed \/ y.coins \cap Resources = {}

InscriptionFits ==
    \/ stage = "idle" /\ commit = Nothing /\ reveal = Nothing /\ bumps = 0
    \/ /\ stage \in {"prepared", "signed", "sent", "built", "done", "failed"}
       /\ CommitFits(commit, plan) /\ bumps \in 0..MaxBumps
       /\ stage \in {"sent", "built"} => commit.of # "batch"
       /\ stage = "built" \/ reveal # Nothing => RevealFits(reveal, commit, plan)

ConstructionInv == InscriptionFits /\ (payment # Nothing => PaymentFits(payment))

LEMMA ConstructionFacts ==
    /\ Worth \in [Coins -> Nat \ {0}] /\ NoCoin \notin Coins /\ FeeRates \subseteq Nat \ {0}
    /\ Bodies \subseteq Nat /\ Payments \subseteq Nat /\ MaxItems \in Nat \ {0}
    /\ \A b \in Bodies, n \in 1..MaxItems :
         /\ Vsize(b, n, TRUE) \in Nat \ {0} /\ Vsize(b, n, FALSE) \in Nat \ {0}
         /\ Vsize(b, n, TRUE) >= Vsize(b, n, FALSE) + 31
    /\ Dust = 546 /\ Postage = 551 /\ RelaySlack = 2000
BY ConstructionAssumption DEF Dust, Postage, RelaySlack

LEMMA SizesAreNat ==
    /\ \A n, k \in Nat : CommitSize(n, k, TRUE) \in Nat
    /\ \A n \in Nat : PaymentSize(n) \in Nat
    /\ \A b \in Nat, n \in Nat \ {0} : RevealEstimate(b, n) \in Nat
BY DEF CommitSize, PaymentSize, RevealEstimate, CeilDiv

LEMMA SubsetIsFinite ==
    ASSUME NEW S \in SUBSET Coins
    PROVE  IsFiniteSet(S) /\ Cardinality(S) \in Nat /\ (S # {} => Cardinality(S) >= 1)
<1>1. IsFiniteSet(S) /\ Cardinality(S) \in Nat
  BY ConstructionAssumption, FS_Subset, FS_CardinalityType
<1>2. QED BY <1>1, FS_EmptySet

LEMMA AmountsAreNat ==
    ASSUME NEW r \in Nat, NEW b \in Nat, NEW n \in Nat \ {0}
    PROVE  /\ SingleAmount(r) \in Nat /\ MultiAmount(n, b, r) \in Nat
           /\ MultiAmount(n, b, r) - Postage * n >= Fee(RevealEstimate(b, n), r)
<1>1. Fee(200, r) \in Nat /\ 64 * r \in Nat
  BY FeeIsNat
<1>2. RevealEstimate(b, n) \in Nat
  BY SizesAreNat
<1>3. Fee(RevealEstimate(b, n), r) \in Nat
  BY <1>2, FeeIsNat
<1>4. 64 + 8 * (n - 1) \in Nat
  OBVIOUS
<1>5. r * (64 + 8 * (n - 1)) \in Nat
  BY <1>4
<1>6. Postage * n \in Nat
  BY ConstructionFacts
<1> DEFINE e == Fee(RevealEstimate(b, n), r)
           f == r * (64 + 8 * (n - 1))
           g == Postage * n
<1>7. MultiAmount(n, b, r) = g + e + f
  BY DEF MultiAmount
<1> HIDE DEF e, f, g
<1>8. e \in Nat /\ f \in Nat /\ g \in Nat
  BY <1>3, <1>5, <1>6 DEF e, f, g
<1>9. MultiAmount(n, b, r) \in Nat /\ MultiAmount(n, b, r) - Postage * n >= Fee(RevealEstimate(b, n), r)
  <2>1. MultiAmount(n, b, r) \in Nat /\ MultiAmount(n, b, r) - g >= e
    BY <1>7, <1>8
  <2>2. QED BY <2>1 DEF e, g
<1>10. SingleAmount(r) \in Nat
  BY <1>1 DEF SingleAmount, Larger
<1>11. QED BY <1>9, <1>10

\* What the commit of several inscriptions leaves for the reveal's fee.
Remaining(r, b, n) == MultiAmount(n, b, r) - Postage * n

LEMMA MultiCovers ==
    ASSUME NEW r \in Nat, NEW b \in Nat, NEW n \in Nat \ {0}
    PROVE  Remaining(r, b, n) >= Fee(RevealEstimate(b, n), r)
BY AmountsAreNat DEF Remaining

LEMMA WorthOfIsNat ==
    ASSUME NEW selected \in Coins \cup {NoCoin}
    PROVE  WorthOf(selected) \in Nat
BY ConstructionFacts DEF WorthOf

\* What a commit of one inscription, or of a batch, is made from.
CommitFrom(kind, selected, S, outputs, each, r, needed, p) ==
    /\ kind \in {"single", "batch"} /\ selected \in Coins \cup {NoCoin}
    /\ outputs \in Nat \ {0} /\ each \in Nat /\ r \in Nat \ {0}
    /\ S \in Selections(selected, needed)
    /\ p.rate = r /\ p.items \in 1..MaxItems
    /\ kind = "single" => p.items = 1 /\ p.bytes \in Bodies /\ each = SingleAmount(r)

AskedFor(outputs, each, r) == outputs * each + Fee(CommitSize(1, outputs, TRUE), r)

\* The commit of one inscription, or of a batch with an output for each.
LEMMA CommittedFits ==
    ASSUME NEW kind, NEW selected, NEW S, NEW outputs, NEW each, NEW r, NEW needed, NEW p,
           CommitFrom(kind, selected, S, outputs, each, r, needed, p),
           needed = AskedFor(outputs, each, r)
    PROVE  CommitFits(Committed(kind, selected, S, outputs, each, r), p)
<1>0. /\ kind \in {"single", "batch"} /\ selected \in Coins \cup {NoCoin}
      /\ outputs \in Nat \ {0} /\ each \in Nat /\ r \in Nat \ {0}
      /\ S \in Selections(selected, needed)
      /\ p.rate = r /\ p.items \in 1..MaxItems
      /\ kind = "single" => p.items = 1 /\ p.bytes \in Bodies /\ each = SingleAmount(r)
  BY DEF CommitFrom
<1> USE <1>0
<1> DEFINE base == Fee(CommitSize(1, outputs, TRUE), r)
           amount == outputs * each
           coins == Spent(selected, S)
           total == WorthOf(selected) + Total(S)
           fee == Fee(CommitSize(Cardinality(Inputs(coins)), outputs, TRUE), r)
           left == total - amount - fee
           change == IF left >= Dust THEN left ELSE 0
<1>1. amount \in Nat /\ base \in Nat /\ needed = amount + base /\ r \in Nat
  <2>1. amount \in Nat
    OBVIOUS
  <2>2. CommitSize(1, outputs, TRUE) \in Nat
    BY SizesAreNat
  <2>3. QED BY <1>0, <2>1, <2>2, FeeIsNat DEF AskedFor
<1> HIDE DEF amount, base
<1>2. /\ S \in SUBSET Coins /\ (selected # NoCoin => selected \notin S)
      /\ (selected = NoCoin => S # {}) /\ WorthOf(selected) + Total(S) >= needed
  <2>1. \A R \in SUBSET Coins : Total(R) \in Nat
    BY TotalIsNat
  <2>2. CASE selected = NoCoin
    <3>1. S \in SUBSET Coins /\ S # {} /\ Total(S) >= needed
      BY <2>2, SelectedCover DEF Selections
    <3>2. QED BY <2>1, <2>2, <3>1 DEF WorthOf
  <2>3. CASE selected # NoCoin /\ Worth[selected] >= needed
    <3>1. S = {} /\ Total(S) = 0
      BY <2>3, TotalUnfolds DEF Selections
    <3>2. Worth[selected] \in Nat
      BY <2>3, ConstructionFacts
    <3>3. QED BY <2>3, <3>1, <3>2 DEF WorthOf
  <2>4. CASE selected # NoCoin /\ ~(Worth[selected] >= needed)
    <3>1. S \in SelectUtxos(Coins \ {selected}, needed - Worth[selected])
      BY <2>4 DEF Selections
    <3>2. S \in SUBSET (Coins \ {selected}) /\ Total(S) >= needed - Worth[selected]
      BY <3>1, SelectedCover
    <3>3. Worth[selected] \in Nat /\ Total(S) \in Nat
      BY <2>1, <2>4, <3>2, ConstructionFacts
    <3>4. needed \in Nat
      BY <1>1
    <3>5. QED BY <2>4, <3>2, <3>3, <3>4 DEF WorthOf
  <2>5. QED BY <2>2, <2>3, <2>4
<1>3. coins \in SUBSET Coins /\ coins # {} /\ Total(coins) = total /\ total \in Nat
  <2>1. Total(S) \in Nat
    BY <1>2, TotalIsNat
  <2>2. CASE selected = NoCoin
    BY <1>2, <2>1, <2>2 DEF Spent, WorthOf
  <2>3. CASE selected # NoCoin
    <3>1. coins = S \cup {selected} /\ selected \in Coins \ S
      BY <1>2, <2>3 DEF Spent
    <3>2. Total(coins) = Worth[selected] + Total(S) /\ Worth[selected] \in Nat
      BY <1>2, <3>1, TotalAdds, ConstructionFacts
    <3>3. QED BY <1>2, <2>1, <2>3, <3>1, <3>2 DEF WorthOf
  <2>4. QED BY <2>2, <2>3
<1>4. Inputs(coins) \in SUBSET Coins /\ Cardinality(Inputs(coins)) \in Nat
  BY <1>3, SubsetIsFinite DEF Inputs
<1>5. CommitSize(Cardinality(Inputs(coins)), outputs, TRUE) \in Nat /\ fee \in Nat
  <2>1. CommitSize(Cardinality(Inputs(coins)), outputs, TRUE) \in Nat
    BY <1>4, SizesAreNat
  <2>2. QED BY <1>1, <2>1, FeeIsNat
<1>6. coins \cap Scriptless = {} => fee >= base
  <2> SUFFICES ASSUME coins \cap Scriptless = {} PROVE fee >= base
    OBVIOUS
  <2>1. Inputs(coins) = coins
    BY DEF Inputs
  <2>2. Cardinality(Inputs(coins)) >= 1
    BY <1>3, <2>1, SubsetIsFinite
  <2>3. CommitSize(1, outputs, TRUE) <= CommitSize(Cardinality(Inputs(coins)), outputs, TRUE)
    BY <1>4, <2>2 DEF CommitSize
  <2>4. CommitSize(1, outputs, TRUE) \in Nat
    BY SizesAreNat
  <2>5. QED BY <1>1, <1>5, <2>3, <2>4, FeeGrows DEF base
<1> DEFINE c == Committed(kind, selected, S, outputs, each, r)
<1>7. /\ c.of = kind /\ c.coins = coins /\ c.outputs = outputs /\ c.each = each
      /\ c.change = change /\ c.fee = total - amount - change
  BY DEF Committed, amount
<1>8. total >= amount + base
  BY <1>1, <1>2
<1> HIDE DEF coins, total, fee, c
<1>9. change \in Nat /\ total - amount - change \in Int
  BY <1>1, <1>3, <1>5, ConstructionFacts
<1>10. total = amount + change + (total - amount - change)
  BY <1>1, <1>3, <1>9
<1>11. coins \cap Scriptless = {} => total - amount - change >= base
  BY <1>1, <1>3, <1>5, <1>6, <1>8, ConstructionFacts
<1> HIDE DEF left, change
<1>12. c.of # "multi" /\ c.coins \subseteq Coins
  BY <1>3, <1>7
<1>13. Total(c.coins) = c.outputs * c.each + c.change + c.fee
  BY <1>3, <1>7, <1>10 DEF amount
<1>14. c.coins \cap Scriptless = {} => c.fee >= Fee(CommitSize(1, c.outputs, TRUE), p.rate)
  BY <1>7, <1>11 DEF base
<1>15. CommitFits(c, p)
  BY <1>7, <1>9, <1>12, <1>13, <1>14 DEF CommitFits
<1>16. QED BY <1>15 DEF c

\* The commit of several inscriptions with one output.
LEMMA MultiStep ==
    ASSUME stage = "idle", NEW selected \in Coins \cup {NoCoin},
           NEW many \in 1..MaxItems, NEW bytes \in Bodies, NEW r \in FeeRates,
           PrepareMulti(selected, many, bytes, r)
    PROVE  /\ stage' = "prepared" /\ reveal' = Nothing /\ bumps' = 0 /\ payment' = payment
           /\ CommitFits(commit', plan')
<1> DEFINE amount == MultiAmount(many, bytes, r)
           Rest == Coins \ {selected}
           Wanted(k) == amount + RelaySlack - WorthOf(selected)
           Taken == IF Wanted(0) <= 0 THEN {{}}
                    ELSE IF Total(Rest) < Wanted(0) THEN {Rest}
                    ELSE TakeUntil(Rest, LAMBDA c, d : FALSE, Wanted)
<1>1. PICK S \in Taken :
        LET total == WorthOf(selected) + Total(S)
            coins == Spent(selected, S)
            left == total - amount - Fee(CommitSize(Cardinality(coins), 1, TRUE), r)
            change == IF left >= Dust THEN left ELSE 0
        IN  /\ total >= amount
            /\ Prepared([rate |-> r, items |-> many, bytes |-> bytes],
                        [of |-> "multi", coins |-> coins, outputs |-> 1, each |-> amount,
                         change |-> change, fee |-> total - amount - change])
  BY DEF PrepareMulti
<1>2. S \in SUBSET Coins
  BY <1>1 DEF TakeUntil
<1> HIDE DEF amount, Rest, Wanted, Taken
<1> DEFINE total == WorthOf(selected) + Total(S)
           coins == Spent(selected, S)
           fee == Fee(CommitSize(Cardinality(coins), 1, TRUE), r)
           change == IF total - amount - fee >= Dust THEN total - amount - fee ELSE 0
           p == [rate |-> r, items |-> many, bytes |-> bytes]
           c == [of |-> "multi", coins |-> coins, outputs |-> 1, each |-> amount,
                 change |-> change, fee |-> total - amount - change]
<1>3. Prepared(p, c)
  BY <1>1
<1>4. coins \in SUBSET Coins
  BY <1>2 DEF Spent
<1>5. total \in Int
  <2>1. WorthOf(selected) \in Nat
    BY WorthOfIsNat
  <2>2. Total(S) \in Nat
    BY <1>2, TotalIsNat
  <2>3. QED BY <2>1, <2>2
<1>6. r \in Nat \ {0} /\ bytes \in Nat /\ many \in Nat \ {0}
  BY ConstructionFacts
<1>7. amount \in Nat
  BY <1>6, AmountsAreNat DEF amount
<1>8. fee \in Nat
  <2>1. CommitSize(Cardinality(coins), 1, TRUE) \in Nat
    BY <1>4, SubsetIsFinite, SizesAreNat
  <2>2. QED BY <1>6, <2>1, FeeIsNat
<1>9. c.of = "multi" /\ c.coins = coins /\ c.outputs = 1 /\ c.each = amount /\ c.change = change
      /\ c.fee = total - amount - change /\ p.rate = r /\ p.items = many /\ p.bytes = bytes
  OBVIOUS
<1> HIDE DEF total, coins, fee, c, p
<1>10. change \in Nat /\ total - amount - change \in Int
  BY <1>5, <1>7, <1>8, ConstructionFacts
<1> HIDE DEF change
<1>11. CommitFits(c, p)
  BY <1>4, <1>6, <1>7, <1>9, <1>10 DEF CommitFits, amount
<1>12. QED BY <1>3, <1>11 DEF Prepared

LEMMA PrepareStep ==
    ASSUME stage = "idle", NEW selected \in Coins \cup {NoCoin}, NEW r \in FeeRates,
           \/ \E bytes \in Bodies : selected # NoCoin /\ PrepareSingle(selected, bytes, r)
           \/ \E many \in 1..MaxItems, postage \in {Postage, 1000} :
                PrepareBatch(selected, many, postage, r)
    PROVE  /\ stage' = "prepared" /\ reveal' = Nothing /\ bumps' = 0 /\ payment' = payment
           /\ CommitFits(commit', plan')
<1>1. r \in Nat \ {0} /\ 1 \in 1..MaxItems /\ 1 \in Nat \ {0}
  BY ConstructionFacts
<1>2. ASSUME NEW bytes \in Bodies, selected # NoCoin, PrepareSingle(selected, bytes, r)
      PROVE  /\ stage' = "prepared" /\ reveal' = Nothing /\ bumps' = 0 /\ payment' = payment
             /\ CommitFits(commit', plan')
  <2> DEFINE each == SingleAmount(r)
             p == [rate |-> r, items |-> 1, bytes |-> bytes]
  <2>1. bytes \in Nat
    BY ConstructionFacts
  <2>2. each \in Nat
    BY <1>1, <2>1, AmountsAreNat
  <2> DEFINE needed == each + Fee(CommitSize(1, 1, TRUE), r)
  <2>3. PICK S \in Selections(selected, needed) :
          Prepared(p, Committed("single", selected, S, 1, each, r))
    BY <1>2 DEF PrepareSingle
  <2>4. p.rate = r /\ p.items = 1 /\ p.bytes = bytes
    OBVIOUS
  <2> DEFINE c == Committed("single", selected, S, 1, each, r)
  <2>5. each = SingleAmount(r)
    OBVIOUS
  <2> HIDE DEF each
  <2>6. needed = AskedFor(1, each, r)
    <3>1. 1 * each = each
      BY <2>2
    <3>2. QED BY <3>1 DEF AskedFor
  <2> HIDE DEF needed, p
  <2>7. CommitFrom("single", selected, S, 1, each, r, needed, p)
    BY <1>1, <1>2, <2>2, <2>3, <2>4, <2>5 DEF CommitFrom
  <2>8. CommitFits(c, p)
    BY <2>6, <2>7, CommittedFits
  <2>9. QED BY <2>3, <2>8 DEF Prepared
<1>3. ASSUME NEW many \in 1..MaxItems, NEW postage \in {Postage, 1000},
             PrepareBatch(selected, many, postage, r)
      PROVE  /\ stage' = "prepared" /\ reveal' = Nothing /\ bumps' = 0 /\ payment' = payment
             /\ CommitFits(commit', plan')
  <2> DEFINE each == Larger(postage, Dust)
             p == [rate |-> r, items |-> many, bytes |-> 0]
  <2>1. each \in Nat /\ many \in Nat \ {0}
    BY ConstructionFacts DEF Larger
  <2> DEFINE needed == many * each + Fee(CommitSize(1, many, TRUE), r)
  <2>2. PICK S \in Selections(selected, needed) :
          Prepared(p, Committed("batch", selected, S, many, each, r))
    BY <1>3 DEF PrepareBatch
  <2>3. p.rate = r /\ p.items = many
    OBVIOUS
  <2> DEFINE c == Committed("batch", selected, S, many, each, r)
  <2> HIDE DEF each
  <2>4. needed = AskedFor(many, each, r)
    BY DEF AskedFor
  <2> HIDE DEF needed, p
  <2>5. CommitFits(c, p)
    <3>1. CommitFrom("batch", selected, S, many, each, r, needed, p)
      BY <1>1, <2>1, <2>2, <2>3 DEF CommitFrom
    <3>2. QED BY <2>4, <3>1, CommittedFits
  <2>6. QED BY <2>2, <2>5 DEF Prepared
<1>4. QED BY <1>2, <1>3

\* The reveal that is built for a rate.
LEMMA BuiltFits ==
    ASSUME CommitFits(commit, plan), commit.of # "batch", NEW r \in Nat, r >= plan.rate
    PROVE  RevealFits(Built(r), commit, plan)
<1> DEFINE b == plan.bytes
           n == plan.items
           small == Fee(Vsize(b, n, FALSE), r)
           large == Fee(Vsize(b, n, TRUE), r)
           base == Postage * n
           first == Allocated - small
           second == Allocated - large
<1>1. b \in Bodies /\ n \in 1..MaxItems /\ plan.rate \in Nat \ {0} /\ commit.each \in Nat
      /\ commit.of \in {"single", "multi"}
  BY DEF CommitFits
<1>2. r \in Nat \ {0}
  BY <1>1
<1>3. /\ Vsize(b, n, TRUE) \in Nat \ {0} /\ Vsize(b, n, FALSE) \in Nat \ {0}
      /\ Vsize(b, n, TRUE) >= Vsize(b, n, FALSE) + 31
  BY <1>1, ConstructionFacts
<1>4. base \in Nat /\ Allocated = commit.each - base
  BY <1>1, ConstructionFacts DEF Allocated
<1> HIDE DEF base
<1>5. Allocated \in Int
  BY <1>1, <1>4
<1>6. small \in Nat /\ large \in Nat
  BY <1>2, <1>3, FeeIsNat
<1>7. large >= small + 30
  <2> DEFINE v == Vsize(b, n, FALSE)
             w == Vsize(b, n, TRUE)
  <2>1. v \in Nat /\ w \in Nat /\ w >= v + 31
    BY <1>3
  <2> HIDE DEF v, w, b, n
  <2>2. v * r + 31 * r <= w * r
    <3>1. (v + 31) * r <= w * r
      BY <1>2, <2>1
    <3>2. (v + 31) * r = v * r + 31 * r
      BY <1>2, <2>1
    <3>3. QED BY <3>1, <3>2
  <2>3. 31 * r >= 31
    BY <1>2
  <2>4. v * r \in Nat /\ w * r \in Nat /\ v * r + 31 <= w * r
    BY <1>2, <2>1, <2>2, <2>3
  <2>5. CeilDiv(11 * v, 10) + 31 <= CeilDiv(11 * w, 10) /\ CeilDiv(11 * v, 10) \in Nat
        /\ CeilDiv(11 * w, 10) \in Nat
    BY <2>1 DEF CeilDiv
  <2>6. Fee(w, r) >= Fee(v, r) + 30
    BY <2>4, <2>5 DEF Fee, Larger
  <2>7. QED BY <2>6 DEF v, w
<1>8. RevealChange(r) \in Nat /\ (RevealChange(r) > 0 => RevealChange(r) = second)
  <2>1. RevealChange(r) = IF first < Postage \/ second < Postage THEN 0
                          ELSE IF second - first \in -1..1 THEN first ELSE second
    BY DEF RevealChange
  <2> HIDE DEF small, large
  <2>2. first \in Int /\ second \in Int /\ second - first <= -30
    BY <1>5, <1>6, <1>7
  <2> HIDE DEF first, second
  <2>3. QED BY <2>1, <2>2, ConstructionFacts
<1> DEFINE change == RevealChange(r)
           v == Built(r)
<1>9. /\ v.rate = r /\ v.size = Vsize(b, n, change # 0) /\ v.change = change
      /\ v.fee = Allocated - change
  BY DEF Built
<1>10. large = Fee(Vsize(b, n, TRUE), r)
  OBVIOUS
<1> HIDE DEF change, v, small, large
<1>11. v.size = IF change # 0 THEN Vsize(b, n, TRUE) ELSE Vsize(b, n, FALSE)
  <2>1. CASE change # 0
    <3>1. (change # 0) = TRUE
      BY <2>1
    <3>2. QED BY <1>9, <2>1, <3>1
  <2>2. CASE change = 0
    <3>1. (change # 0) = FALSE
      BY <2>2
    <3>2. QED BY <1>9, <2>2, <3>1
  <2>3. QED BY <2>1, <2>2
<1>12. change \in Nat /\ (change > 0 => change = Allocated - large)
  BY <1>8 DEF change
<1>13. v.size \in Nat \ {0} /\ v.fee \in Int
  <2>1. v.size \in Nat \ {0}
    BY <1>3, <1>11
  <2>2. v.fee = Allocated - change /\ change \in Nat
    BY <1>9, <1>12
  <2>3. QED BY <1>5, <2>1, <2>2
<1>14. v.change > 0 => v.fee = Fee(v.size, v.rate)
  <2> SUFFICES ASSUME v.change > 0 PROVE v.fee = Fee(v.size, v.rate)
    OBVIOUS
  <2>1. change # 0 /\ change = Allocated - large
    BY <1>9, <1>12
  <2>2. v.fee = large
    BY <1>5, <1>6, <1>9, <2>1
  <2>3. v.size = Vsize(b, n, TRUE)
    BY <1>11, <2>1
  <2>4. QED BY <1>9, <1>10, <2>2, <2>3
<1>15. v.change = 0 => v.fee = commit.each - Postage * plan.items
  BY <1>1, <1>4, <1>5, <1>9 DEF base
<1>16. RevealFits(v, commit, plan)
  BY <1>1, <1>9, <1>12, <1>13, <1>14, <1>15 DEF RevealFits
<1>17. QED BY <1>16 DEF v

-----------------------------------------------------------------------------
\* Signing, sending and giving up change nothing but how far it has come.
LEMMA StageStep ==
    ASSUME InscriptionFits, SignCommit \/ CommitSent \/ Abandon \/ RevealSent
    PROVE  InscriptionFits'
<1>1. stage # "idle" /\ stage' \in {"prepared", "signed", "sent", "built", "done", "failed"}
      /\ stage' # "built"
  BY DEF SignCommit, CommitSent, Abandon, RevealSent
<1>2. plan' = plan /\ commit' = commit /\ reveal' = reveal /\ bumps' = bumps
  BY DEF SignCommit, CommitSent, Abandon, RevealSent
<1>3. stage' = "sent" => commit.of # "batch"
  BY DEF SignCommit, CommitSent, Abandon, RevealSent
<1>4. CommitFits(commit, plan) /\ bumps \in 0..MaxBumps
      /\ (stage = "built" \/ reveal # Nothing => RevealFits(reveal, commit, plan))
  BY <1>1 DEF InscriptionFits
<1>5. QED BY <1>1, <1>2, <1>3, <1>4 DEF InscriptionFits, MaxBumps

\* A rate is never below the one the user chose.
LEMMA RatesAreKept ==
    ASSUME CommitFits(commit, plan)
    PROVE  /\ FirstRate \in Nat /\ FirstRate >= plan.rate
           /\ RevealFits(reveal, commit, plan) => BumpedRate \in Nat /\ BumpedRate >= plan.rate
           /\ MaxBumps \in 1..2
<1> DEFINE p == plan.rate
           q == reveal.rate
<1>1. p \in Nat
  BY DEF CommitFits
<1>2. RevealFits(reveal, commit, plan) => q \in Nat /\ q >= p
  BY DEF RevealFits
<1>3. FirstRate \in Nat /\ FirstRate >= p
  <2>1. FirstRate = Larger(p + 5, CeilDiv(115 * p, 100)) \/ FirstRate = p
    BY DEF FirstRate
  <2> HIDE DEF p
  <2>2. QED BY <1>1, <2>1 DEF Larger, CeilDiv
<1>4. RevealFits(reveal, commit, plan) => BumpedRate \in Nat /\ BumpedRate >= p
  <2>1. BumpedRate = Larger(q + 5, CeilDiv(12 * q, 10)) \/ BumpedRate = p + 1
    BY DEF BumpedRate
  <2> HIDE DEF p, q
  <2>2. QED BY <1>1, <1>2, <2>1 DEF Larger, CeilDiv
<1>5. MaxBumps \in 1..2
  BY DEF MaxBumps
<1>6. QED BY <1>3, <1>4, <1>5

LEMMA BuildStep ==
    ASSUME InscriptionFits, BuildReveal
    PROVE  InscriptionFits'
<1>1. stage = "sent" /\ plan' = plan /\ commit' = commit /\ bumps' = bumps
  BY DEF BuildReveal
<1>2. CommitFits(commit, plan) /\ bumps \in 0..MaxBumps /\ commit.of # "batch"
      /\ (reveal # Nothing => RevealFits(reveal, commit, plan))
  BY <1>1 DEF InscriptionFits
<1>3. RevealFits(Built(FirstRate), commit, plan)
  BY <1>2, RatesAreKept, BuiltFits
<1>4. CASE reveal' = Built(FirstRate) /\ stage' = "built"
  BY <1>1, <1>2, <1>3, <1>4 DEF InscriptionFits, MaxBumps
<1>5. CASE stage' = "failed" /\ reveal' = reveal
  BY <1>1, <1>2, <1>5 DEF InscriptionFits, MaxBumps
<1>6. QED BY <1>4, <1>5 DEF BuildReveal

LEMMA RefusedStep ==
    ASSUME InscriptionFits, RevealRefused
    PROVE  InscriptionFits'
<1>1. stage = "built" /\ plan' = plan /\ commit' = commit
  BY DEF RevealRefused
<1>2. CommitFits(commit, plan) /\ bumps \in 0..MaxBumps /\ commit.of # "batch"
      /\ RevealFits(reveal, commit, plan)
  BY <1>1 DEF InscriptionFits
<1>3. RevealFits(Built(BumpedRate), commit, plan)
  BY <1>2, RatesAreKept, BuiltFits
<1>4. CASE bumps = MaxBumps
  <2>1. stage' = "failed" /\ reveal' = reveal /\ bumps' = bumps
    BY <1>4 DEF RevealRefused
  <2>2. QED BY <1>1, <1>2, <2>1 DEF InscriptionFits, MaxBumps
<1>5. CASE bumps # MaxBumps
  <2>1. stage' = stage /\ reveal' = Built(BumpedRate) /\ bumps' = bumps + 1
    BY <1>5 DEF RevealRefused
  <2>2. bumps' \in 0..MaxBumps
    BY <1>2, <1>5, <2>1, RatesAreKept
  <2>3. QED BY <1>1, <1>2, <1>3, <2>1, <2>2 DEF InscriptionFits, MaxBumps
<1>6. QED BY <1>4, <1>5

\* What a payment selects covers it, and what is left over is change or fee.
LEMMA PayStep ==
    ASSUME NEW amount \in Payments, NEW r \in FeeRates, NEW way, NEW avoided, NEW allowed \in BOOLEAN,
           Pay(amount, r, way, avoided, allowed)
    PROVE  /\ PaymentFits(payment')
           /\ UNCHANGED <<stage, plan, commit, reveal, bumps>>
<1> DEFINE Eligible == Coins \ (avoided \cup IF allowed THEN {} ELSE Resources)
<1>1. PICK S \in SelectResourceUtxos(Eligible, way, amount, r) :
        LET fee == Fee(PaymentSize(Cardinality(S)), r)
            left == Total(S) - amount - fee
            change == IF left < Dust THEN 0 ELSE left
        IN  /\ payment' = [of |-> "payment", coins |-> S, amount |-> amount, rate |-> r,
                           change |-> change, fee |-> fee + left - change, allowed |-> allowed]
            /\ UNCHANGED <<stage, plan, commit, reveal, bumps>>
  BY DEF Pay
<1>2. amount \in Nat /\ r \in Nat
  BY ConstructionFacts
<1>3. S \in SUBSET Eligible
  BY PaidCover
<1>4. S \in SUBSET Coins /\ (allowed \/ S \cap Resources = {})
  BY <1>3
<1> HIDE DEF Eligible
<1> DEFINE fee == Fee(PaymentSize(Cardinality(S)), r)
           total == Total(S)
<1>5. total \in Nat /\ fee \in Nat
  <2>1. PaymentSize(Cardinality(S)) \in Nat
    BY <1>4, SubsetIsFinite, SizesAreNat
  <2>2. QED BY <1>2, <1>4, <2>1, TotalIsNat, FeeIsNat
<1>6. total >= amount + fee
  <2>1. CASE total >= amount + Fee(PaymentSize(Cardinality(S)), r)
    BY <2>1
  <2>2. ASSUME NEW c \in Eligible, S = {c}, Worth[c] >= amount + Fee(PaymentSize(1), r)
        PROVE  total >= amount + fee
    <3>1. c \in Coins /\ Worth[c] \in Nat
      BY <1>4, <2>2, ConstructionFacts
    <3>2. Cardinality(S) = 1
      BY <2>2, FS_Singleton
    <3>3. Total({}) = 0
      BY TotalUnfolds
    <3>4. Total({} \cup {c}) = Worth[c] + Total({})
      BY <3>1, TotalAdds
    <3>5. {} \cup {c} = S
      BY <2>2
    <3>6. total = Worth[c]
      BY <3>1, <3>3, <3>4, <3>5
    <3>7. QED BY <2>2, <3>2, <3>6
  <2>3. QED BY <2>1, <2>2, PaidCover
<1> DEFINE change == IF total - amount - fee < Dust THEN 0 ELSE total - amount - fee
           paid == fee + (total - amount - fee) - change
<1>7. /\ payment' = [of |-> "payment", coins |-> S, amount |-> amount, rate |-> r,
                     change |-> change, fee |-> paid, allowed |-> allowed]
      /\ UNCHANGED <<stage, plan, commit, reveal, bumps>>
  BY <1>1
<1> HIDE DEF total, fee
<1>8. paid >= fee /\ total = amount + change + paid /\ (change = 0 \/ change >= Dust)
  BY <1>2, <1>5, <1>6, ConstructionFacts
<1> HIDE DEF change, paid
<1>9. PICK y : y = [of |-> "payment", coins |-> S, amount |-> amount, rate |-> r,
                    change |-> change, fee |-> paid, allowed |-> allowed]
  OBVIOUS
<1>10. y.coins = S /\ y.amount = amount /\ y.rate = r /\ y.change = change /\ y.fee = paid
       /\ y.allowed = allowed
  BY <1>9
<1>11. PaymentFits(y)
  BY <1>4, <1>8, <1>10 DEF PaymentFits, total, fee
<1>12. QED BY <1>7, <1>9, <1>11

-----------------------------------------------------------------------------
LEMMA ConstructionStep ==
    ASSUME ConstructionInv, [ConstructionNext]_constructionVars
    PROVE  ConstructionInv'
<1>1. ASSUME stage = "idle", stage' = "prepared", reveal' = Nothing, bumps' = 0, payment' = payment,
             CommitFits(commit', plan')
      PROVE  ConstructionInv'
  <2>1. (bumps \in 0..MaxBumps)'
    BY <1>1 DEF MaxBumps
  <2>2. InscriptionFits'
    BY <1>1, <2>1 DEF InscriptionFits
  <2>3. QED BY <1>1, <2>2 DEF ConstructionInv
<1>2. ASSUME NEW selected \in Coins \cup {NoCoin}, NEW r \in FeeRates,
             \/ \E bytes \in Bodies : selected # NoCoin /\ PrepareSingle(selected, bytes, r)
             \/ \E many \in 1..MaxItems, postage \in {Postage, 1000} :
                  PrepareBatch(selected, many, postage, r)
      PROVE  ConstructionInv'
  <2>1. stage = "idle"
    BY <1>2 DEF PrepareSingle, PrepareBatch
  <2>2. QED BY <1>1, <1>2, <2>1, PrepareStep
<1>3. ASSUME NEW selected \in Coins \cup {NoCoin}, NEW r \in FeeRates, NEW many \in 1..MaxItems,
             NEW bytes \in Bodies, PrepareMulti(selected, many, bytes, r)
      PROVE  ConstructionInv'
  <2>1. stage = "idle"
    BY <1>3 DEF PrepareMulti
  <2>2. QED BY <1>1, <1>3, <2>1, MultiStep
<1>4. CASE SignCommit \/ CommitSent \/ Abandon \/ RevealSent
  <2>1. payment' = payment
    BY <1>4 DEF SignCommit, CommitSent, Abandon, RevealSent
  <2>2. QED BY <1>4, <2>1, StageStep DEF ConstructionInv
<1>5. CASE BuildReveal
  BY <1>5, BuildStep DEF ConstructionInv, BuildReveal
<1>6. CASE RevealRefused
  BY <1>6, RefusedStep DEF ConstructionInv, RevealRefused
<1>7. CASE Finish
  BY <1>7 DEF ConstructionInv, InscriptionFits, Finish
<1>8. ASSUME NEW amount \in Payments, NEW r \in FeeRates, NEW way, NEW avoided, NEW allowed \in BOOLEAN,
             Pay(amount, r, way, avoided, allowed)
      PROVE  ConstructionInv'
  <2>1. PaymentFits(payment') /\ UNCHANGED <<stage, plan, commit, reveal, bumps>>
    BY <1>8, PayStep
  <2>2. InscriptionFits'
    BY <2>1 DEF ConstructionInv, InscriptionFits, MaxBumps
  <2>3. QED BY <2>1, <2>2 DEF ConstructionInv
<1>9. CASE UNCHANGED constructionVars
  BY <1>9 DEF ConstructionInv, InscriptionFits, MaxBumps, constructionVars
<1>10. QED BY <1>2, <1>3, <1>4, <1>5, <1>6, <1>7, <1>8, <1>9 DEF ConstructionNext

\* What is put aside for a reveal of the size the code assumed pays for it.
LEMMA RevealIsPaid ==
    ASSUME NEW v, NEW c, NEW p, CommitFits(c, p), RevealFits(v, c, p)
    PROVE  /\ v.change > 0 => v.fee >= Fee(v.size, v.rate)
           /\ c.of = "single" /\ v.size <= 264 => v.fee >= Fee(v.size, p.rate)
           /\ c.of = "multi" /\ v.size <= RevealEstimate(p.bytes, p.items) =>
                v.fee >= Fee(v.size, p.rate)
<1> DEFINE r == p.rate
           size == v.size
           cost == Fee(size, r)
           base == Postage * p.items
<1>1. r \in Nat \ {0} /\ v.rate \in Nat /\ r <= v.rate /\ size \in Nat \ {0} /\ v.change \in Nat
      /\ v.fee \in Int /\ c.each \in Nat /\ p.items \in Nat \ {0}
  BY ConstructionFacts DEF CommitFits, RevealFits
<1>2. /\ v.change > 0 => v.fee = Fee(size, v.rate)
      /\ v.change = 0 => v.fee = c.each - base
  BY DEF RevealFits
<1>3. base \in Nat
  BY <1>1, ConstructionFacts
<1>4. Fee(size, v.rate) \in Nat /\ cost \in Nat /\ cost <= Fee(size, v.rate)
  <2>1. size \in Nat /\ size <= size /\ r \in Nat
    BY <1>1
  <2>2. QED BY <1>1, <2>1, FeeMonotone, FeeIsNat
<1>5. v.change > 0 => v.fee >= Fee(size, v.rate) /\ v.fee >= cost
  BY <1>2, <1>4
<1>6. ASSUME c.of = "single", size <= 264, v.change = 0 PROVE v.fee >= cost
  <2>1. p.items = 1 /\ c.each = SingleAmount(r) /\ p.bytes \in Nat
    BY <1>6, ConstructionFacts DEF CommitFits
  <2>2. base = 551
    BY <2>1, ConstructionFacts
  <2>3. cost <= Fee(264, r)
    BY <1>1, <1>6, FeeGrows
  <2> HIDE DEF cost, base, r
  <2>4. SingleAmount(r) - 551 >= Fee(264, r) /\ Fee(264, r) \in Nat /\ SingleAmount(r) \in Nat
    <3>1. CeilDiv(11 * 200, 10) = 220 /\ CeilDiv(11 * 264, 10) = 291
      BY DEF CeilDiv
    <3>2. QED BY <1>1, <3>1 DEF SingleAmount, Fee, Larger
  <2>5. v.fee = SingleAmount(r) - 551
    BY <1>2, <1>6, <2>1, <2>2
  <2>6. QED BY <1>4, <2>3, <2>4, <2>5
<1>7. ASSUME c.of = "multi", size <= RevealEstimate(p.bytes, p.items), v.change = 0
      PROVE  v.fee >= cost
  <2>1. c.each = MultiAmount(p.items, p.bytes, r) /\ p.bytes \in Nat
    BY <1>7, ConstructionFacts DEF CommitFits
  <2>2. MultiAmount(p.items, p.bytes, r) - base >= Fee(RevealEstimate(p.bytes, p.items), r)
    <3>1. r \in Nat /\ p.bytes \in Nat /\ p.items \in Nat \ {0}
      BY <1>1, <2>1
    <3>2. Remaining(r, p.bytes, p.items) >= Fee(RevealEstimate(p.bytes, p.items), r)
      BY <3>1, MultiCovers
    <3>3. QED BY <3>2 DEF Remaining
  <2>3. RevealEstimate(p.bytes, p.items) \in Nat
    BY <1>1, <2>1, SizesAreNat
  <2>4. cost <= Fee(RevealEstimate(p.bytes, p.items), r) /\ Fee(RevealEstimate(p.bytes, p.items), r) \in Nat
    BY <1>1, <1>7, <2>3, FeeGrows, FeeIsNat
  <2> HIDE DEF cost, base, r
  <2>5. v.fee >= Fee(RevealEstimate(p.bytes, p.items), r)
    BY <1>2, <1>7, <2>1, <2>2
  <2>6. QED BY <1>1, <1>4, <2>4, <2>5
<1>8. v.change > 0 \/ v.change = 0
  BY <1>1
<1>9. QED BY <1>5, <1>6, <1>7, <1>8

LEMMA InvImpliesBalance == ConstructionInv => AmountsBalance
<1> SUFFICES ASSUME ConstructionInv PROVE AmountsBalance
  OBVIOUS
<1>1. RevealPays
  <2> SUFFICES ASSUME reveal # Nothing PROVE RevealPays
    BY DEF RevealPays
  <2>1. CommitFits(commit, plan) /\ RevealFits(reveal, commit, plan)
    BY DEF ConstructionInv, InscriptionFits
  <2>2. QED BY <2>1, RevealIsPaid DEF RevealPays
<1>2. SpendingBalances
  <2>1. payment # Nothing => PaymentFits(payment)
    BY DEF ConstructionInv
  <2>2. stage = "signed" => CommitFits(commit, plan)
    BY DEF ConstructionInv, InscriptionFits
  <2>3. QED BY <2>1, <2>2 DEF SpendingBalances, PaymentFits, CommitFits
<1>3. QED BY <1>1, <1>2 DEF AmountsBalance

LEMMA InvImpliesConstructionType == ConstructionInv => ConstructionTypeOK
<1> SUFFICES ASSUME ConstructionInv PROVE ConstructionTypeOK
  OBVIOUS
<1>1. CASE stage = "idle" /\ commit = Nothing /\ reveal = Nothing /\ bumps = 0
  BY <1>1 DEF ConstructionTypeOK
<1>2. CASE ~(stage = "idle" /\ commit = Nothing /\ reveal = Nothing /\ bumps = 0)
  <2>1. /\ stage \in {"prepared", "signed", "sent", "built", "done", "failed"}
        /\ CommitFits(commit, plan) /\ bumps \in 0..MaxBumps
        /\ (reveal # Nothing => RevealFits(reveal, commit, plan))
    BY <1>2 DEF ConstructionInv, InscriptionFits
  <2>2. bumps \in 0..2
    BY <2>1, RatesAreKept
  <2>3. QED BY <2>1, <2>2 DEF ConstructionTypeOK, CommitFits, RevealFits
<1>3. QED BY <1>1, <1>2

LEMMA ConstructionInvariant == ConstructionSpec => []ConstructionInv
<1>1. ConstructionInit => ConstructionInv
  BY DEF ConstructionInit, ConstructionInv, InscriptionFits
<1>2. QED BY <1>1, ConstructionStep, PTL DEF ConstructionSpec

\* The amounts of a transaction are whole and the stages those the code has.
THEOREM ConstructionTypeCorrect == ConstructionSpec => []ConstructionTypeOK
BY ConstructionInvariant, InvImpliesConstructionType, PTL

\* For every wallet, rate and payload, and however the selection is made: a reveal
\* with change pays the rate it was built for, one without pays the rate the user
\* chose as long as its size was not underestimated, and what is paid or committed
\* balances with what is spent, through every refusal and bump.
THEOREM AmountsAlwaysBalance == ConstructionSpec => []AmountsBalance
BY ConstructionInvariant, InvImpliesBalance, PTL

-----------------------------------------------------------------------------
(***************************************************************************)
(* The resolution of DIDs.                                                 *)
(***************************************************************************)

LEMMA GreatestExists ==
    ASSUME NEW n \in Nat, NEW S \in SUBSET (0..n), S # {}
    PROVE  \E x \in S : \A y \in S : x >= y
    <1> DEFINE T == {m \in Nat : n - m \in S}
    <1>1. T \in SUBSET Nat
        OBVIOUS
    <1>2. ASSUME NEW x \in S PROVE x \in Nat /\ n - x \in T
        OBVIOUS
    <1>3. T # {}
        BY <1>2
    <1> HIDE DEF T
    <1>4. PICK t \in T : \A y \in T : t <= y
        BY <1>1, <1>3, LeastExists
    <1>5. n - t \in S /\ t \in Nat
        BY <1>4 DEF T
    <1>6. ASSUME NEW y \in S PROVE n - t >= y
        BY <1>2, <1>4, <1>5, <1>6
    <1> QED BY <1>5, <1>6

LEMMA NewestIsGreatest ==
    ASSUME NEW n \in Nat, NEW S \in SUBSET (1..n)
    PROVE  /\ Newest(S) \in S \cup {NoDocument}
           /\ \A y \in S : y <= Newest(S)
    <1> DEFINE Z == S \cup {NoDocument}
    <1>1. Z \in SUBSET (0..n) /\ Z # {}
        BY DEF NoDocument
    <1>2. \E x \in Z : \A y \in Z : x >= y
        BY <1>1, GreatestExists
    <1>3. Newest(S) = CHOOSE x \in Z : \A y \in Z : x >= y
        BY DEF Newest, Max
    <1>4. Newest(S) \in Z /\ \A y \in Z : Newest(S) >= y
        BY <1>2, <1>3
    <1>5. \A y \in Z : y \in Int
        BY <1>1
    <1> QED BY <1>4, <1>5

-----------------------------------------------------------------------------
Checking == [at : {"issuer", "key"}, key : SigningKeys, clean : BOOLEAN, since : Nat]
Validating == [at : {"validate", "request"}, key : SigningKeys, clean : BOOLEAN, left : Nat, since : Nat]
Judged == [at : {"verdict"}, key : SigningKeys, accepted : BOOLEAN, since : Nat, clean : BOOLEAN]

Signs(c) == \E i \in c.since..Len(onSat) : onSat[i] = Document(c.key)

\* What holds of each call: a verification began with a document that the
\* provider still lists, and a verdict is what the property says of it.
CallFits(c) ==
    \/ c.at \in {"idle", "resolve", "resolved"}
    \/ c \in Validating
    \/ c \in Checking /\ c.since \in Documents(InscriptionIds) \cup {NoDocument}
    \/ c \in Judged /\ (c.accepted /\ c.clean /\ c.since # NoDocument => Signs(c))

ResolutionInv ==
    /\ onSat \in Seq(Contents) /\ Len(onSat) <= MaxInscribed
    /\ static \in BOOLEAN /\ loaded \in 0..Len(onSat)
    /\ query = [q \in Queries |-> query[q]]
    /\ \A q \in Queries : CallFits(query[q])

LEMMA ResolutionFacts ==
    ASSUME ResolutionInv
    PROVE  /\ Len(onSat) \in Nat /\ loaded \in Nat /\ loaded <= Len(onSat)
           /\ InscriptionIds \in Nat /\ InscriptionIds <= Len(onSat)
           /\ \A i \in 1..Len(onSat) : onSat[i] \in Contents
    <1>1. Len(onSat) \in Nat /\ \A i \in 1..Len(onSat) : onSat[i] \in Contents
        BY DEF ResolutionInv
    <1>2. loaded \in Nat /\ loaded <= Len(onSat)
        BY <1>1 DEF ResolutionInv
    <1> QED BY <1>1, <1>2 DEF InscriptionIds

LEMMA DocumentsFacts ==
    ASSUME ResolutionInv
    PROVE  /\ Newest(Documents(InscriptionIds)) \in Documents(InscriptionIds) \cup {NoDocument}
           /\ Newest(Documents(InscriptionIds)) \in Nat
           /\ \A y \in Documents(InscriptionIds) : y <= Newest(Documents(InscriptionIds))
           /\ \A i \in Documents(InscriptionIds) :
                i \in 1..Len(onSat) /\ onSat[i] = Document(onSat[i].key)
    <1>1. InscriptionIds \in Nat /\ InscriptionIds <= Len(onSat) /\ Len(onSat) \in Nat
        BY ResolutionFacts
    <1>2. Documents(InscriptionIds) \in SUBSET (1..InscriptionIds)
        BY DEF Documents
    <1>3. /\ Newest(Documents(InscriptionIds)) \in Documents(InscriptionIds) \cup {NoDocument}
          /\ \A y \in Documents(InscriptionIds) : y <= Newest(Documents(InscriptionIds))
        BY <1>1, <1>2, NewestIsGreatest
    <1>4. Newest(Documents(InscriptionIds)) \in Nat
        BY <1>1, <1>2, <1>3 DEF NoDocument
    <1>5. ASSUME NEW i \in Documents(InscriptionIds)
          PROVE  i \in 1..Len(onSat) /\ onSat[i] = Document(onSat[i].key)
        <2>1. i \in 1..Len(onSat) /\ onSat[i].is = "document"
            BY <1>1, <1>5 DEF Documents
        <2>2. onSat[i] \in Contents
            BY <2>1, ResolutionFacts
        <2> QED BY <2>1, <2>2 DEF Contents, Document
    <1> QED BY <1>3, <1>4, <1>5

\* A step that lets the sat and the provider only grow keeps what holds of the
\* calls it leaves alone.
LEMMA GrowthKeeps ==
    ASSUME ResolutionInv, NEW c, CallFits(c),
           onSat' \in Seq(Contents), Len(onSat) <= Len(onSat'),
           \A i \in 1..Len(onSat) : onSat'[i] = onSat[i],
           InscriptionIds' \in Nat, InscriptionIds <= InscriptionIds'
    PROVE  \/ c.at \in {"idle", "resolve", "resolved"}
           \/ c \in Validating
           \/ c \in Checking /\ c.since \in Documents(InscriptionIds)' \cup {NoDocument}
           \/ c \in Judged /\ (c.accepted /\ c.clean /\ c.since # NoDocument => \E i \in c.since..Len(onSat') : onSat'[i] = Document(c.key))
    <1>1. Len(onSat) \in Nat /\ Len(onSat') \in Nat /\ InscriptionIds \in Nat /\ InscriptionIds <= Len(onSat)
        BY ResolutionFacts
    <1>2. CASE c \in Checking /\ c.since \in Documents(InscriptionIds) \cup {NoDocument}
        <2>1. CASE c.since = NoDocument
            BY <1>2, <2>1
        <2>2. CASE c.since \in Documents(InscriptionIds)
            <3>1. c.since \in 1..InscriptionIds /\ onSat[c.since].is = "document"
                BY <2>2 DEF Documents
            <3>2. c.since \in 1..InscriptionIds' /\ onSat'[c.since].is = "document"
                BY <1>1, <3>1
            <3>3. c.since \in Documents(InscriptionIds)'
                BY <3>2 DEF Documents
            <3> QED BY <1>2, <3>3
        <2> QED BY <1>2, <2>1, <2>2
    <1>3. CASE c \in Judged /\ (c.accepted /\ c.clean /\ c.since # NoDocument => Signs(c))
        <2> SUFFICES ASSUME c.accepted, c.clean, c.since # NoDocument
                     PROVE  \E i \in c.since..Len(onSat') : onSat'[i] = Document(c.key)
            BY <1>3
        <2>1. PICK i \in c.since..Len(onSat) : onSat[i] = Document(c.key)
            BY <1>3 DEF Signs
        <2>2. c.since \in Nat /\ c.since # 0
            BY <1>3 DEF Judged, NoDocument
        <2>3. i \in 1..Len(onSat)
            BY <1>1, <2>2
        <2>4. i \in c.since..Len(onSat') /\ onSat'[i] = Document(c.key)
            BY <1>1, <2>1, <2>2, <2>3
        <2> QED BY <2>4
    <1> QED BY <1>2, <1>3 DEF CallFits

\* A step of one call, the sat and the provider unchanged.
LEMMA CallMoves ==
    ASSUME ResolutionInv, NEW q \in Queries, NEW next, Proceed(q, next), CallFits(next),
           UNCHANGED <<onSat, static, loaded>>
    PROVE  ResolutionInv'
    <1>1. query' = [p \in Queries |-> IF p = q THEN next ELSE query[p]]
        BY DEF Proceed, ResolutionInv
    <1>2. query' = [p \in Queries |-> query'[p]]
        BY <1>1
    <1>3. ASSUME NEW p \in Queries PROVE CallFits(query'[p])
        <2>1. query'[p] = IF p = q THEN next ELSE query[p]
            BY <1>1
        <2> QED BY <2>1 DEF ResolutionInv
    <1>4. ASSUME NEW p \in Queries PROVE CallFits(query[p])'
        BY <1>3 DEF CallFits, Documents, InscriptionIds, Signs
    <1> QED BY <1>2, <1>4 DEF ResolutionInv

\* What each of the four callers makes of what resolve answers.
LEMMA AnswerFits ==
    ASSUME ResolutionInv, NEW q \in Queries, NEW outcome,
           outcome.listed \in Nat,
           outcome.clean \in BOOLEAN,
           outcome.document \in Documents(InscriptionIds) \cup {NoDocument},
           outcome.clean => outcome.document = Newest(Documents(InscriptionIds)),
           query[q].at \in {"resolve", "issuer", "key", "validate"},
           Answered(q, outcome)
    PROVE  \E next : Proceed(q, next) /\ CallFits(next)
    <1> DEFINE c == query[q]
    <1>0. CallFits(c)
        BY DEF ResolutionInv
    <1>1. CASE c.at = "resolve"
        <2> DEFINE n == [at |-> "resolved", document |-> outcome.document, listed |-> outcome.listed]
        <2>1. Proceed(q, n)
            BY <1>1 DEF Answered
        <2>2. CallFits(n)
            BY DEF CallFits
        <2> QED BY <2>1, <2>2
    <1>2. CASE c.at = "validate"
        <2>1. c \in Validating
            BY <1>0, <1>2 DEF CallFits, Checking, Judged
        <2> DEFINE n == IF outcome.listed = 0 THEN Asleep
                        ELSE [[c EXCEPT !.clean = @ /\ outcome.clean] EXCEPT !.at = "request"]
        <2>2. Proceed(q, n)
            BY <1>2 DEF Answered
        <2>3. CASE outcome.listed = 0
            BY <2>2, <2>3 DEF CallFits, Asleep
        <2>4. CASE outcome.listed # 0
            <3> DEFINE m == [at |-> "request", key |-> c.key, clean |-> c.clean /\ outcome.clean,
                             left |-> c.left, since |-> c.since]
            <3>1. n = m
                BY <2>1, <2>4 DEF Validating
            <3>2. m \in Validating
                BY <2>1 DEF Validating
            <3>3. CallFits(n)
                BY <3>1, <3>2 DEF CallFits
            <3> QED BY <2>2, <3>3
        <2> QED BY <2>3, <2>4
    <1>3. ASSUME c.at \in {"issuer", "key"}
          PROVE  /\ c \in Checking /\ c.since \in Documents(InscriptionIds) \cup {NoDocument}
                 /\ c.key \in SigningKeys /\ c.clean \in BOOLEAN /\ c.since \in Nat
        BY <1>0, <1>3 DEF CallFits, Checking, Validating, Judged
    <1> DEFINE judged(v) == [at |-> "verdict", key |-> c.key, accepted |-> v, since |-> c.since,
                             clean |-> c.clean /\ outcome.clean]
    <1>4. CASE c.at = "issuer"
        <2> DEFINE n == IF outcome.listed = 0 THEN judged(FALSE)
                        ELSE [[c EXCEPT !.clean = @ /\ outcome.clean] EXCEPT !.at = "key"]
        <2>1. Proceed(q, n)
            <3>1. [c EXCEPT !.clean = @ /\ outcome.clean].clean = (c.clean /\ outcome.clean)
                BY <1>3, <1>4 DEF Checking
            <3> QED BY <1>4, <3>1 DEF Answered
        <2>2. CASE outcome.listed = 0
            <3>1. judged(FALSE) \in Judged /\ ~judged(FALSE).accepted
                BY <1>3, <1>4 DEF Judged
            <3>2. CallFits(n)
                BY <2>2, <3>1 DEF CallFits
            <3> QED BY <2>1, <3>2
        <2>3. CASE outcome.listed # 0
            <3> DEFINE m == [at |-> "key", key |-> c.key, clean |-> c.clean /\ outcome.clean, since |-> c.since]
            <3>1. n = m
                BY <1>3, <1>4, <2>3 DEF Checking
            <3>2. m \in Checking /\ m.since \in Documents(InscriptionIds) \cup {NoDocument}
                BY <1>3, <1>4 DEF Checking
            <3>3. CallFits(n)
                BY <3>1, <3>2 DEF CallFits
            <3> QED BY <2>1, <3>3
        <2> QED BY <2>2, <2>3
    <1>5. CASE c.at = "key"
        <2> DEFINE found == outcome.document # NoDocument
                   ok == found /\ onSat[outcome.document].key = c.key
        <2>1. PICK v \in IF found THEN {ok} ELSE BOOLEAN : Proceed(q, judged(v))
            <3>1. [c EXCEPT !.clean = @ /\ outcome.clean].clean = (c.clean /\ outcome.clean)
                BY <1>3, <1>5 DEF Checking
            <3> QED BY <1>5, <3>1 DEF Answered
        <2>2. v \in BOOLEAN
            BY <2>1
        <2> DEFINE n == judged(v)
        <2>3. n \in Judged
            BY <1>3, <1>5, <2>2 DEF Judged
        <2>4. ASSUME n.accepted, n.clean, n.since # NoDocument PROVE Signs(n)
            <3>1. outcome.clean /\ v /\ c.since \in Documents(InscriptionIds)
                BY <1>3, <1>5, <2>4
            <3>2. outcome.document = Newest(Documents(InscriptionIds)) /\ c.since <= outcome.document
                BY <3>1, DocumentsFacts
            <3>3. c.since \in Nat /\ c.since # 0
                BY <1>3, <1>5, <2>4 DEF NoDocument
            <3>4. outcome.document # NoDocument
                BY <3>2, <3>3, DocumentsFacts DEF NoDocument
            <3>5. ok
                BY <2>1, <3>1, <3>4
            <3>6. /\ outcome.document \in 1..Len(onSat)
                  /\ onSat[outcome.document] = Document(onSat[outcome.document].key)
                BY <3>4, DocumentsFacts
            <3>7. outcome.document \in c.since..Len(onSat)
                BY <3>2, <3>3, <3>6, ResolutionFacts
            <3> QED BY <3>5, <3>6, <3>7 DEF Signs
        <2>5. CallFits(n)
            BY <2>3, <2>4 DEF CallFits
        <2> QED BY <2>1, <2>5
    <1> QED BY <1>1, <1>2, <1>4, <1>5

LEMMA ResolutionStart == ResolutionInit => ResolutionInv
    BY ResolutionAssumption DEF ResolutionInit, ResolutionInv, CallFits, Asleep, ResolutionAssumption

LEMMA ResolutionStep ==
    ASSUME ResolutionInv, [ResolutionNext]_resolutionVars
    PROVE  ResolutionInv'
    <1>0. /\ Len(onSat) \in Nat /\ loaded \in Nat /\ loaded <= Len(onSat) /\ static \in BOOLEAN
          /\ InscriptionIds \in Nat /\ InscriptionIds <= Len(onSat)
          /\ onSat \in Seq(Contents) /\ Len(onSat) <= MaxInscribed /\ MaxInscribed \in Nat
        BY ResolutionFacts, ResolutionAssumption DEF ResolutionInv, ResolutionAssumption
    <1>i. \A c : c.at \in {"idle", "resolve", "resolved"} => CallFits(c)
        BY DEF CallFits
    <1>n. /\ Newest(Documents(InscriptionIds)) \in Documents(InscriptionIds) \cup {NoDocument}
          /\ Newest(Documents(InscriptionIds)) \in Nat
        BY DocumentsFacts
    <1>1. ASSUME NEW c \in Contents, Inscribe(c) PROVE ResolutionInv'
        <2>1. onSat' = Append(onSat, c) /\ static' = static /\ loaded' = loaded /\ query' = query /\ Len(onSat) < MaxInscribed
            BY <1>1 DEF Inscribe
        <2>2. onSat' \in Seq(Contents) /\ Len(onSat') = Len(onSat) + 1 /\ \A i \in 1..Len(onSat) : onSat'[i] = onSat[i]
            BY <1>0, <2>1
        <2>3. InscriptionIds' \in Nat /\ InscriptionIds <= InscriptionIds'
            BY <1>0, <2>1, <2>2 DEF InscriptionIds
        <2>4. ASSUME NEW q \in Queries PROVE CallFits(query[q])'
            <3>1. CallFits(query[q]) /\ query'[q] = query[q]
                BY <2>1 DEF ResolutionInv
            <3> DEFINE d == query[q]
            <3>2. d = query'[q] /\ CallFits(d)
                BY <3>1
            <3> HIDE DEF d
            <3>3. \/ d.at \in {"idle", "resolve", "resolved"}
                  \/ d \in Validating
                  \/ d \in Checking /\ d.since \in Documents(InscriptionIds)' \cup {NoDocument}
                  \/ d \in Judged /\ (d.accepted /\ d.clean /\ d.since # NoDocument => \E i \in d.since..Len(onSat') : onSat'[i] = Document(d.key))
                BY <1>0, <2>2, <2>3, <3>2, GrowthKeeps
            <3> QED BY <3>2, <3>3 DEF CallFits, Signs, Checking, Validating, Judged, Document
        <2>5. Len(onSat') <= MaxInscribed /\ loaded' \in 0..Len(onSat')
            BY <1>0, <2>1, <2>2
        <2> QED BY <1>0, <2>1, <2>2, <2>4, <2>5 DEF ResolutionInv
    <1>2. CASE LoadSatData
        <2>1. onSat' = onSat /\ static' = static /\ loaded' = Len(onSat) /\ query' = query
            BY <1>2 DEF LoadSatData
        <2>3. InscriptionIds' \in Nat /\ InscriptionIds <= InscriptionIds'
            BY <1>0, <2>1 DEF InscriptionIds
        <2>4. ASSUME NEW q \in Queries PROVE CallFits(query[q])'
            <3>1. CallFits(query[q]) /\ query'[q] = query[q]
                BY <2>1 DEF ResolutionInv
            <3> DEFINE d == query[q]
            <3>2. d = query'[q] /\ CallFits(d)
                BY <3>1
            <3> HIDE DEF d
            <3>3. \/ d.at \in {"idle", "resolve", "resolved"}
                  \/ d \in Validating
                  \/ d \in Checking /\ d.since \in Documents(InscriptionIds)' \cup {NoDocument}
                  \/ d \in Judged /\ (d.accepted /\ d.clean /\ d.since # NoDocument => \E i \in d.since..Len(onSat') : onSat'[i] = Document(d.key))
                BY <1>0, <2>1, <2>3, <3>2, GrowthKeeps
            <3> QED BY <3>2, <3>3 DEF CallFits, Signs, Checking, Validating, Judged, Document
        <2>5. Len(onSat') <= MaxInscribed /\ loaded' \in 0..Len(onSat')
            BY <1>0, <2>1
        <2> QED BY <1>0, <2>1, <2>4, <2>5 DEF ResolutionInv
    <1>3. ASSUME NEW q \in Queries, StartResolution(q) PROVE ResolutionInv'
        <2> DEFINE n == [at |-> "resolve", clean |-> TRUE]
        <2>1. Proceed(q, n) /\ UNCHANGED <<onSat, static, loaded>>
            BY <1>3 DEF StartResolution
        <2>2. CallFits(n)
            BY DEF CallFits
        <2> HIDE DEF n
        <2> QED BY <2>1, <2>2, CallMoves
    <1>4. ASSUME NEW q \in Queries, NEW k \in SigningKeys, StartVerification(q, k) PROVE ResolutionInv'
        <2> DEFINE n == [at |-> "issuer", key |-> k, clean |-> TRUE, since |-> Newest(Documents(InscriptionIds))]
        <2>1. Proceed(q, n) /\ UNCHANGED <<onSat, static, loaded>>
            BY <1>4 DEF StartVerification
        <2>2. CallFits(n)
            BY <1>n DEF CallFits, Checking
        <2> HIDE DEF n
        <2> QED BY <2>1, <2>2, CallMoves
    <1>5. ASSUME NEW q \in Queries, NEW k \in SigningKeys, StartIssue(q, k) PROVE ResolutionInv'
        <2> DEFINE n == [at |-> "validate", key |-> k, clean |-> TRUE, left |-> MaxRetries,
                         since |-> Newest(Documents(InscriptionIds))]
        <2>1. Proceed(q, n) /\ UNCHANGED <<onSat, static, loaded>>
            BY <1>5 DEF StartIssue
        <2>2. CallFits(n)
            BY <1>n, ResolutionAssumption DEF CallFits, Validating, ResolutionAssumption
        <2> HIDE DEF n
        <2> QED BY <2>1, <2>2, CallMoves
    <1>6. ASSUME NEW q \in Queries, Issue(q) PROVE ResolutionInv'
        <2> DEFINE c == query[q]
        <2>1. c \in Validating /\ UNCHANGED <<onSat, static, loaded>>
            <3>1. CallFits(c) /\ c.at = "request"
                BY <1>6 DEF Issue, ResolutionInv
            <3> QED BY <1>6, <3>1 DEF CallFits, Checking, Judged, Issue
        <2> DEFINE n == [at |-> "issuer", key |-> c.key, clean |-> TRUE, since |-> Newest(Documents(InscriptionIds))]
                   again == IF c.left = 0 THEN Asleep ELSE [c EXCEPT !.left = @ - 1]
        <2>2. Proceed(q, n) \/ Proceed(q, again)
            BY <1>6 DEF Issue
        <2>3. CallFits(n)
            BY <1>n, <2>1 DEF CallFits, Checking, Validating
        <2>4. CallFits(again)
            <3>1. CASE c.left = 0
                BY <3>1 DEF CallFits, Asleep
            <3>2. CASE c.left # 0
                <4>1. [c EXCEPT !.left = @ - 1] \in Validating
                    BY <2>1, <3>2 DEF Validating
                <4> QED BY <3>2, <4>1 DEF CallFits
            <3> QED BY <3>1, <3>2
        <2> HIDE DEF n, again
        <2> QED BY <2>1, <2>2, <2>3, <2>4, CallMoves
    <1>7. ASSUME NEW q \in Queries, Resolve(q) PROVE ResolutionInv'
        <2> DEFINE m == InscriptionIds
        <2>1. PICK missed \in SUBSET (1..m) :
                 Answered(q, [listed |-> m, document |-> Latest(Documents(m) \ missed), clean |-> missed = {}])
            BY <1>7 DEF Resolve
        <2> DEFINE o == [listed |-> m, document |-> Latest(Documents(m) \ missed), clean |-> missed = {}]
        <2>2. Documents(m) \ missed \in SUBSET (1..m)
            BY DEF Documents
        <2>3. Latest(Documents(m) \ missed) \in (Documents(m) \ missed) \cup {NoDocument}
            BY <1>0, <2>2, NewestIsGreatest DEF Latest
        <2>4. /\ o.listed \in Nat /\ o.clean \in BOOLEAN
              /\ o.document \in Documents(InscriptionIds) \cup {NoDocument}
              /\ Answered(q, o)
            BY <1>0, <2>1, <2>3
        <2>5. o.clean => o.document = Newest(Documents(InscriptionIds))
            <3>1. missed = {} => Documents(m) \ missed = Documents(m)
                OBVIOUS
            <3> QED BY <3>1 DEF Latest
        <2>6. query[q].at \in {"resolve", "issuer", "key", "validate"} /\ UNCHANGED <<onSat, static, loaded>>
            BY <1>7 DEF Resolve
        <2> HIDE DEF o, m
        <2>7. \E next : Proceed(q, next) /\ CallFits(next)
            BY <2>4, <2>5, <2>6, AnswerFits
        <2> QED BY <2>6, <2>7, CallMoves
    <1>8. ASSUME NEW q \in Queries, NotFound(q) PROVE ResolutionInv'
        <2> DEFINE o == [listed |-> 0, document |-> NoDocument, clean |-> FALSE]
        <2>1. /\ Answered(q, o) /\ o.listed \in Nat /\ o.clean \in BOOLEAN /\ ~o.clean
              /\ o.document \in Documents(InscriptionIds) \cup {NoDocument}
            BY <1>8 DEF NotFound
        <2>2. query[q].at \in {"resolve", "issuer", "key", "validate"} /\ UNCHANGED <<onSat, static, loaded>>
            BY <1>8 DEF NotFound
        <2> HIDE DEF o
        <2>7. \E next : Proceed(q, next) /\ CallFits(next)
            BY <2>1, <2>2, AnswerFits
        <2> QED BY <2>2, <2>7, CallMoves
    <1>9. CASE UNCHANGED resolutionVars
        <2>1. onSat' = onSat /\ static' = static /\ loaded' = loaded /\ query' = query
            BY <1>9 DEF resolutionVars
        <2> QED BY <2>1 DEF ResolutionInv, CallFits, Documents, InscriptionIds, Signs
    <1> QED BY <1>1, <1>2, <1>3, <1>4, <1>5, <1>6, <1>7, <1>8, <1>9 DEF ResolutionNext

LEMMA ResolutionInvariant == ResolutionSpec => []ResolutionInv
    <1>1. ResolutionInit => ResolutionInv
        BY ResolutionStart
    <1>2. ResolutionInv /\ [ResolutionNext]_resolutionVars => ResolutionInv'
        BY ResolutionStep
    <1> QED BY <1>1, <1>2, PTL DEF ResolutionSpec

\* A resolution is always at one of its steps, and a provider of loaded data
\* never lists more inscriptions than the sat has (static-data-provider.ts).
THEOREM ResolutionTypeCorrect == ResolutionSpec => []ResolutionTypeOK
    <1>1. ResolutionInv => ResolutionTypeOK
        BY DEF ResolutionInv, ResolutionTypeOK, CallFits, Checking, Validating, Judged
    <1> QED BY <1>1, ResolutionInvariant, PTL

\* A key that was rotated out before a verification began verifies nothing in
\* it, if the sat could be read: neither the second resolution of the DID nor
\* inscriptions made meanwhile bring it back (vc/service.ts:302-366,
\* btco-did-resolver.ts:300-312).
THEOREM RotatedKeysRefused == ResolutionSpec => []RotatedKeyRefused
    <1>1. ResolutionInv => RotatedKeyRefused
        BY DEF ResolutionInv, RotatedKeyRefused, CallFits, Checking, Validating, Judged, Signs
    <1> QED BY <1>1, ResolutionInvariant, PTL

-----------------------------------------------------------------------------
(***************************************************************************)
(* The operations on DID documents.                                        *)
(***************************************************************************)

-----------------------------------------------------------------------------
Methods == [id : Nat, revoked : BOOLEAN]
Copies == [methods : Nat, references : Nat, deactivated : BOOLEAN]

\* Every reference names a key of the list that is not revoked.
Live(refs, list) == \A id \in refs : \E i \in 1..Len(list) : list[i] = Method(id)

\* The ids of a list that the operations chose, v documents having been returned:
\* they count the keys of the list or are of a time, one of those in T, and no two
\* are the same.
LastOwn == MaxOwnIds + MaxVersions

Told(list, v, T) ==
    /\ Len(list) <= v
    /\ \A i \in 1..Len(list) : list[i].id \in 1..Len(list) \cup T
    /\ \A i, j \in 1..Len(list) : list[i].id = list[j].id => i = j

\* The operations chose every id, and no two of the same time.
Own == ~chosen /\ ~rushed

DocInv ==
    /\ versions \in Seq(Copies) /\ Len(versions) \in 1..MaxVersions
    /\ methods \in Seq(Seq(Methods)) /\ references \in Seq(SUBSET Nat)
    /\ \A d \in 1..Len(versions) :
         versions[d].methods \in 1..Len(methods) /\ versions[d].references \in 1..Len(references)
    /\ taken \subseteq TimeIds
    /\ branched \in BOOLEAN /\ chosen \in BOOLEAN /\ rushed \in BOOLEAN
    /\ ~branched => Live(references[versions[Len(versions)].references], methods[versions[Len(versions)].methods])
    /\ Own => \A l \in 1..Len(methods) : Told(methods[l], Len(versions), taken)

LEMMA DocAssumptions == MaxVersions \in Nat /\ MaxVersions >= 1 /\ MaxOwnIds \in Nat /\ LastOwn \in Nat /\ LastOwn >= MaxVersions
    BY DocumentsAssumption DEF DocumentsAssumption, LastOwn

-----------------------------------------------------------------------------
(* What the operations do to a list of keys. *)

LEMMA MethodIsKey == ASSUME NEW id \in Nat PROVE Method(id) \in Methods /\ Method(id).id = id
    BY DEF Method, Methods

\* The first key with an id that is listed.
LEMMA IndexFound ==
    ASSUME NEW list \in Seq(Methods), NEW id, \E m \in 1..Len(list) : list[m].id = id
    PROVE  IndexOf(list, id) \in 1..Len(list) /\ list[IndexOf(list, id)].id = id
    <1> DEFINE S == {m \in 1..Len(list) : list[m].id = id}
    <1>1. S \in SUBSET Nat /\ S # {}
        OBVIOUS
    <1> HIDE DEF S
    <1>2. PICK m \in S : \A n \in S : m <= n
        BY <1>1, LeastExists
    <1>3. m \in 1..Len(list) /\ list[m].id = id
        BY <1>2 DEF S
    <1>4. \A j \in 1..(m - 1) : list[j].id # id
        <2> SUFFICES ASSUME NEW j \in 1..(m - 1), list[j].id = id PROVE FALSE
            OBVIOUS
        <2>1. j \in 1..Len(list) /\ j < m
            BY <1>3
        <2>2. j \in S
            BY <2>1 DEF S
        <2>3. m <= j
            BY <1>2, <2>2
        <2> QED BY <1>3, <2>1, <2>3
    <1>5. DOMAIN list = 1..Len(list)
        OBVIOUS
    <1> QED BY <1>3, <1>4, <1>5 DEF IndexOf

LEMMA ReplacedList ==
    ASSUME NEW list \in Seq(Methods), NEW i \in 1..Len(list), NEW key \in Methods
    PROVE  LET next == [list EXCEPT ![i] = key]
           IN  /\ next \in Seq(Methods) /\ Len(next) = Len(list) /\ next[i] = key
               /\ \A j \in 1..Len(list) : j # i => next[j] = list[j]
    OBVIOUS

LEMMA MarkedKey ==
    ASSUME NEW key \in Methods
    PROVE  LET r == [key EXCEPT !.revoked = TRUE] IN r \in Methods /\ r.id = key.id
    BY DEF Methods

LEMMA ExtendedList ==
    ASSUME NEW list \in Seq(Methods), NEW key \in Methods
    PROVE  LET next == Append(list, key)
           IN  /\ next \in Seq(Methods) /\ Len(next) = Len(list) + 1 /\ next[Len(list) + 1] = key
               /\ \A j \in 1..Len(list) : next[j] = list[j]
    OBVIOUS

LEMMA ToldLater ==
    ASSUME NEW list \in Seq(Methods), NEW v \in Nat, NEW T, NEW U, T \subseteq U, Told(list, v, T)
    PROVE  Told(list, v + 1, U)
    <1>1. Len(list) \in Nat
        OBVIOUS
    <1> QED BY <1>1 DEF Told

\* An id of a time is none that counts keys.
LEMMA TimesApart ==
    ASSUME NEW n \in Nat, n <= MaxVersions, NEW id \in TimeIds
    PROVE  id \in Nat /\ ~(id \in 1..n)
    BY DocAssumptions, DocumentsAssumption DEF TimeIds, LastOwn

\* A key is added with the next number, or with an id of a time that had none.
LEMMA ToldAdded ==
    ASSUME NEW list \in Seq(Methods), NEW v \in Nat, v < MaxVersions,
           NEW T \in SUBSET TimeIds, NEW U \in SUBSET TimeIds, T \subseteq U, Told(list, v, T),
           NEW id, id = Len(list) + 1 \/ id \in U \ T,
           NEW next \in Seq(Methods), Len(next) = Len(list) + 1, next[Len(list) + 1].id = id,
           \A j \in 1..Len(list) : next[j].id = list[j].id
    PROVE  Told(next, v + 1, U)
    <1> DEFINE n == Len(list)
    <1>1. n \in Nat /\ MaxVersions \in Nat
        BY DocAssumptions
    <1>2. /\ n <= v
          /\ \A i \in 1..n : list[i].id \in 1..n \cup T
          /\ \A i, j \in 1..n : list[i].id = list[j].id => i = j
        BY DEF Told
    <1>3. Len(next) = n + 1 /\ next[n + 1].id = id /\ (\A j \in 1..n : next[j].id = list[j].id)
          /\ (id = n + 1 \/ id \in U \ T)
        OBVIOUS
    <1> HIDE DEF n
    <1>4. n + 1 <= v + 1 /\ n <= MaxVersions /\ n + 1 <= MaxVersions /\ n + 1 \in Nat
        BY <1>1, <1>2
    <1>5. ASSUME NEW i \in 1..n PROVE list[i].id # id
        <2>1. CASE id = n + 1
            <3>1. id \in 1..(n + 1)
                BY <1>1, <2>1
            <3>2. id \notin T /\ id \notin 1..n
                BY <1>1, <1>4, <2>1, <3>1, TimesApart
            <3> QED BY <1>2, <3>2
        <2>2. CASE id \in U \ T
            <3>1. id \notin 1..n
                BY <1>1, <1>4, <2>2, TimesApart
            <3> QED BY <1>2, <2>2, <3>1
        <2> QED BY <1>3, <2>1, <2>2
    <1>6. \A i \in 1..(n + 1) : i \in 1..n \/ i = n + 1
        BY <1>1
    <1>7. \A i \in 1..(n + 1) : next[i].id \in 1..(n + 1) \cup U
        <2> TAKE i \in 1..(n + 1)
        <2>1. CASE i \in 1..n
            BY <1>1, <1>2, <1>3, <2>1
        <2>2. CASE i = n + 1
            BY <1>1, <1>3, <2>2
        <2> QED BY <1>6, <2>1, <2>2
    <1>8. \A i, j \in 1..(n + 1) : next[i].id = next[j].id => i = j
        <2> TAKE i, j \in 1..(n + 1)
        <2>1. CASE i \in 1..n /\ j \in 1..n
            BY <1>2, <1>3, <2>1
        <2>2. CASE i \in 1..n /\ j = n + 1
            BY <1>3, <1>5, <2>2
        <2>3. CASE i = n + 1 /\ j \in 1..n
            BY <1>3, <1>5, <2>3
        <2>4. CASE i = n + 1 /\ j = n + 1
            BY <2>4
        <2> QED BY <1>6, <2>1, <2>2, <2>3, <2>4
    <1> QED BY <1>3, <1>4, <1>7, <1>8 DEF Told

\* A key gives way to one with an id of a time that had none.
LEMMA ToldReplaced ==
    ASSUME NEW list \in Seq(Methods), NEW v \in Nat, v < MaxVersions,
           NEW T \in SUBSET TimeIds, NEW U \in SUBSET TimeIds, T \subseteq U, Told(list, v, T),
           NEW id \in U \ T,
           NEW i \in 1..Len(list), NEW next \in Seq(Methods), Len(next) = Len(list),
           next[i].id = id, \A j \in 1..Len(list) : j # i => next[j].id = list[j].id
    PROVE  Told(next, v + 1, U)
    <1> DEFINE n == Len(list)
    <1>1. n \in Nat /\ MaxVersions \in Nat
        BY DocAssumptions
    <1>2. /\ n <= v
          /\ \A j \in 1..n : list[j].id \in 1..n \cup T
          /\ \A j, k \in 1..n : list[j].id = list[k].id => j = k
        BY DEF Told
    <1>3. Len(next) = n /\ next[i].id = id /\ (\A j \in 1..n : j # i => next[j].id = list[j].id) /\ i \in 1..n
        OBVIOUS
    <1> HIDE DEF n
    <1>4. n <= v + 1 /\ id \notin 1..n
        BY <1>1, <1>2, TimesApart
    <1>5. \A j \in 1..n : list[j].id # id
        BY <1>2, <1>4
    <1>6. \A j \in 1..n : next[j].id \in 1..n \cup U
        <2> TAKE j \in 1..n
        <2>1. CASE j = i
            BY <1>3, <2>1
        <2>2. CASE j # i
            BY <1>2, <1>3, <2>2
        <2> QED BY <2>1, <2>2
    <1>7. \A j, k \in 1..n : next[j].id = next[k].id => j = k
        BY <1>2, <1>3, <1>5
    <1> QED BY <1>3, <1>4, <1>6, <1>7 DEF Told

-----------------------------------------------------------------------------
(* The operations. *)

LEMMA DocFacts ==
    ASSUME DocInv, NEW d \in DOMAIN versions
    PROVE  /\ d \in 1..Len(versions) /\ Len(versions) \in Nat /\ Len(versions) >= 1
           /\ versions[d] \in Copies
           /\ Len(methods) \in Nat /\ Len(references) \in Nat
           /\ versions[d].methods \in 1..Len(methods) /\ versions[d].references \in 1..Len(references)
           /\ methods[versions[d].methods] \in Seq(Methods)
           /\ references[versions[d].references] \in SUBSET Nat
    <1>1. versions \in Seq(Copies) /\ methods \in Seq(Seq(Methods)) /\ references \in Seq(SUBSET Nat)
        BY DEF DocInv
    <1>2. d \in 1..Len(versions) /\ Len(versions) \in Nat /\ versions[d] \in Copies
        BY <1>1
    <1>3. Len(versions) >= 1
        BY <1>2
    <1>4. versions[d].methods \in 1..Len(methods) /\ versions[d].references \in 1..Len(references)
        BY <1>2 DEF DocInv
    <1>5. Len(methods) \in Nat /\ Len(references) \in Nat
        BY <1>1
    <1>6. methods[versions[d].methods] \in Seq(Methods)
        BY <1>1, <1>4
    <1>7. references[versions[d].references] \in SUBSET Nat
        BY <1>1, <1>4
    <1> QED BY <1>2, <1>3, <1>4, <1>5, <1>6, <1>7

\* What remains to be shown of an operation: that what its document names is
\* there, that its references are live when the last document was gone on
\* from, and that its lists tell their keys apart.
LEMMA DocMoves ==
    ASSUME DocInv, NEW d \in DOMAIN versions, NEW copy \in Copies, Returns(d, copy),
           methods' \in Seq(Seq(Methods)), references' \in Seq(SUBSET Nat),
           Len(methods) <= Len(methods'), Len(references) <= Len(references'),
           copy.methods \in 1..Len(methods'), copy.references \in 1..Len(references'),
           chosen' \in BOOLEAN, rushed' \in BOOLEAN, taken' \subseteq TimeIds,
           ~branched /\ d = Len(versions) => Live(references'[copy.references], methods'[copy.methods]),
           Own' => \A l \in 1..Len(methods') : Told(methods'[l], Len(versions) + 1, taken')
    PROVE  DocInv'
    <1>1. versions \in Seq(Copies) /\ Len(versions) \in Nat /\ Len(versions) < MaxVersions
        BY DEF DocInv, Returns
    <1>2. versions' = Append(versions, copy) /\ branched' = (branched \/ d # Len(versions))
        BY DEF Returns
    <1>3. /\ versions' \in Seq(Copies) /\ Len(versions') = Len(versions) + 1
          /\ versions'[Len(versions')] = copy
          /\ \A e \in 1..Len(versions) : versions'[e] = versions[e]
        BY <1>1, <1>2
    <1>4. Len(versions') \in 1..MaxVersions
        BY <1>1, <1>3, DocAssumptions
    <1>5. ASSUME NEW e \in 1..Len(versions')
          PROVE  versions'[e].methods \in 1..Len(methods') /\ versions'[e].references \in 1..Len(references')
        <2>1. CASE e = Len(versions')
            BY <1>3, <2>1
        <2>2. CASE e # Len(versions')
            <3>1. e \in 1..Len(versions)
                BY <1>1, <1>3, <2>2
            <3>2. versions[e].methods \in 1..Len(methods) /\ versions[e].references \in 1..Len(references)
                BY <3>1 DEF DocInv
            <3>3. Len(methods) \in Nat /\ Len(references) \in Nat /\ Len(methods') \in Nat /\ Len(references') \in Nat
                BY DEF DocInv
            <3> QED BY SMTT(30), <1>3, <3>1, <3>2, <3>3
        <2> QED BY <2>1, <2>2
    <1>6. branched' \in BOOLEAN /\ (~branched' => ~branched /\ d = Len(versions))
        BY <1>2 DEF DocInv
    <1>7. ~branched' => Live(references'[versions'[Len(versions')].references], methods'[versions'[Len(versions')].methods])
        BY <1>3, <1>6
    <1>8. Own' => \A l \in 1..Len(methods') : Told(methods'[l], Len(versions'), taken')
        BY <1>3
    <1> QED BY <1>3, <1>4, <1>5, <1>6, <1>7, <1>8 DEF DocInv, Live, Told

\* An operation that changes the list a document names.
LEMMA ListChanges ==
    ASSUME DocInv, NEW d \in DOMAIN versions, NEW next \in Seq(Methods), Change(d, next)
    PROVE  /\ methods' \in Seq(Seq(Methods)) /\ Len(methods') = Len(methods)
           /\ methods'[versions[d].methods] = next
           /\ \A l \in 1..Len(methods) : l # versions[d].methods => methods'[l] = methods[l]
    <1>1. versions[d].methods \in 1..Len(methods) /\ methods \in Seq(Seq(Methods))
        BY DocFacts DEF DocInv
    <1>2. methods' = [methods EXCEPT ![versions[d].methods] = next]
        BY DEF Change
    <1> DEFINE m == versions[d].methods
    <1> HIDE DEF m
    <1>3. methods' = [methods EXCEPT ![m] = next] /\ m \in 1..Len(methods)
        BY <1>1, <1>2 DEF m
    <1>4. /\ methods' \in Seq(Seq(Methods)) /\ Len(methods') = Len(methods) /\ methods'[m] = next
          /\ \A l \in 1..Len(methods) : l # m => methods'[l] = methods[l]
        BY <1>1, <1>3
    <1> QED BY <1>4 DEF m

\* The lists stay told apart when the one that changed is, later.
LEMMA ListsTold ==
    ASSUME DocInv, NEW d \in DOMAIN versions, NEW next \in Seq(Methods), Change(d, next),
           Own, taken \subseteq taken', Told(next, Len(versions) + 1, taken')
    PROVE  \A l \in 1..Len(methods') : Told(methods'[l], Len(versions) + 1, taken')
    <1> TAKE l \in 1..Len(methods')
    <1>1. /\ Len(methods') = Len(methods) /\ methods'[versions[d].methods] = next
          /\ \A k \in 1..Len(methods) : k # versions[d].methods => methods'[k] = methods[k]
        BY ListChanges
    <1>2. CASE l = versions[d].methods
        BY <1>1, <1>2
    <1>3. CASE l # versions[d].methods
        <2>1. methods'[l] = methods[l] /\ Told(methods[l], Len(versions), taken) /\ methods[l] \in Seq(Methods) /\ Len(versions) \in Nat
            BY <1>1, <1>3 DEF DocInv
        <2> DEFINE list == methods[l]
                   v == Len(versions)
        <2>2. list \in Seq(Methods) /\ Told(list, v, taken) /\ v \in Nat
            BY <2>1
        <2> HIDE DEF list, v
        <2>3. Told(list, v + 1, taken')
            BY <2>2, ToldLater
        <2> QED BY <2>1, <2>3 DEF list, v
    <1> QED BY <1>2, <1>3

LEMMA AddKeeps ==
    ASSUME DocInv, NEW d \in DOMAIN versions, NEW id, NEW related \in BOOLEAN, AddKey(d, id, related)
    PROVE  DocInv'
    <1> DEFINE list == methods[versions[d].methods]
               refs == references[versions[d].references]
               next == Append(list, Method(id))
               v == Len(versions)
    <1>0. /\ d \in 1..v /\ v \in Nat /\ v >= 1 /\ versions[d] \in Copies
          /\ Len(methods) \in Nat /\ Len(references) \in Nat
          /\ versions[d].methods \in 1..Len(methods) /\ versions[d].references \in 1..Len(references)
          /\ list \in Seq(Methods) /\ refs \in SUBSET Nat
        BY DocFacts
    <1>1. /\ Returns(d, versions[d]) /\ Change(d, next) /\ v < MaxVersions
          /\ references' = IF related THEN [references EXCEPT ![versions[d].references] = @ \cup {id}] ELSE references
          /\ id \in 1..MaxOwnIds \cup {Len(list) + 1}
          /\ chosen' = (chosen \/ id # Len(list) + 1) /\ taken' = taken /\ rushed' = rushed
        BY DEF AddKey, Returns, Gives, DefaultId
    <1>2. id \in Nat /\ Method(id) \in Methods /\ Method(id).id = id
        BY <1>0, <1>1, DocAssumptions, MethodIsKey
    <1>3. /\ next \in Seq(Methods) /\ Len(next) = Len(list) + 1 /\ next[Len(list) + 1] = Method(id)
          /\ \A j \in 1..Len(list) : next[j] = list[j]
        BY <1>0, <1>2, ExtendedList
    <1>4. /\ methods' \in Seq(Seq(Methods)) /\ Len(methods') = Len(methods) /\ methods'[versions[d].methods] = next
        <2> HIDE DEF next
        <2> QED BY <1>1, <1>3, ListChanges
    <1>5. /\ references' \in Seq(SUBSET Nat) /\ Len(references') = Len(references)
          /\ references'[versions[d].references] \in {refs, refs \cup {id}}
        <2>1. references \in Seq(SUBSET Nat)
            BY DEF DocInv
        <2> DEFINE m == versions[d].references
        <2>2. m \in 1..Len(references) /\ references[m] = refs
            BY <1>0
        <2>3. references' = IF related THEN [references EXCEPT ![m] = refs \cup {id}] ELSE references
            BY <1>1
        <2> HIDE DEF m, refs
        <2>4. refs \cup {id} \in SUBSET Nat
            BY <1>0, <1>2
        <2>5. /\ references' \in Seq(SUBSET Nat) /\ Len(references') = Len(references)
              /\ references'[m] \in {refs, refs \cup {id}}
            BY <2>1, <2>2, <2>3, <2>4
        <2> QED BY <2>5 DEF m
    <1>6. ASSUME ~branched, d = v PROVE Live(references'[versions[d].references], methods'[versions[d].methods])
        <2>1. Live(refs, list)
            BY <1>6 DEF DocInv
        <2>2. Live(refs \cup {id}, next)
            <3> SUFFICES ASSUME NEW r \in refs \cup {id} PROVE \E i \in 1..Len(next) : next[i] = Method(r)
                BY DEF Live
            <3>1. Len(list) \in Nat
                BY <1>0
            <3>2. CASE r \in refs
                <4>1. PICK i \in 1..Len(list) : list[i] = Method(r)
                    BY <2>1, <3>2 DEF Live
                <4>2. i \in 1..Len(next) /\ next[i] = Method(r)
                    BY <1>3, <3>1, <4>1
                <4> QED BY <4>2
            <3>3. CASE r = id
                <4>1. Len(list) + 1 \in 1..Len(next)
                    BY <1>3, <3>1
                <4> QED BY <1>3, <3>3, <4>1
            <3> QED BY <3>2, <3>3
        <2>3. Live(refs, next)
            BY <2>2 DEF Live
        <2> QED BY <1>4, <1>5, <2>2, <2>3
    <1>7. ASSUME Own' PROVE \A l \in 1..Len(methods') : Told(methods'[l], Len(versions) + 1, taken')
        <2>1. Own /\ id = Len(list) + 1 /\ taken \in SUBSET TimeIds
            BY <1>1, <1>7 DEF Own, DocInv
        <2>2. Told(list, v, taken)
            BY <1>0, <2>1 DEF DocInv
        <2>3. Told(next, v + 1, taken')
            <3>1. next[Len(list) + 1].id = id /\ \A j \in 1..Len(list) : next[j].id = list[j].id
                BY <1>2, <1>3
            <3> HIDE DEF next, list, v
            <3> QED BY <1>0, <1>1, <1>2, <1>3, <2>1, <2>2, <3>1, ToldAdded
        <2> HIDE DEF next
        <2> QED BY <1>1, <1>3, <2>1, <2>3, ListsTold
    <1>8. chosen' \in BOOLEAN /\ rushed' \in BOOLEAN /\ taken' \subseteq TimeIds
        BY <1>1 DEF DocInv
    <1>9. Len(methods) <= Len(methods') /\ Len(references) <= Len(references')
        BY <1>0, <1>4, <1>5
    <1> HIDE DEF next, list, refs, v
    <1> QED BY <1>0, <1>1, <1>4, <1>5, <1>6, <1>7, <1>8, <1>9, DocMoves DEF v

LEMMA KeyListed ==
    ASSUME DocInv, NEW d \in DOMAIN versions, NEW id \in Ids(d)
    PROVE  LET list == methods[versions[d].methods] IN
           id \in Nat /\ IndexOf(list, id) \in 1..Len(list) /\ list[IndexOf(list, id)].id = id
    <1> DEFINE list == methods[versions[d].methods]
    <1>1. list \in Seq(Methods)
        BY DocFacts
    <1>2. \E m \in 1..Len(list) : list[m].id = id
        BY <1>1 DEF Ids, ToSet
    <1>3. id \in Nat
        <2> HIDE DEF list
        <2>1. PICK m \in 1..Len(list) : list[m].id = id
            BY <1>2
        <2>2. list[m] \in Methods
            BY <1>1
        <2> QED BY <2>1, <2>2 DEF Methods
    <1> HIDE DEF list
    <1>4. IndexOf(list, id) \in 1..Len(list) /\ list[IndexOf(list, id)].id = id
        BY <1>1, <1>2, IndexFound
    <1> QED BY <1>3, <1>4 DEF list

LEMMA RotateKeeps ==
    ASSUME DocInv, NEW d \in DOMAIN versions, NEW old, NEW new, NEW keep \in BOOLEAN,
           RotateKey(d, old, new, keep)
    PROVE  DocInv'
    <1> DEFINE list == methods[versions[d].methods]
               refs == references[versions[d].references]
               v == Len(versions)
               i == IndexOf(list, old)
               marked == [list EXCEPT ![i].revoked = TRUE]
               next == IF keep THEN Append(marked, Method(new)) ELSE [list EXCEPT ![i] = Method(new)]
               renamed == {IF r = old THEN new ELSE r : r \in refs}
    <1>0. /\ d \in 1..v /\ v \in Nat /\ v >= 1 /\ versions[d] \in Copies
          /\ Len(methods) \in Nat /\ Len(references) \in Nat
          /\ versions[d].methods \in 1..Len(methods) /\ versions[d].references \in 1..Len(references)
          /\ list \in Seq(Methods) /\ refs \in SUBSET Nat
        BY DocFacts
    <1>1. /\ Returns(d, versions[d]) /\ Change(d, next) /\ v < MaxVersions /\ old \in Ids(d)
          /\ references' = [references EXCEPT ![versions[d].references] = renamed]
          /\ new \in 1..MaxOwnIds \cup TimeIds /\ chosen' = (chosen \/ new \notin TimeIds)
          /\ taken' = taken \cup ({new} \cap TimeIds) /\ rushed' = (rushed \/ new \in taken)
        BY DEF RotateKey, Returns, Gives
    <1>2. new \in Nat /\ Method(new) \in Methods /\ Method(new).id = new
        <2>1. new \in Nat
            BY <1>1, DocAssumptions, DocumentsAssumption DEF TimeIds
        <2> QED BY <2>1, MethodIsKey
    <1>3. i \in 1..Len(list) /\ list[i].id = old /\ old \in Nat
        BY <1>1, KeyListed
    <1>4. /\ marked \in Seq(Methods) /\ Len(marked) = Len(list)
          /\ \A j \in 1..Len(list) : marked[j].id = list[j].id
          /\ \A j \in 1..Len(list) : j # i => marked[j] = list[j]
        <2> HIDE DEF i, list
        <2> DEFINE r == [list[i] EXCEPT !.revoked = TRUE]
        <2>1. list[i] \in Methods
            BY <1>0, <1>3
        <2>2. r \in Methods /\ r.id = list[i].id
            BY <2>1, MarkedKey
        <2>3. marked = [list EXCEPT ![i] = r]
            OBVIOUS
        <2> HIDE DEF r, marked
        <2>4. LET n == [list EXCEPT ![i] = r]
              IN  /\ n \in Seq(Methods) /\ Len(n) = Len(list) /\ n[i] = r
                  /\ \A j \in 1..Len(list) : j # i => n[j] = list[j]
            BY <1>0, <1>3, <2>2, ReplacedList
        <2> QED BY <2>2, <2>3, <2>4
    <1>5. keep => /\ next \in Seq(Methods) /\ Len(next) = Len(list) + 1 /\ next[Len(list) + 1] = Method(new)
                  /\ \A j \in 1..Len(list) : next[j] = marked[j]
        <2> HIDE DEF marked
        <2>1. LET n == Append(marked, Method(new))
              IN  /\ n \in Seq(Methods) /\ Len(n) = Len(marked) + 1 /\ n[Len(marked) + 1] = Method(new)
                  /\ \A j \in 1..Len(marked) : n[j] = marked[j]
            BY <1>2, <1>4, ExtendedList
        <2> QED BY <1>4, <2>1
    <1>6. ~keep => /\ next \in Seq(Methods) /\ Len(next) = Len(list) /\ next[i] = Method(new)
                   /\ \A j \in 1..Len(list) : j # i => next[j] = list[j]
        <2> HIDE DEF i, list
        <2>1. LET n == [list EXCEPT ![i] = Method(new)]
              IN  /\ n \in Seq(Methods) /\ Len(n) = Len(list) /\ n[i] = Method(new)
                  /\ \A j \in 1..Len(list) : j # i => n[j] = list[j]
            BY <1>0, <1>2, <1>3, ReplacedList
        <2> QED BY <2>1
    <1>7. next \in Seq(Methods)
        BY <1>5, <1>6
    <1>8. /\ methods' \in Seq(Seq(Methods)) /\ Len(methods') = Len(methods) /\ methods'[versions[d].methods] = next
        <2> HIDE DEF next
        <2> QED BY <1>1, <1>7, ListChanges
    <1>9. /\ references' \in Seq(SUBSET Nat) /\ Len(references') = Len(references)
          /\ references'[versions[d].references] = renamed
        <2>1. references \in Seq(SUBSET Nat)
            BY DEF DocInv
        <2> DEFINE m == versions[d].references
        <2>2. m \in 1..Len(references)
            BY <1>0
        <2>3. references' = [references EXCEPT ![m] = renamed]
            BY <1>1
        <2>4. renamed \in SUBSET Nat
            BY <1>0, <1>2
        <2> HIDE DEF m, renamed
        <2>5. /\ references' \in Seq(SUBSET Nat) /\ Len(references') = Len(references)
              /\ references'[m] = renamed
            BY <2>1, <2>2, <2>3, <2>4
        <2> QED BY <2>5 DEF m
    <1>10. ASSUME ~branched, d = v PROVE Live(renamed, next)
        <2>1. Live(refs, list)
            BY <1>10 DEF DocInv
        <2>2. Len(list) \in Nat
            BY <1>0
        <2>3. \E k \in 1..Len(next) : next[k] = Method(new)
            <3>1. CASE keep
                <4>1. Len(list) + 1 \in 1..Len(next)
                    BY <1>5, <2>2, <3>1
                <4> QED BY <1>5, <3>1, <4>1
            <3>2. CASE ~keep
                BY <1>3, <1>6, <3>2
            <3> QED BY <3>1, <3>2
        <2>4. ASSUME NEW r \in refs, r # old PROVE \E k \in 1..Len(next) : next[k] = Method(r)
            <3>1. PICK k \in 1..Len(list) : list[k] = Method(r)
                BY <2>1, <2>4 DEF Live
            <3>2. k # i
                BY <1>3, <2>4, <3>1 DEF Method
            <3>3. k \in 1..Len(next) /\ next[k] = Method(r)
                <4>1. CASE keep
                    BY <1>4, <1>5, <2>2, <3>1, <3>2, <4>1
                <4>2. CASE ~keep
                    BY <1>6, <2>2, <3>1, <3>2, <4>2
                <4> QED BY <4>1, <4>2
            <3> QED BY <3>3
        <2> HIDE DEF next
        <2>5. ASSUME NEW r \in renamed PROVE \E k \in 1..Len(next) : next[k] = Method(r)
            <3>1. r = new \/ (r \in refs /\ r # old)
                BY <2>5
            <3> QED BY <2>3, <2>4, <3>1
        <2> QED BY <2>5 DEF Live
    <1>11. ASSUME Own' PROVE \A l \in 1..Len(methods') : Told(methods'[l], Len(versions) + 1, taken')
        <2>1. Own /\ new \in taken' \ taken /\ taken \in SUBSET TimeIds /\ taken' \in SUBSET TimeIds /\ taken \subseteq taken'
            BY <1>1, <1>11 DEF Own, DocInv
        <2>2. Told(list, v, taken)
            BY <1>0, <2>1 DEF DocInv
        <2>3. Told(next, v + 1, taken')
            <3>1. CASE keep
                <4>1. next[Len(list) + 1].id = new /\ \A j \in 1..Len(list) : next[j].id = list[j].id
                    BY <1>2, <1>4, <1>5, <3>1
                <4>2. next \in Seq(Methods) /\ Len(next) = Len(list) + 1
                    BY <1>5, <3>1
                <4> HIDE DEF next, list, v
                <4> QED BY <1>0, <1>1, <1>2, <2>1, <2>2, <4>1, <4>2, ToldAdded
            <3>2. CASE ~keep
                <4>1. /\ next \in Seq(Methods) /\ Len(next) = Len(list) /\ next[i].id = new
                      /\ \A j \in 1..Len(list) : j # i => next[j].id = list[j].id
                    BY <1>2, <1>6, <2>1, <3>2
                <4> HIDE DEF next, list, v, i
                <4> QED BY <1>0, <1>1, <1>3, <2>1, <2>2, <4>1, ToldReplaced
            <3> QED BY <3>1, <3>2
        <2> HIDE DEF next
        <2> QED BY <1>1, <1>7, <2>1, <2>3, ListsTold
    <1>12. chosen' \in BOOLEAN /\ rushed' \in BOOLEAN /\ taken' \subseteq TimeIds
        BY <1>1 DEF DocInv
    <1>13. Len(methods) <= Len(methods') /\ Len(references) <= Len(references')
        BY <1>0, <1>8, <1>9
    <1> HIDE DEF next, list, refs, v, renamed, i, marked
    <1> QED BY <1>0, <1>1, <1>8, <1>9, <1>10, <1>11, <1>12, <1>13, DocMoves DEF v

LEMMA RevokeKeeps ==
    ASSUME DocInv, NEW d \in DOMAIN versions, NEW id, RevokeKey(d, id)
    PROVE  DocInv'
    <1> DEFINE list == methods[versions[d].methods]
               refs == references[versions[d].references]
               v == Len(versions)
               i == IndexOf(list, id)
               marked == [list EXCEPT ![i].revoked = TRUE]
               copy == [versions[d] EXCEPT !.references = Len(references) + 1]
    <1>0. /\ d \in 1..v /\ v \in Nat /\ v >= 1 /\ versions[d] \in Copies
          /\ Len(methods) \in Nat /\ Len(references) \in Nat
          /\ versions[d].methods \in 1..Len(methods) /\ versions[d].references \in 1..Len(references)
          /\ list \in Seq(Methods) /\ refs \in SUBSET Nat
        BY DocFacts
    <1>1. /\ Returns(d, copy) /\ Change(d, marked) /\ id \in Ids(d)
          /\ references' = Append(references, refs \ {id}) /\ chosen' = chosen /\ rushed' = rushed /\ taken' = taken
        BY DEF RevokeKey, DropReferences
    <1>2. i \in 1..Len(list) /\ list[i].id = id
        BY <1>1, KeyListed
    <1>3. /\ marked \in Seq(Methods) /\ Len(marked) = Len(list)
          /\ \A j \in 1..Len(list) : marked[j].id = list[j].id
          /\ \A j \in 1..Len(list) : j # i => marked[j] = list[j]
        <2> HIDE DEF i, list
        <2> DEFINE r == [list[i] EXCEPT !.revoked = TRUE]
        <2>1. list[i] \in Methods
            BY <1>0, <1>2
        <2>2. r \in Methods /\ r.id = list[i].id
            BY <2>1, MarkedKey
        <2>3. marked = [list EXCEPT ![i] = r]
            OBVIOUS
        <2> HIDE DEF r, marked
        <2>4. LET n == [list EXCEPT ![i] = r]
              IN  /\ n \in Seq(Methods) /\ Len(n) = Len(list) /\ n[i] = r
                  /\ \A j \in 1..Len(list) : j # i => n[j] = list[j]
            BY <1>0, <1>2, <2>2, ReplacedList
        <2> QED BY <2>2, <2>3, <2>4
    <1>4. /\ methods' \in Seq(Seq(Methods)) /\ Len(methods') = Len(methods) /\ methods'[versions[d].methods] = marked
        <2> HIDE DEF marked
        <2> QED BY <1>1, <1>3, ListChanges
    <1>5. /\ copy \in Copies /\ copy.references = Len(references) + 1 /\ copy.methods = versions[d].methods
        BY <1>0 DEF Copies
    <1>6. /\ references' \in Seq(SUBSET Nat) /\ Len(references') = Len(references) + 1
          /\ references'[Len(references) + 1] = refs \ {id}
        <2>1. references \in Seq(SUBSET Nat) /\ refs \ {id} \in SUBSET Nat
            BY <1>0 DEF DocInv
        <2> DEFINE left == refs \ {id}
        <2>2. references' = Append(references, left) /\ left \in SUBSET Nat
            BY <1>1, <2>1
        <2> HIDE DEF left
        <2>3. /\ references' \in Seq(SUBSET Nat) /\ Len(references') = Len(references) + 1
              /\ references'[Len(references) + 1] = left
            BY <2>1, <2>2
        <2> QED BY <2>3 DEF left
    <1>7. ASSUME ~branched, d = v PROVE Live(refs \ {id}, marked)
        <2>1. Live(refs, list)
            BY <1>7 DEF DocInv
        <2>2. ASSUME NEW r \in refs \ {id} PROVE \E k \in 1..Len(marked) : marked[k] = Method(r)
            <3>1. PICK k \in 1..Len(list) : list[k] = Method(r)
                BY <2>1, <2>2 DEF Live
            <3>2. k # i
                BY <1>2, <2>2, <3>1 DEF Method
            <3> QED BY <1>3, <3>1, <3>2
        <2> QED BY <2>2 DEF Live
    <1>8. ASSUME Own' PROVE \A l \in 1..Len(methods') : Told(methods'[l], Len(versions) + 1, taken')
        <2>1. Told(list, v, taken) /\ Own
            BY <1>0, <1>1, <1>8 DEF DocInv, Own
        <2>2. Told(list, v + 1, taken')
            <3> HIDE DEF list, v
            <3> QED BY <1>0, <1>1, <2>1, ToldLater
        <2>3. Told(marked, v + 1, taken')
            <3> HIDE DEF marked, list, v, i
            <3> QED BY <1>3, <2>2 DEF Told
        <2> HIDE DEF marked
        <2> QED BY <1>1, <1>3, <2>1, <2>3, ListsTold
    <1>9. /\ Len(methods) <= Len(methods') /\ Len(references) <= Len(references')
          /\ chosen' \in BOOLEAN /\ rushed' \in BOOLEAN /\ taken' \subseteq TimeIds
          /\ copy.methods \in 1..Len(methods') /\ copy.references \in 1..Len(references')
        BY <1>0, <1>1, <1>4, <1>5, <1>6 DEF DocInv
    <1>10. ~branched /\ d = Len(versions) => Live(references'[copy.references], methods'[copy.methods])
        BY <1>4, <1>5, <1>6, <1>7
    <1> HIDE DEF marked, list, refs, v, i, copy
    <1> QED BY <1>1, <1>4, <1>5, <1>6, <1>8, <1>9, <1>10, DocMoves

LEMMA OthersTold ==
    ASSUME DocInv, Own, taken' = taken
    PROVE  \A l \in 1..Len(methods) : Told(methods[l], Len(versions) + 1, taken')
    <1> TAKE l \in 1..Len(methods)
    <1> DEFINE list == methods[l]
               v == Len(versions)
    <1>1. list \in Seq(Methods) /\ Told(list, v, taken) /\ v \in Nat
        BY DEF DocInv
    <1> HIDE DEF list, v
    <1>2. Told(list, v + 1, taken')
        BY <1>1, ToldLater
    <1> QED BY <1>2 DEF list, v

LEMMA DeactivateKeeps ==
    ASSUME DocInv, NEW d \in DOMAIN versions, Deactivate(d)
    PROVE  DocInv'
    <1> DEFINE copy == [versions[d] EXCEPT !.deactivated = TRUE]
    <1>0. /\ d \in 1..Len(versions) /\ versions[d] \in Copies
          /\ Len(methods) \in Nat /\ Len(references) \in Nat
          /\ versions[d].methods \in 1..Len(methods) /\ versions[d].references \in 1..Len(references)
        BY DocFacts
    <1>1. Returns(d, copy) /\ methods' = methods /\ references' = references /\ chosen' = chosen /\ rushed' = rushed /\ taken' = taken
        BY DEF Deactivate
    <1>2. copy \in Copies /\ copy.methods = versions[d].methods /\ copy.references = versions[d].references
        BY <1>0 DEF Copies
    <1>3. ~branched /\ d = Len(versions) => Live(references[versions[d].references], methods[versions[d].methods])
        BY DEF DocInv
    <1>4. methods \in Seq(Seq(Methods)) /\ references \in Seq(SUBSET Nat) /\ chosen \in BOOLEAN /\ rushed \in BOOLEAN
          /\ taken \subseteq TimeIds /\ (Own' => Own)
        BY <1>1 DEF DocInv, Own
    <1>5. Len(methods) <= Len(methods) /\ Len(references) <= Len(references)
        BY <1>0
    <1>6. Own => \A l \in 1..Len(methods) : Told(methods[l], Len(versions) + 1, taken')
        BY <1>1, OthersTold
    <1> HIDE DEF copy
    <1> QED BY <1>0, <1>1, <1>2, <1>3, <1>4, <1>5, <1>6, DocMoves

LEMMA RestoreKeeps ==
    ASSUME DocInv, NEW d \in DOMAIN versions, Restore(d)
    PROVE  DocInv'
    <1> DEFINE copy == [versions[d] EXCEPT !.methods = Len(methods) + 1, !.references = Len(references) + 1]
               list == methods[versions[d].methods]
               refs == references[versions[d].references]
    <1>0. /\ d \in 1..Len(versions) /\ versions[d] \in Copies
          /\ Len(methods) \in Nat /\ Len(references) \in Nat
          /\ versions[d].methods \in 1..Len(methods) /\ versions[d].references \in 1..Len(references)
          /\ list \in Seq(Methods) /\ refs \in SUBSET Nat
        BY DocFacts
    <1>1. Returns(d, copy) /\ methods' = Append(methods, list) /\ references' = Append(references, refs)
          /\ chosen' = chosen /\ rushed' = rushed /\ taken' = taken
        BY DEF Restore
    <1>2. copy \in Copies /\ copy.methods = Len(methods) + 1 /\ copy.references = Len(references) + 1
        <2> DEFINE half == [versions[d] EXCEPT !.methods = Len(methods) + 1]
        <2>1. half \in Copies /\ half.methods = Len(methods) + 1
            BY <1>0 DEF Copies
        <2>2. copy = [half EXCEPT !.references = Len(references) + 1]
            OBVIOUS
        <2> HIDE DEF half, copy
        <2> QED BY <1>0, <2>1, <2>2 DEF Copies
    <1>3. methods \in Seq(Seq(Methods)) /\ references \in Seq(SUBSET Nat) /\ chosen \in BOOLEAN /\ rushed \in BOOLEAN
          /\ taken \subseteq TimeIds /\ (Own' => Own)
        BY <1>1 DEF DocInv, Own
    <1>t. Own => (\A l \in 1..Len(methods) : Told(methods[l], Len(versions) + 1, taken')) /\ Told(list, Len(versions) + 1, taken')
        BY <1>0, <1>1, OthersTold
    <1>l. ~branched /\ d = Len(versions) => Live(refs, list)
        BY DEF DocInv
    <1> HIDE DEF copy, list, refs
    <1>4. /\ methods' \in Seq(Seq(Methods)) /\ Len(methods') = Len(methods) + 1 /\ methods'[Len(methods) + 1] = list
          /\ \A l \in 1..Len(methods) : methods'[l] = methods[l]
        BY <1>0, <1>1, <1>3
    <1>5. /\ references' \in Seq(SUBSET Nat) /\ Len(references') = Len(references) + 1
          /\ references'[Len(references) + 1] = refs
        BY <1>0, <1>1, <1>3
    <1>6. ~branched /\ d = Len(versions) => Live(references'[copy.references], methods'[copy.methods])
        BY <1>2, <1>4, <1>5, <1>l
    <1>7. ASSUME Own' PROVE \A l \in 1..Len(methods') : Told(methods'[l], Len(versions) + 1, taken')
        <2> TAKE l \in 1..Len(methods')
        <2>1. l \in 1..Len(methods) \/ l = Len(methods) + 1
            BY <1>0, <1>4
        <2> QED BY <1>1, <1>3, <1>4, <1>7, <1>t, <2>1
    <1>8. /\ Len(methods) <= Len(methods') /\ Len(references) <= Len(references')
          /\ chosen' \in BOOLEAN /\ rushed' \in BOOLEAN /\ taken' \subseteq TimeIds
          /\ copy.methods \in 1..Len(methods') /\ copy.references \in 1..Len(references')
        BY <1>0, <1>1, <1>2, <1>3, <1>4, <1>5
    <1> QED BY <1>1, <1>2, <1>4, <1>5, <1>6, <1>7, <1>8, DocMoves

LEMMA DocStart ==
    ASSUME DocumentsInit
    PROVE  DocInv
    <1> DEFINE c == [methods |-> 1, references |-> 1, deactivated |-> FALSE]
               l == <<Method(1)>>
               r == {1}
    <1>1. versions = <<c>> /\ methods = <<l>> /\ references = <<r>> /\ branched = FALSE /\ chosen = FALSE
          /\ rushed = FALSE /\ taken = {}
        BY DEF DocumentsInit
    <1>2. c \in Copies /\ c.methods = 1 /\ c.references = 1
        BY DEF Copies
    <1>3. l \in Seq(Methods) /\ Len(l) = 1 /\ l[1] = Method(1)
        BY MethodIsKey
    <1>4. r \in SUBSET Nat
        OBVIOUS
    <1>5. Live(r, l)
        <2>1. \E i \in 1..Len(l) : l[i] = Method(1)
            <3>1. 1 \in 1..Len(l)
                BY <1>3
            <3> QED BY <1>3, <3>1
        <2> HIDE DEF l
        <2> QED BY <2>1 DEF Live
    <1>6. Told(l, 1, {})
        <2>1. l[1].id = 1
            BY <1>3, MethodIsKey
        <2> HIDE DEF l
        <2> QED BY <1>3, <2>1 DEF Told
    <1> HIDE DEF c, l, r
    <1>7. versions \in Seq(Copies) /\ Len(versions) = 1 /\ versions[1] = c
        BY <1>1, <1>2
    <1>8. methods \in Seq(Seq(Methods)) /\ Len(methods) = 1 /\ methods[1] = l
        BY <1>1, <1>3
    <1>9. references \in Seq(SUBSET Nat) /\ Len(references) = 1 /\ references[1] = r
        BY <1>1, <1>4
    <1>10. Len(versions) \in 1..MaxVersions
        BY <1>7, DocAssumptions
    <1>11. \A d \in 1..Len(versions) :
             versions[d].methods \in 1..Len(methods) /\ versions[d].references \in 1..Len(references)
        BY <1>2, <1>7, <1>8, <1>9
    <1>12. Live(references[versions[Len(versions)].references], methods[versions[Len(versions)].methods])
        BY <1>2, <1>5, <1>7, <1>8, <1>9
    <1>13. \A k \in 1..Len(methods) : Told(methods[k], Len(versions), taken)
        BY <1>1, <1>6, <1>7, <1>8
    <1> QED BY <1>1, <1>7, <1>8, <1>9, <1>10, <1>11, <1>12, <1>13 DEF DocInv

LEMMA DocStep ==
    ASSUME DocInv, [DocumentsNext]_documentVars
    PROVE  DocInv'
    <1>1. CASE UNCHANGED documentVars
        BY <1>1 DEF DocInv, documentVars, Live, Told, Own, TimeIds
    <1>2. CASE DocumentsNext
        BY <1>2, AddKeeps, RotateKeeps, RevokeKeeps, DeactivateKeeps, RestoreKeeps DEF DocumentsNext
    <1> QED BY <1>1, <1>2

LEMMA DocInvariant == DocumentsSpec => []DocInv
    <1>1. DocumentsInit => DocInv
        BY DocStart
    <1>2. DocInv /\ [DocumentsNext]_documentVars => DocInv'
        BY DocStep
    <1> QED BY <1>1, <1>2, PTL DEF DocumentsSpec

\* Every document returned by the operations names lists that there are.
THEOREM DocumentsTypeCorrect == DocumentsSpec => []DocumentsTypeOK
    <1>1. DocInv => DocumentsTypeOK
        BY DEF DocInv, DocumentsTypeOK
    <1> QED BY <1>1, DocInvariant, PTL

\* Going on from the last document, adding, rotating and revoking keys in any
\* order never leaves a reference to a key that is revoked or not listed; and
\* the ids the operations choose never clash, although copies share their lists,
\* as long as no two rotations are in one millisecond (did-document.ts:168-215,
\* 242-332, 371-394).
THEOREM ReferencesStayLive == DocumentsSpec => []ReferencesLive
    <1>1. ASSUME DocInv PROVE ReferencesLive
        <2> DEFINE d == Len(versions)
                   list == methods[versions[d].methods]
        <2>1. d \in DOMAIN versions
            BY <1>1 DEF DocInv
        <2>2. list \in Seq(Methods)
            BY <1>1, <2>1, DocFacts
        <2>3. ASSUME ~branched, NEW id \in references[versions[d].references] PROVE Method(id) \in ToSet(list)
            <3>1. Live(references[versions[d].references], list)
                BY <1>1, <2>3 DEF DocInv
            <3>2. PICK i \in 1..Len(list) : list[i] = Method(id)
                BY <2>3, <3>1 DEF Live
            <3>3. i \in DOMAIN list
                BY <2>2
            <3> QED BY <3>2, <3>3 DEF ToSet
        <2>4. ASSUME ~chosen, ~rushed, NEW l \in DOMAIN methods
              PROVE  IsInjective([i \in DOMAIN methods[l] |-> methods[l][i].id])
            <3>1. l \in 1..Len(methods) /\ methods[l] \in Seq(Methods) /\ Told(methods[l], Len(versions), taken)
                BY <1>1, <2>4 DEF DocInv, Own
            <3>2. DOMAIN methods[l] = 1..Len(methods[l])
                BY <3>1
            <3>3. \A i, j \in DOMAIN methods[l] : methods[l][i].id = methods[l][j].id => i = j
                BY <3>1, <3>2 DEF Told
            <3> QED BY <3>3 DEF IsInjective
        <2> QED BY <2>3, <2>4 DEF ReferencesLive
    <1> QED BY <1>1, DocInvariant, PTL

-----------------------------------------------------------------------------
(***************************************************************************)
(* Synchronisation of the database.                                        *)
(***************************************************************************)
Mined(m) == {n \in Numbers : m[n] # 0}

Walk == [at : {"items"}, from : Nat, height : Nat, left : SUBSET Numbers]

\* What operation o holds when the chain is m blocks high h.
OperationTyped(o, h, m) ==
    /\ o = Idle \/ o.at \in {"list", "fetch", "items", "metadata"}
    /\ o.at \in {"list", "items", "metadata"} => o.left \subseteq Mined(m)
    /\ o.at \in {"fetch", "items", "metadata"} => o.from \in Nat /\ o.from <= h
    /\ o.at \in {"items", "metadata"} => o.height \in Nat /\ o.from <= o.height /\ o.height <= h
    /\ o.at = "items" => o \in Walk
    /\ o.at = "metadata" => o.of \in Mined(m) /\ o.of \in WithMetadata

\* n is in the database, in the list of its sat.
Placed(n, is, ls) == n \in is /\ n \in ls[SatOf[n]]
Whole(n, is, ls, ds) == Placed(n, is, ls) /\ (n \in WithMetadata => n \in ds)

\* What an operation that syncs has yet to store.
OperationAhead(o, m, is, ls, ds) ==
    /\ o.at = "fetch" => \A n \in Mined(m) : m[n] <= o.from => Whole(n, is, ls, ds)
    /\ o.at = "items" =>
          \A n \in Mined(m) : m[n] <= o.height => n \in o.left \/ Whole(n, is, ls, ds)
    /\ o.at = "metadata" =>
          /\ \A n \in Mined(m) : m[n] <= o.height => n \in o.left \cup {o.of} \/ Whole(n, is, ls, ds)
          /\ Placed(o.of, is, ls)

ExtractedTyped ==
    credentials \subseteq WithMetadata /\ documents \in [Sats -> WithMetadata \cup {NoNumber}]

StoreInv ==
    /\ tip \in 1..MaxHeight /\ tip \in Nat /\ made \in [Numbers -> 0..tip]
    /\ expiries \in 0..MaxExpiries /\ cut \in BOOLEAN
    /\ items \subseteq OnChain /\ ExtractedTyped
    /\ satItems = [s \in Sats |-> satItems[s]]
    /\ \A s \in Sats : satItems[s] \subseteq {n \in OnChain : SatOf[n] = s}
    /\ synced \in 0..tip /\ synced \in Nat

SyncInv ==
    /\ StoreInv
    /\ DOMAIN operation = SyncTasks
    /\ \A t \in SyncTasks : OperationTyped(operation[t], tip, made)
    /\ ~cut /\ expiries = 0 =>
          /\ \A n \in OnChain : made[n] <= synced => Whole(n, items, satItems, Kept)
          /\ \A t \in SyncTasks : OperationAhead(operation[t], made, items, satItems, Kept)

LEMMA HeightIsNat == MaxHeight \in Nat /\ SatOf \in [Numbers -> Sats] /\ WithMetadata \subseteq Numbers
BY SyncAssumption

LEMMA ExtractedStays ==
    ASSUME SyncInv, UNCHANGED extracted
    PROVE  Kept' = Kept /\ ExtractedTyped'
BY DEF extracted, Kept, ExtractedTyped, SyncInv, StoreInv

\* What was kept of metadata is not lost when one document takes the place of another.
LEMMA ExtractedKeeps ==
    ASSUME SyncInv, NEW t \in SyncTasks, Extracted(t), operation[t].of \in WithMetadata
    PROVE  Kept \subseteq Kept' /\ operation[t].of \in Kept' /\ ExtractedTyped'
<1>. DEFINE n == operation[t].of
            s == DidNamed[n]
<1>1. /\ documents' = (IF "document" \in Holding[n] THEN [documents EXCEPT ![s] = n] ELSE documents)
      /\ credentials' = (IF "credential" \in Holding[n] THEN credentials \cup {n} ELSE credentials)
  BY DEF Extracted
<1>2. s \in Sats /\ n # NoNumber /\ n \in WithMetadata /\ \A m \in WithMetadata : DidNamed[m] \in Sats
  BY SyncAssumption
<1>3. credentials \subseteq WithMetadata /\ documents \in [Sats -> WithMetadata \cup {NoNumber}]
  BY DEF SyncInv, StoreInv, ExtractedTyped
<1>. HIDE DEF n, s
<1>4. credentials \subseteq credentials' /\ credentials' \subseteq WithMetadata
  BY <1>1, <1>2, <1>3
<1>5. /\ documents' \in [Sats -> WithMetadata \cup {NoNumber}]
      /\ \A d \in Sats : documents[d] # NoNumber => documents'[d] # NoNumber
      /\ "document" \in Holding[n] => documents'[s] # NoNumber
  BY <1>1, <1>2, <1>3
<1>6. Kept \subseteq Kept'
  BY <1>2, <1>4, <1>5 DEF Kept
<1>7. n \in Kept'
  BY <1>1, <1>2, <1>5 DEF Kept, s
<1>. QED BY <1>4, <1>5, <1>6, <1>7 DEF n, ExtractedTyped

\* What an operation has stored stays, where nothing expiries.
LEMMA AheadStays ==
    ASSUME NEW o, NEW m, NEW is, NEW js, NEW ls, NEW ks, NEW ds, NEW es,
           is \subseteq js, ds \subseteq es, \A n \in Mined(m) : ls[SatOf[n]] \subseteq ks[SatOf[n]],
           o.at = "metadata" => o.of \in Mined(m),
           OperationAhead(o, m, is, ls, ds)
    PROVE  OperationAhead(o, m, js, ks, es)
<1>1. \A n \in Mined(m) : /\ Placed(n, is, ls) => Placed(n, js, ks)
                          /\ Whole(n, is, ls, ds) => Whole(n, js, ks, es)
  BY DEF Placed, Whole
<1>. QED BY <1>1 DEF OperationAhead

\* A step of operation t that only adds to the database.
LEMMA OperationStep ==
    ASSUME SyncInv, NEW t \in SyncTasks, NEW o, Become(t, o),
           UNCHANGED <<tip, made, expiries>>, cut => cut', cut' \in BOOLEAN,
           items \subseteq items', items' \subseteq OnChain,
           Kept \subseteq Kept', ExtractedTyped',
           satItems' = [s \in Sats |-> satItems'[s]],
           \A s \in Sats : /\ satItems[s] \subseteq satItems'[s]
                           /\ satItems'[s] \subseteq {n \in OnChain : SatOf[n] = s},
           synced' \in 0..tip,
           OperationTyped(o, tip, made),
           ~cut' /\ expiries = 0 => /\ OperationAhead(o, made, items', satItems', Kept')
                                /\ \A n \in OnChain : made[n] <= synced' =>
                                       Whole(n, items', satItems', Kept')
    PROVE  SyncInv'
<1>1. DOMAIN operation' = SyncTasks /\ operation'[t] = o
      /\ \A u \in SyncTasks \ {t} : operation'[u] = operation[u]
  BY DEF Become, SyncInv
<1>2. OnChain' = OnChain
  BY DEF OnChain
<1>3. StoreInv'
  <2>1. tip \in Nat
    BY DEF SyncInv, StoreInv
  <2>. QED BY <1>2, <2>1 DEF SyncInv, StoreInv
<1>4. \A u \in SyncTasks : OperationTyped(operation'[u], tip', made')
  BY <1>1 DEF SyncInv
<1>5. ASSUME ~cut', expiries' = 0, NEW u \in SyncTasks
      PROVE  OperationAhead(operation'[u], made', items', satItems', Kept')
  <2>1. CASE u = t
    BY <1>1, <1>5, <2>1
  <2>2. CASE u # t
    <3>1. operation'[u] = operation[u]
      BY <1>1, <2>2
    <3>2. OperationAhead(operation[u], made, items, satItems, Kept)
      BY <1>5 DEF SyncInv
    <3>3. \A n \in Mined(made) : satItems[SatOf[n]] \subseteq satItems'[SatOf[n]]
      BY HeightIsNat DEF Mined
    <3>4. operation[u].at = "metadata" => operation[u].of \in Mined(made)
      BY DEF SyncInv, OperationTyped, Idle
    <3>. QED BY <3>1, <3>2, <3>3, <3>4, AheadStays
  <2>. QED BY <2>1, <2>2
<1>. QED BY <1>1, <1>2, <1>3, <1>4, <1>5 DEF SyncInv

\* The same, when the height stays.
LEMMA OperationMoves ==
    ASSUME SyncInv, NEW t \in SyncTasks, NEW o, Become(t, o),
           UNCHANGED <<tip, made, expiries, synced>>, cut => cut', cut' \in BOOLEAN,
           items \subseteq items', items' \subseteq OnChain,
           Kept \subseteq Kept', ExtractedTyped',
           satItems' = [s \in Sats |-> satItems'[s]],
           \A s \in Sats : /\ satItems[s] \subseteq satItems'[s]
                           /\ satItems'[s] \subseteq {n \in OnChain : SatOf[n] = s},
           OperationTyped(o, tip, made),
           ~cut' /\ expiries = 0 => OperationAhead(o, made, items', satItems', Kept')
    PROVE  SyncInv'
<1>1. ASSUME ~cut', expiries = 0, NEW n \in OnChain, made[n] <= synced'
      PROVE  Whole(n, items', satItems', Kept')
  <2>1. Whole(n, items, satItems, Kept)
    BY <1>1 DEF SyncInv
  <2>2. SatOf[n] \in Sats
    BY HeightIsNat DEF OnChain
  <2>. QED BY <2>1, <2>2 DEF Whole, Placed
<1>2. synced' \in 0..tip
  BY DEF SyncInv, StoreInv
<1>. QED BY <1>1, <1>2, OperationStep

LEMMA PlaceKeeps ==
    ASSUME SyncInv, NEW n \in OnChain, StoreItem(n)
    PROVE  /\ items \subseteq items' /\ items' \subseteq OnChain
           /\ satItems' = [s \in Sats |-> satItems'[s]]
           /\ \A s \in Sats : /\ satItems[s] \subseteq satItems'[s]
                              /\ satItems'[s] \subseteq {m \in OnChain : SatOf[m] = s}
           /\ Placed(n, items', satItems')
<1>1. SatOf[n] \in Sats
  BY HeightIsNat DEF OnChain
<1>2. /\ items' = items \cup {n}
      /\ satItems' = [satItems EXCEPT ![SatOf[n]] = satItems[SatOf[n]] \cup {n}]
  BY DEF StoreItem
<1>. QED BY <1>1, <1>2 DEF SyncInv, StoreInv, Placed

LEMMA IdleTyped == /\ \A h, m : OperationTyped(Idle, h, m)
                   /\ \A m, is, ls, ds : OperationAhead(Idle, m, is, ls, ds)
BY DEF OperationTyped, OperationAhead, Idle

LEMMA MineKeeps ==
    ASSUME SyncInv, NEW new \in SUBSET Numbers, Mine(new)
    PROVE  SyncInv'
<1>1. /\ tip \in Nat /\ tip' = tip + 1 /\ tip' \in 1..MaxHeight /\ tip' \in Nat
      /\ made' = [n \in Numbers |-> IF n \in new THEN tip' ELSE made[n]]
      /\ UNCHANGED <<expiries, items, satItems, synced, operation, cut>> /\ Kept' = Kept /\ ExtractedTyped'
  BY HeightIsNat, ExtractedStays DEF Mine, dbVars, SyncInv, StoreInv
<1>2. made \in [Numbers -> 0..tip] /\ new \cap OnChain = {}
  BY DEF Mine, SyncInv, StoreInv
<1>3. /\ \A n \in OnChain : n \in Numbers /\ made'[n] = made[n] /\ n \in OnChain'
      /\ \A n \in OnChain' \ OnChain : made'[n] = tip'
      /\ made' \in [Numbers -> 0..tip']
  BY <1>1, <1>2 DEF OnChain
<1>4. OnChain = Mined(made) /\ OnChain' = Mined(made')
  BY DEF OnChain, Mined
<1>5. StoreInv'
  <2>1. \A s \in Sats : satItems'[s] \subseteq {n \in OnChain' : SatOf[n] = s}
    BY <1>1, <1>3 DEF SyncInv, StoreInv
  <2>2. synced' \in 0..tip' /\ synced' \in Nat
    BY <1>1 DEF SyncInv, StoreInv
  <2>. QED BY <1>1, <1>3, <2>1, <2>2 DEF SyncInv, StoreInv
<1>6. ASSUME NEW t \in SyncTasks
      PROVE  OperationTyped(operation'[t], tip', made')
  <2>1. OperationTyped(operation[t], tip, made)
    BY DEF SyncInv
  <2>2. Mined(made) \subseteq Mined(made')
    BY <1>3, <1>4
  <2>. QED BY <1>1, <2>1, <2>2 DEF OperationTyped
<1>7. ASSUME ~cut', expiries' = 0, NEW t \in SyncTasks
      PROVE  OperationAhead(operation'[t], made', items', satItems', Kept')
  <2>. DEFINE o == operation[t]
  <2>1. OperationAhead(o, made, items, satItems, Kept) /\ OperationTyped(o, tip, made)
    BY <1>1, <1>7 DEF SyncInv
  <2>2. o.at \in {"fetch", "items", "metadata"} => o.from < tip'
    BY <1>1, <2>1 DEF OperationTyped
  <2>3. o.at \in {"items", "metadata"} => o.height < tip'
    BY <1>1, <2>1 DEF OperationTyped
  <2>. HIDE DEF o
  <2>4. o.at = "fetch" => \A n \in Mined(made') : made'[n] <= o.from => n \in Mined(made) /\ made'[n] = made[n]
    BY <1>1, <1>3, <1>4, <2>1, <2>2 DEF OperationTyped
  <2>5. o.at \in {"items", "metadata"} =>
           \A n \in Mined(made') : made'[n] <= o.height => n \in Mined(made) /\ made'[n] = made[n]
    BY <1>1, <1>3, <1>4, <2>1, <2>3 DEF OperationTyped
  <2>6. OperationAhead(o, made', items, satItems, Kept)
    BY <2>1, <2>4, <2>5 DEF OperationAhead
  <2>. QED BY <1>1, <2>6 DEF o
<1>8. ASSUME ~cut', expiries' = 0, NEW n \in OnChain', made'[n] <= synced'
      PROVE  Whole(n, items', satItems', Kept')
  <2>1. synced < tip' /\ synced \in Nat
    BY <1>1 DEF SyncInv, StoreInv
  <2>2. n \in OnChain /\ made'[n] = made[n]
    BY <1>1, <1>3, <1>8, <2>1
  <2>. QED BY <1>1, <1>8, <2>2 DEF SyncInv
<1>. QED BY <1>1, <1>5, <1>6, <1>7, <1>8 DEF SyncInv

LEMMA SyncInvNext ==
    ASSUME SyncInv, [SyncNext]_syncVars
    PROVE  SyncInv'
<1>0. /\ OnChain = Mined(made) /\ tip \in Nat
      /\ \A t \in SyncTasks : OperationTyped(operation[t], tip, made)
  BY DEF SyncInv, StoreInv, OnChain, Mined
<1>00. /\ satItems = [s \in Sats |-> satItems[s]] /\ items \subseteq OnChain /\ ExtractedTyped
       /\ \A s \in Sats : satItems[s] \subseteq {n \in OnChain : SatOf[n] = s}
       /\ synced \in 0..tip /\ cut \in BOOLEAN
  BY DEF SyncInv, StoreInv
<1>1. ASSUME NEW t \in SyncTasks, NEW looked \in SUBSET Numbers, Ask(t, looked)
      PROVE  SyncInv'
  <2>1. PICK page \in SUBSET looked : Become(t, [at |-> "list", left |-> page])
    BY <1>1 DEF Ask
  <2>2. looked \subseteq OnChain /\ UNCHANGED <<tip, made, expiries, items, satItems, synced, cut>> /\ Kept' = Kept /\ ExtractedTyped'
    BY <1>1, ExtractedStays DEF Ask, dbVars
  <2>. DEFINE o == [at |-> "list", left |-> page]
  <2>3. OperationTyped(o, tip, made) /\ OperationAhead(o, made, items, satItems, Kept)
    BY <1>0, <2>2 DEF OperationTyped, OperationAhead
  <2>. QED BY <1>00, <2>1, <2>2, <2>3, OperationMoves DEF SyncInv
<1>2. ASSUME NEW t \in SyncTasks, Listed(t)
      PROVE  SyncInv'
  <2>1. PICK n \in operation[t].left :
          /\ StoreItem(n)
          /\ LET left == operation[t].left \ {n}
             IN  Become(t, IF left = {} THEN Idle ELSE [at |-> "list", left |-> left])
    BY <1>2 DEF Listed
  <2>2. operation[t].left \subseteq OnChain
    BY <1>0, <1>2 DEF Listed, OperationTyped
  <2>3. UNCHANGED <<tip, made, expiries, synced, cut>> /\ UNCHANGED extracted
        /\ Kept' = Kept /\ ExtractedTyped'
    BY <1>2, ExtractedStays DEF Listed
  <2>. DEFINE o == IF operation[t].left \ {n} = {} THEN Idle
                   ELSE [at |-> "list", left |-> operation[t].left \ {n}]
  <2>4. OperationTyped(o, tip, made) /\ OperationAhead(o, made, items', satItems', Kept')
    BY <1>0, <2>2, IdleTyped DEF OperationTyped, OperationAhead
  <2>5. Become(t, o)
    BY <2>1
  <2>. HIDE DEF o
  <2>. QED BY <1>00, <2>1, <2>2, <2>3, <2>4, <2>5, PlaceKeeps, OperationMoves
<1>3. ASSUME NEW t \in SyncTasks, StartSync(t)
      PROVE  SyncInv'
  <2>. DEFINE o == [at |-> "fetch", from |-> synced]
  <2>1. Become(t, o) /\ UNCHANGED <<tip, made, expiries, items, satItems, synced, cut>> /\ Kept' = Kept /\ ExtractedTyped'
    BY <1>3, ExtractedStays DEF StartSync, dbVars
  <2>2. OperationTyped(o, tip, made)
    BY <1>0, <1>00 DEF OperationTyped
  <2>3. ~cut /\ expiries = 0 => OperationAhead(o, made, items, satItems, Kept)
    BY <1>0 DEF OperationAhead, SyncInv
  <2>. HIDE DEF o
  <2>. QED BY <1>00, <2>1, <2>2, <2>3, OperationMoves
<1>4. ASSUME NEW t \in SyncTasks, Fetched(t)
      PROVE  SyncInv'
  <2>. DEFINE from == operation[t].from
              all == {n \in OnChain : made[n] >= from}
  <2>1. PICK page \in SUBSET all, height \in {tip, from} :
          /\ Become(t, IF page = {} THEN Idle
                       ELSE [at |-> "items", from |-> from, height |-> height, left |-> page])
          /\ cut' = (cut \/ page # all)
    BY <1>4 DEF Fetched
  <2>2. operation[t].at = "fetch" /\ UNCHANGED <<tip, made, expiries, items, satItems, synced>> /\ Kept' = Kept /\ ExtractedTyped'
    BY <1>4, ExtractedStays DEF Fetched, dbVars
  <2>3. from \in Nat /\ from <= tip /\ height \in Nat /\ from <= height /\ height <= tip
    BY <1>0, <2>2 DEF OperationTyped
  <2>. DEFINE o == [at |-> "items", from |-> from, height |-> height, left |-> page]
  <2>4. OperationTyped(o, tip, made)
    <3>1. page \subseteq Mined(made) /\ page \subseteq Numbers
      BY <1>0 DEF Mined
    <3>2. o \in Walk
      BY <2>3, <3>1 DEF Walk
    <3>. QED BY <2>3, <3>1, <3>2 DEF OperationTyped
  <2>5. ~cut' /\ expiries = 0 => OperationAhead(o, made, items, satItems, Kept)
    <3>1. SUFFICES ASSUME ~cut', expiries = 0, NEW n \in Mined(made), made[n] <= height, n \notin page
          PROVE  Whole(n, items, satItems, Kept)
      BY DEF OperationAhead
    <3>2. page = all
      BY <2>1, <3>1
    <3>3. made[n] \in Nat
      BY <1>0 DEF SyncInv, StoreInv, Mined
    <3>4. made[n] <= from
      BY <1>0, <2>3, <3>1, <3>2, <3>3
    <3>5. OperationAhead(operation[t], made, items, satItems, Kept)
      BY <2>1, <3>1 DEF SyncInv
    <3>. QED BY <2>2, <3>4, <3>5 DEF OperationAhead
  <2>6. PICK p : /\ p = (IF page = {} THEN Idle ELSE o)
                 /\ OperationTyped(p, tip, made)
                 /\ ~cut' /\ expiries = 0 => OperationAhead(p, made, items, satItems, Kept)
    BY <2>4, <2>5, IdleTyped
  <2>7. Become(t, p)
    BY <2>1, <2>6
  <2>8. (cut => cut') /\ cut' \in BOOLEAN
    BY <1>00, <2>1
  <2>. HIDE DEF o, from, all
  <2>. QED BY <1>00, <2>2, <2>6, <2>7, <2>8, OperationMoves
<1>5. ASSUME NEW t \in SyncTasks, ItemStored(t)
      PROVE  SyncInv'
  <2>. DEFINE s == operation[t]
  <2>1. PICK n \in s.left :
          /\ StoreItem(n)
          /\ Become(t, IF n \in WithMetadata
                      THEN [at |-> "metadata", from |-> s.from, height |-> s.height,
                            left |-> s.left \ {n}, of |-> n]
                      ELSE [s EXCEPT !.left = s.left \ {n}])
    BY <1>5 DEF ItemStored
  <2>2. /\ s.at = "items" /\ UNCHANGED <<tip, made, expiries, synced, cut>> /\ UNCHANGED extracted
        /\ Kept' = Kept /\ ExtractedTyped'
        /\ OperationTyped(s, tip, made)
    BY <1>0, <1>5, ExtractedStays DEF ItemStored
  <2>3. s \in Walk /\ s.left \subseteq OnChain /\ n \in OnChain
    BY <1>0, <2>2 DEF OperationTyped
  <2>. DEFINE o == [at |-> "metadata", from |-> s.from, height |-> s.height,
                    left |-> s.left \ {n}, of |-> n]
              p == [s EXCEPT !.left = s.left \ {n}]
  <2>4. Placed(n, items', satItems')
    BY <2>1, <2>3, PlaceKeeps
  <2>5. ~cut /\ expiries = 0 => \A m \in Mined(made) : made[m] <= s.height =>
           m \in s.left \/ Whole(m, items', satItems', Kept)
    <3>1. SUFFICES ASSUME ~cut, expiries = 0, NEW m \in Mined(made), made[m] <= s.height, m \notin s.left
          PROVE  Whole(m, items', satItems', Kept)
      OBVIOUS
    <3>2. OperationAhead(s, made, items, satItems, Kept)
      BY <3>1 DEF SyncInv
    <3>3. Whole(m, items, satItems, Kept)
      BY <2>2, <3>1, <3>2 DEF OperationAhead
    <3>4. SatOf[m] \in Sats
      BY HeightIsNat DEF Mined
    <3>5. items \subseteq items' /\ satItems[SatOf[m]] \subseteq satItems'[SatOf[m]]
      BY <2>1, <2>3, <3>4, PlaceKeeps
    <3>. QED BY <3>3, <3>5 DEF Whole, Placed
  <2>6. CASE n \in WithMetadata
    <3>1. OperationTyped(o, tip, made)
      BY <1>0, <2>2, <2>3, <2>6 DEF OperationTyped
    <3>2. ~cut /\ expiries = 0 => OperationAhead(o, made, items', satItems', Kept)
      BY <2>4, <2>5 DEF OperationAhead
    <3>3. Become(t, o)
      BY <2>1, <2>6
    <3>. HIDE DEF o, s
    <3>. QED BY <1>00, <2>1, <2>2, <2>3, <3>1, <3>2, <3>3, PlaceKeeps, OperationMoves
  <2>7. CASE n \notin WithMetadata
    <3>1. p \in Walk /\ p.left = s.left \ {n} /\ p.at = "items" /\ p.from = s.from /\ p.height = s.height
      BY <2>2, <2>3 DEF Walk
    <3>2. Become(t, p)
      BY <2>1, <2>7
    <3>3. Whole(n, items', satItems', Kept)
      BY <2>4, <2>7 DEF Whole
    <3>. HIDE DEF p, s
    <3>4. OperationTyped(p, tip, made)
      BY <1>0, <2>2, <2>3, <3>1 DEF OperationTyped
    <3>5. ~cut /\ expiries = 0 => OperationAhead(p, made, items', satItems', Kept)
      BY <2>5, <3>1, <3>3 DEF OperationAhead
    <3>. QED BY <1>00, <2>1, <2>2, <2>3, <3>2, <3>4, <3>5, PlaceKeeps, OperationMoves
  <2>. QED BY <2>6, <2>7
<1>6. ASSUME NEW t \in SyncTasks, Extracted(t) \/ NoMetadata(t)
      PROVE  SyncInv'
  <2>. DEFINE s == operation[t]
              o == [at |-> "items", from |-> s.from, height |-> s.height, left |-> s.left]
  <2>1. /\ s.at = "metadata" /\ Become(t, o) /\ UNCHANGED <<tip, made, expiries, items, satItems, synced>>
        /\ OperationTyped(s, tip, made)
    BY <1>0, <1>6 DEF Extracted, NoMetadata, GoOn, dbVars
  <2>2. /\ Kept \subseteq Kept' /\ ExtractedTyped'
        /\ (~cut' => s.of \in Kept') /\ (cut => cut')
    <3>1. CASE Extracted(t)
      BY <2>1, <3>1, ExtractedKeeps DEF Extracted, OperationTyped
    <3>2. CASE NoMetadata(t)
      BY <3>2, ExtractedStays DEF NoMetadata, dbVars
    <3>. QED BY <1>6, <3>1, <3>2
  <2>3. OperationTyped(o, tip, made)
    <3>1. s.left \subseteq Numbers
      BY <2>1 DEF OperationTyped, Mined
    <3>2. o \in Walk
      BY <2>1, <3>1 DEF OperationTyped, Walk
    <3>. QED BY <2>1, <3>2 DEF OperationTyped
  <2>4. ~cut' /\ expiries = 0 => OperationAhead(o, made, items, satItems, Kept')
    <3>1. SUFFICES ASSUME ~cut', expiries = 0, NEW m \in Mined(made), made[m] <= s.height, m \notin s.left
          PROVE  Whole(m, items, satItems, Kept')
      BY DEF OperationAhead
    <3>2. OperationAhead(s, made, items, satItems, Kept)
      BY <2>2, <3>1, <1>00 DEF SyncInv
    <3>. QED BY <2>1, <2>2, <3>1, <3>2 DEF OperationAhead, Whole
  <2>. HIDE DEF o
  <2>5. (cut => cut') /\ cut' \in BOOLEAN
    BY <1>00, <1>6 DEF Extracted, NoMetadata
  <2>. QED BY <1>00, <2>1, <2>2, <2>3, <2>4, <2>5, OperationMoves
<1>7. ASSUME NEW t \in SyncTasks, SyncFails(t)
      PROVE  SyncInv'
  <2>1. Become(t, Idle) /\ UNCHANGED <<tip, made, expiries, items, satItems, synced, cut>> /\ Kept' = Kept /\ ExtractedTyped'
    BY <1>7, ExtractedStays DEF SyncFails, dbVars
  <2>. QED BY <1>00, <2>1, IdleTyped, OperationMoves
<1>8. ASSUME NEW t \in SyncTasks, Synced(t)
      PROVE  SyncInv'
  <2>. DEFINE s == operation[t]
  <2>1. /\ s.at = "items" /\ s.left = {} /\ synced' = (IF s.height > s.from THEN s.height ELSE synced)
        /\ Become(t, Idle) /\ UNCHANGED <<tip, made, expiries, items, satItems, cut>> /\ Kept' = Kept /\ ExtractedTyped'
        /\ OperationTyped(s, tip, made)
    BY <1>0, <1>8, ExtractedStays DEF Synced
  <2>2. s.height \in 0..tip
    BY <1>0, <2>1 DEF OperationTyped
  <2>3. synced' \in 0..tip
    BY <1>00, <2>1, <2>2
  <2>4. ASSUME ~cut, expiries = 0, NEW n \in OnChain, made[n] <= synced'
        PROVE  Whole(n, items, satItems, Kept)
    <3>1. CASE s.height > s.from
      <4>1. OperationAhead(s, made, items, satItems, Kept)
        BY <2>4 DEF SyncInv
      <4>2. made[n] <= s.height
        BY <2>1, <2>4, <3>1
      <4>. QED BY <1>0, <2>1, <4>1, <4>2 DEF OperationAhead
    <3>2. CASE ~(s.height > s.from)
      BY <2>1, <2>4, <3>2 DEF SyncInv
    <3>. QED BY <3>1, <3>2
  <2>. HIDE DEF s
  <2>. QED BY <1>00, <2>1, <2>3, <2>4, IdleTyped, OperationStep
<1>9. ASSUME Expire
      PROVE  SyncInv'
  <2>1. expiries' \in 0..MaxExpiries /\ expiries' # 0 /\ UNCHANGED <<tip, made, operation, cut>>
    BY <1>9, SyncAssumption DEF Expire, SyncInv, StoreInv
  <2>2. /\ items' \subseteq OnChain /\ satItems' = [s \in Sats |-> satItems'[s]]
        /\ \A s \in Sats : satItems'[s] \subseteq {n \in OnChain : SatOf[n] = s}
    BY <1>00, <1>9 DEF Expire
  <2>3. synced' \in 0..tip
    BY <1>0, <1>00, <1>9 DEF Expire
  <2>4. OnChain' = OnChain
    BY <2>1 DEF OnChain
  <2>x. ExtractedTyped'
    BY <1>9 DEF Expire, extracted, ExtractedTyped, SyncInv, StoreInv
  <2>5. StoreInv'
    BY <2>1, <2>2, <2>3, <2>4, <2>x DEF SyncInv, StoreInv
  <2>. QED BY <1>0, <2>1, <2>5 DEF SyncInv
<1>10. CASE UNCHANGED syncVars
  <2>1. UNCHANGED <<tip, made, expiries, items, satItems, synced, operation, cut>> /\ Kept' = Kept /\ ExtractedTyped' /\ OnChain' = OnChain
    BY <1>10, ExtractedStays DEF syncVars, dbVars, OnChain
  <2>2. StoreInv'
    BY <2>1 DEF SyncInv, StoreInv
  <2>. QED BY <2>1, <2>2 DEF SyncInv
<1>. QED
  BY <1>1, <1>2, <1>3, <1>4, <1>5, <1>6, <1>7, <1>8, <1>9, <1>10, MineKeeps DEF SyncNext

LEMMA SyncInvariant == SyncSpec => []SyncInv
<1>1. SyncInit => SyncInv
  <2>. SUFFICES ASSUME SyncInit PROVE SyncInv
    OBVIOUS
  <2>1. OnChain = {}
    BY DEF SyncInit, OnChain
  <2>2. StoreInv
    <3>0. MaxHeight \in Nat \ {0}
      BY SyncAssumption
    <3>1. tip \in 1..MaxHeight /\ tip \in Nat /\ synced \in 0..tip /\ synced \in Nat
      BY <3>0 DEF SyncInit
    <3>2. made \in [Numbers -> 0..tip]
      BY <3>0 DEF SyncInit
    <3>3. satItems = [s \in Sats |-> satItems[s]] /\ \A s \in Sats : satItems[s] = {}
      BY DEF SyncInit
    <3>4. expiries \in 0..MaxExpiries /\ ExtractedTyped
      BY SyncAssumption DEF SyncInit, ExtractedTyped
    <3>. QED BY <2>1, <3>1, <3>2, <3>3, <3>4 DEF SyncInit, StoreInv
  <2>. QED BY <2>1, <2>2, IdleTyped DEF SyncInit, SyncInv
<1>. QED BY <1>1, SyncInvNext, PTL DEF SyncSpec

\* The database and the synchronisations under way keep their types.
THEOREM SyncTypeCorrect == SyncSpec => []SyncTypeOK
<1>1. SyncInv => SyncTypeOK
  BY DEF SyncInv, StoreInv, ExtractedTyped, OperationTyped, SyncTypeOK, Idle
<1>. QED BY <1>1, SyncInvariant, PTL

\* What a synchronisation has counted as synced is in the database for as long as
\* its entries last, whatever is written beside it: the inscription, its credential,
\* and a document of the DID that its own names, which may be another inscription's
\* (ordinals-indexer.ts:465-588).
THEOREM SyncedStored == SyncSpec => []SyncedIsStored
<1>1. SyncInv => SyncedIsStored
  <2>. SUFFICES ASSUME SyncInv, ~cut, expiries = 0, NEW n \in OnChain, made[n] <= synced
       PROVE  n \in FromDatabase(SatOf[n]) /\ (n \in WithMetadata => n \in Kept)
    BY DEF SyncedIsStored
  <2>. QED BY DEF SyncInv, Whole, Placed, FromDatabase
<1>. QED BY <1>1, SyncInvariant, PTL

-----------------------------------------------------------------------------
(***************************************************************************)
(* The audit log.                                                          *)
(***************************************************************************)
Line == [event : Events, hash : Seq(Events)]
Opened == [file : Nat, open : BOOLEAN]
Pending == [at : {"close", "open", "write"}, lines : Seq(Line), on : Nat]

EndOf(lines) == IF lines = <<>> THEN <<>> ELSE lines[Len(lines)].hash

\* The lines of more go on from those of lines, and h is the hash they end in.
GoesOn(lines, more, h) ==
    /\ \A i \in DOMAIN more :
          more[i].hash = Append(IF i = 1 THEN EndOf(lines) ELSE more[i - 1].hash, more[i].event)
    /\ h = IF more = <<>> THEN EndOf(lines) ELSE more[Len(more)].hash

LogTyped ==
    /\ day \in Days /\ day \in Nat /\ starts \in 0..MaxStarts
    /\ files \in [Days -> Seq(Line)]
    /\ init \in {"off", "mkdir", "read", "open", "done"}
    /\ logFile \in 0..day /\ logFile \in Nat /\ logSize \in Nat
    /\ logged \in 0..MaxEvents /\ logged \in Nat
    /\ buffer \in Seq(Line) /\ lastHash \in Seq(Events)
    /\ handles \in Seq(Opened) /\ handle \in 0..Len(handles) /\ handle \in Nat
    /\ flush \in [Events -> Pending \cup {NoFlush}]
    /\ \A e \in Events : flush[e] = NoFlush \/ flush[e].on \in DOMAIN handles
    /\ noisy \in BOOLEAN
    /\ init = "off" => handle = 0 /\ \A e \in Events : flush[e] = NoFlush
    /\ init \in {"read", "open", "done"} => logFile \in Days

\* One log() at a time, on the file of the logger, which what is buffered continues.
LogQuiet ==
    /\ \A d \in Days : Verifies(files[d])
    /\ \A e, x \in Events : flush[e] # NoFlush /\ flush[x] # NoFlush => e = x
    /\ \A e \in Events : flush[e] # NoFlush =>
          init = "done" /\ flush[e].lines = buffer /\ flush[e].on = handle /\ handle # 0
    /\ handle # 0 => handles[handle].file = logFile /\ init = "done"
    /\ init # "done" => buffer = <<>>
    /\ init \in {"open", "done"} => GoesOn(files[logFile], buffer, lastHash)

AuditInv == LogTyped /\ (~noisy => LogQuiet)

LEMMA AuditFacts == /\ MaxEvents \in Nat /\ MaxDays \in Nat \ {0} /\ MaxStarts \in Nat
                    /\ RotationSize \in Nat /\ Retention \in Nat
                    /\ NoFlush \notin Pending
BY AuditAssumption DEF Pending, NoFlush

LEMMA JoinVerifies ==
    ASSUME NEW f \in Seq(Line), NEW b \in Seq(Line), NEW h, Verifies(f), GoesOn(f, b, h)
    PROVE  f \o b \in Seq(Line) /\ Verifies(f \o b) /\ EndOf(f \o b) = h
<1>. DEFINE j == f \o b
<1>1. /\ j \in Seq(Line) /\ Len(j) = Len(f) + Len(b) /\ DOMAIN j = 1..Len(j)
      /\ \A i \in 1..Len(f) : j[i] = f[i]
      /\ \A i \in Len(f) + 1..Len(j) : j[i] = b[i - Len(f)]
  OBVIOUS
<1>2. ASSUME NEW i \in DOMAIN j
      PROVE  j[i].hash = Append(IF i = 1 THEN <<>> ELSE j[i - 1].hash, j[i].event)
  <2>0. i \in Nat /\ i >= 1 /\ i <= Len(j) /\ Len(f) \in Nat /\ Len(b) \in Nat
    BY <1>1
  <2>1. CASE i <= Len(f)
    <3>1. j[i] = f[i] /\ (i # 1 => j[i - 1] = f[i - 1]) /\ i \in DOMAIN f
      BY <1>1, <2>0, <2>1
    <3>. HIDE DEF j
    <3>. QED BY <3>1 DEF Verifies
  <2>2. CASE i = Len(f) + 1
    <3>1. j[i] = b[1] /\ 1 \in DOMAIN b
      BY <1>1, <2>0, <2>2
    <3>2. b[1].hash = Append(EndOf(f), b[1].event)
      BY <3>1 DEF GoesOn
    <3>3. CASE f = <<>>
      <4>. HIDE DEF j
      <4>. QED BY <2>2, <3>1, <3>2, <3>3 DEF EndOf
    <3>4. CASE f # <<>>
      <4>1. Len(f) > 0 /\ i # 1 /\ j[i - 1] = f[Len(f)]
        BY <1>1, <2>0, <2>2, <3>4
      <4>. HIDE DEF j
      <4>. QED BY <3>1, <3>2, <3>4, <4>1 DEF EndOf
    <3>. QED BY <3>3, <3>4
  <2>3. CASE i > Len(f) + 1
    <3>. DEFINE k == i - Len(f)
    <3>1. j[i] = b[k] /\ j[i - 1] = b[k - 1] /\ k \in DOMAIN b /\ k # 1 /\ i # 1
      BY <1>1, <2>0, <2>3
    <3>. HIDE DEF j, k
    <3>2. b[k].hash = Append(b[k - 1].hash, b[k].event)
      BY <3>1 DEF GoesOn
    <3>. QED BY <3>1, <3>2
  <2>4. i <= Len(f) \/ i = Len(f) + 1 \/ i > Len(f) + 1
    BY <2>0
  <2>. HIDE DEF j
  <2>. QED BY <2>1, <2>2, <2>3, <2>4
<1>3. EndOf(j) = h
  <2>1. CASE b = <<>>
    <3>1. j = f
      BY <2>1
    <3>. QED BY <2>1, <3>1 DEF GoesOn
  <2>2. CASE b # <<>>
    <3>1. Len(b) > 0 /\ j # <<>> /\ j[Len(j)] = b[Len(b)]
      BY <1>1, <2>2
    <3>. HIDE DEF j
    <3>. QED BY <2>2, <3>1 DEF GoesOn, EndOf
  <2>. QED BY <2>1, <2>2
<1>. QED BY <1>1, <1>2, <1>3 DEF Verifies

LEMMA AppendGoesOn ==
    ASSUME NEW f \in Seq(Line), NEW b \in Seq(Line), NEW h \in Seq(Events), NEW e \in Events,
           GoesOn(f, b, h)
    PROVE  /\ Append(b, [event |-> e, hash |-> Append(h, e)]) \in Seq(Line)
           /\ GoesOn(f, Append(b, [event |-> e, hash |-> Append(h, e)]), Append(h, e))
<1>. DEFINE l == [event |-> e, hash |-> Append(h, e)]
            c == Append(b, l)
<1>1. l \in Line /\ l.hash = Append(h, e) /\ l.event = e
  BY DEF Line
<1>. HIDE DEF l
<1>2. /\ c \in Seq(Line) /\ Len(c) = Len(b) + 1 /\ c # <<>> /\ c[Len(c)] = l
      /\ \A i \in 1..Len(b) : c[i] = b[i]
      /\ DOMAIN c = 1..Len(b) + 1 /\ DOMAIN b = 1..Len(b) /\ Len(b) \in Nat
  BY <1>1
<1>. HIDE DEF c
<1>3. ASSUME NEW i \in DOMAIN c
      PROVE  c[i].hash = Append(IF i = 1 THEN EndOf(f) ELSE c[i - 1].hash, c[i].event)
  <2>1. CASE i \in DOMAIN b
    <3>1. c[i] = b[i] /\ (i # 1 => c[i - 1] = b[i - 1])
      BY <1>2, <2>1
    <3>. QED BY <2>1, <3>1 DEF GoesOn
  <2>2. CASE i = Len(b) + 1
    <3>1. CASE b = <<>>
      <4>1. i = 1 /\ h = EndOf(f)
        BY <2>2, <3>1 DEF GoesOn
      <4>. QED BY <1>1, <1>2, <2>2, <4>1
    <3>2. CASE b # <<>>
      <4>1. i # 1 /\ c[i - 1] = b[Len(b)] /\ h = b[Len(b)].hash
        BY <1>2, <2>2, <3>2 DEF GoesOn
      <4>. QED BY <1>1, <1>2, <2>2, <4>1
    <3>. QED BY <3>1, <3>2
  <2>. QED BY <1>2, <2>1, <2>2
<1>. QED BY <1>1, <1>2, <1>3 DEF GoesOn, l, c

\* What a call that begins to write awaits.
LEMMA WriteBegun ==
    ASSUME NEW e \in Events, NEW lines \in Seq(Line), NEW fhs, NEW h \in Nat, h \in DOMAIN fhs,
           flush \in [Events -> Pending \cup {NoFlush}], BeginWrite(e, lines, fhs, h)
    PROVE  \E p \in Pending \cup {NoFlush} :
             /\ flush' = [flush EXCEPT ![e] = p]
             /\ p # NoFlush => p.lines = lines /\ p.on = h
<1>1. [at |-> "write", lines |-> lines, on |-> h] \in Pending
  BY DEF Pending
<1>. QED BY <1>1 DEF BeginWrite

\* A step of the flush of event e, and of what it may change besides.
LEMMA FlushTyped ==
    ASSUME LogTyped, init # "off", NEW e \in Events,
           flush' = [flush EXCEPT ![e] = flush'[e]], flush'[e] \in Pending \cup {NoFlush},
           handles' \in Seq(Opened), Len(handles) <= Len(handles'), handle' \in 0..Len(handles'),
           flush'[e] # NoFlush => flush'[e].on \in DOMAIN handles',
           files' \in [Days -> Seq(Line)], buffer' \in Seq(Line), lastHash' \in Seq(Events),
           logFile' \in 0..day, init' = "done" => logFile' \in Days,
           init \in {"read", "open", "done"} => logFile' \in Days,
           logSize' \in Nat, logged' \in 0..MaxEvents,
           noisy' \in BOOLEAN, UNCHANGED <<day, starts, init>>
    PROVE  LogTyped'
<1>1. flush' \in [Events -> Pending \cup {NoFlush}] /\ \A x \in Events \ {e} : flush'[x] = flush[x]
  BY DEF LogTyped
<1>2. \A x \in Events : flush'[x] = NoFlush \/ flush'[x].on \in DOMAIN handles'
  <2>1. DOMAIN handles \subseteq DOMAIN handles'
    BY DEF LogTyped
  <2>. QED BY <1>1, <2>1 DEF LogTyped
<1>3. logFile' \in Nat /\ logged' \in Nat /\ handle' \in Nat
  BY AuditFacts DEF LogTyped
<1>. QED BY <1>1, <1>2, <1>3 DEF LogTyped

LEMMA FlushSet ==
    ASSUME LogTyped, NEW e \in Events, NEW p, flush' = [flush EXCEPT ![e] = p]
    PROVE  flush'[e] = p /\ flush' = [flush EXCEPT ![e] = flush'[e]]
           /\ \A x \in Events \ {e} : flush'[x] = flush[x]
BY DEF LogTyped

LEMMA HandleSet ==
    \A o \in Opened : /\ [o EXCEPT !.open = FALSE] \in Opened /\ [o EXCEPT !.file = 0] \in Opened
                      /\ [o EXCEPT !.open = FALSE].file = o.file
BY DEF Opened

LEMMA HandleOpened ==
    ASSUME LogTyped, NEW d \in Nat, OpenFile(d)
    PROVE  /\ handles' \in Seq(Opened) /\ Len(handles') = Len(handles) + 1 /\ handle' = Len(handles')
           /\ handle' \in 0..Len(handles') /\ handle' \in DOMAIN handles' /\ handle' \in Nat \ {0}
           /\ handles'[handle'].file = d /\ \A h \in DOMAIN handles : handles'[h] = handles[h]
<1>1. [file |-> d, open |-> TRUE] \in Opened
  BY DEF Opened
<1>2. handles \in Seq(Opened) /\ handles' = Append(handles, [file |-> d, open |-> TRUE])
      /\ handle' = Len(handles')
  BY DEF OpenFile, LogTyped
<1>. QED BY <1>1, <1>2

\* What log() appends to the buffer.
Appended == Append(buffer, [event |-> logged + 1, hash |-> Append(lastHash, logged + 1)])

LEMMA LogDoes ==
    ASSUME LogTyped, Log
    PROVE  /\ logged + 1 \in Events /\ logged' = logged + 1 /\ init # "off"
           /\ Appended \in Seq(Line) /\ Append(lastHash, logged + 1) \in Seq(Events)
           /\ lastHash' = Append(lastHash, logged + 1) /\ buffer' = Appended
           /\ noisy' = (noisy \/ init # "done" \/ Flushing # {})
           /\ \/ flush' = flush
              \/ \E p \in Pending \cup {NoFlush} :
                    /\ flush' = [flush EXCEPT ![logged + 1] = p]
                    /\ p # NoFlush => p.lines = Appended /\ p.on = handle /\ handle # 0
           /\ UNCHANGED <<day, files, starts, init, logFile, logSize, handles, handle>>
<1>. DEFINE e == logged + 1
<1>1. e \in Events /\ logged \in Nat
  BY AuditFacts DEF Log, LogTyped, Events
<1>2. lastHash \in Seq(Events) /\ Append(lastHash, e) \in Seq(Events)
  BY <1>1 DEF LogTyped
<1>3. [event |-> e, hash |-> Append(lastHash, e)] \in Line
  BY <1>1, <1>2 DEF Line
<1>4. Appended \in Seq(Line)
  BY <1>3 DEF Appended, LogTyped
<1>5. \/ flush' = flush
      \/ \E p \in Pending \cup {NoFlush} :
            /\ flush' = [flush EXCEPT ![e] = p]
            /\ p # NoFlush => p.lines = Appended /\ p.on = handle /\ handle # 0
  <2>1. flush \in [Events -> Pending \cup {NoFlush}] /\ handle \in Nat
        /\ handle \in 0..Len(handles) /\ handles \in Seq(Opened)
    BY DEF LogTyped
  <2>2. CASE handle = 0
    BY <2>2 DEF Log
  <2>3. CASE handle # 0
    <3>1. handle \in DOMAIN handles
      BY <2>1, <2>3
    <3>2. CASE logSize + Len(Appended) > RotationSize
      <4>. DEFINE p == [at |-> "close", lines |-> Appended, on |-> handle]
      <4>1. flush' = [flush EXCEPT ![e] = p]
        BY <2>3, <3>2 DEF Log, Appended
      <4>2. p \in Pending /\ p.lines = Appended /\ p.on = handle
        BY <1>4, <2>1 DEF Pending
      <4>. HIDE DEF p
      <4>. QED BY <2>3, <4>1, <4>2
    <3>3. CASE ~(logSize + Len(Appended) > RotationSize)
      <4>1. BeginWrite(e, Appended, handles, handle)
        BY <2>3, <3>3 DEF Log, Appended
      <4>. HIDE DEF e
      <4>2. e \in Events
        BY <1>1
      <4>. QED BY <1>4, <2>1, <2>3, <3>1, <4>1, <4>2, WriteBegun
    <3>. QED BY <3>2, <3>3
  <2>. QED BY <2>2, <2>3
<1>. QED BY <1>1, <1>2, <1>4, <1>5 DEF Log, Appended

LEMMA LogTypedNext ==
    ASSUME LogTyped, [AuditNext]_auditVars
    PROVE  LogTyped'
<1>0. /\ day \in Nat /\ logFile \in Nat /\ logFile \in 0..day /\ handle \in 0..Len(handles)
      /\ handles \in Seq(Opened) /\ files \in [Days -> Seq(Line)]
      /\ buffer \in Seq(Line) /\ lastHash \in Seq(Events) /\ flush \in [Events -> Pending \cup {NoFlush}]
      /\ logSize \in Nat /\ logged \in 0..MaxEvents /\ noisy \in BOOLEAN
      /\ NoFlush \notin Pending
      /\ init \in {"read", "open", "done"} => logFile \in Days
  BY AuditFacts DEF LogTyped
<1>1. CASE StartLogger
  BY <1>1, AuditFacts DEF StartLogger, LogTyped
<1>2. CASE DirectoryMade
  BY <1>2 DEF DirectoryMade, LogTyped, Days
<1>3. CASE FileRead
  <2>1. logFile \in Days
    BY <1>0, <1>3 DEF FileRead
  <2>2. files[logFile] # <<>> => /\ LastLine(files[logFile]).hash \in Seq(Events)
                                /\ LastLine(files[logFile]).size \in Nat
    <3>1. SUFFICES ASSUME files[logFile] # <<>>
          PROVE /\ files[logFile][Len(files[logFile])] \in Line /\ Len(files[logFile]) \in Nat
      BY DEF LastLine, Line
    <3>. QED BY <1>0, <2>1, <3>1
  <2>3. lastHash' \in Seq(Events) /\ logSize' \in Nat /\ noisy' \in BOOLEAN
    <3>1. <<>> \in Seq(Events)
      OBVIOUS
    <3>2. \/ lastHash' = LastLine(files[logFile]).hash /\ logSize' = LastLine(files[logFile]).size
             /\ files[logFile] # <<>> /\ noisy' = noisy
          \/ lastHash' = <<>> /\ logSize' = 0 /\ noisy' = (noisy \/ files[logFile] # <<>>)
      BY <1>3 DEF FileRead
    <3>3. noisy' \in BOOLEAN
      BY <1>0, <3>2
    <3>4. lastHash' \in Seq(Events) /\ logSize' \in Nat
      <4>1. CASE /\ lastHash' = LastLine(files[logFile]).hash
                 /\ logSize' = LastLine(files[logFile]).size /\ files[logFile] # <<>>
        BY <2>2, <4>1
      <4>2. CASE lastHash' = <<>> /\ logSize' = 0
        BY <4>2
      <4>. QED BY <3>2, <4>1, <4>2
    <3>. QED BY <3>3, <3>4
  <2>. QED BY <1>0, <1>3, <2>1, <2>3 DEF FileRead, LogTyped
<1>4. CASE FileOpened
  <2>1. UNCHANGED <<day, files, starts, buffer, lastHash, logFile, logSize, flush, logged, noisy>>
        /\ init' = "done" /\ init = "open"
    BY <1>4 DEF FileOpened
  <2>2. CASE OpenFile(logFile)
    <3>1. /\ handles' \in Seq(Opened) /\ Len(handles') = Len(handles) + 1
          /\ handle' \in 0..Len(handles') /\ handle' \in Nat
      BY <1>0, <2>2, HandleOpened
    <3>2. DOMAIN handles \subseteq DOMAIN handles'
      BY <1>0, <3>1
    <3>. QED BY <1>0, <2>1, <3>1, <3>2 DEF LogTyped
  <2>3. CASE UNCHANGED <<handles, handle>>
    BY <1>0, <2>1, <2>3 DEF LogTyped
  <2>. QED BY <1>4, <2>2, <2>3 DEF FileOpened
<1>5. CASE Log
  <2>0. /\ logged + 1 \in Events /\ logged' = logged + 1 /\ init # "off"
        /\ Appended \in Seq(Line) /\ lastHash' \in Seq(Events) /\ buffer' \in Seq(Line)
        /\ noisy' \in BOOLEAN /\ logged' \in 0..MaxEvents /\ logged' \in Nat
        /\ UNCHANGED <<day, files, starts, init, logFile, logSize, handles, handle>>
    <3>1. logged + 1 \in 0..MaxEvents /\ logged + 1 \in Nat
      BY <1>5, LogDoes, AuditFacts DEF Events
    <3>. QED BY <1>5, <3>1, LogDoes
  <2>1. CASE flush' = flush
    BY <2>0, <2>1 DEF LogTyped
  <2>2. CASE flush' # flush
    <3>1. PICK p \in Pending \cup {NoFlush} :
             /\ flush' = [flush EXCEPT ![logged + 1] = p]
             /\ p # NoFlush => p.lines = Appended /\ p.on = handle /\ handle # 0
      BY <1>5, <2>2, LogDoes
    <3>2. p # NoFlush => p.on \in DOMAIN handles'
      BY <1>0, <2>0, <3>1
    <3>3. flush'[logged + 1] = p /\ flush' = [flush EXCEPT ![logged + 1] = flush'[logged + 1]]
      BY <2>0, <3>1, FlushSet
    <3>. QED BY <1>0, <2>0, <3>2, <3>3, FlushTyped
  <2>. QED BY <2>1, <2>2
<1>6. ASSUME NEW e \in Events, HandleClosed(e)
      PROVE  LogTyped'
  <2>. DEFINE f == flush[e]
              p == [f EXCEPT !.at = "open"]
  <2>1. f.at = "close" /\ f \in Pending /\ f.on \in DOMAIN handles /\ init # "off"
    BY <1>0, <1>6 DEF HandleClosed, LogTyped, NoFlush
  <2>2. p \in Pending /\ p.on = f.on
    BY <2>1 DEF Pending
  <2>3. /\ flush' = [flush EXCEPT ![e] = p]
        /\ handles' = [handles EXCEPT ![f.on].open = FALSE] /\ logFile' = day
        /\ noisy' = (noisy \/ day # logFile)
        /\ UNCHANGED <<day, files, starts, init, buffer, lastHash, logSize, handle, logged>>
    BY <1>0, <1>6 DEF HandleClosed
  <2>4. handles' \in Seq(Opened) /\ Len(handles') = Len(handles)
    <3>0. handles[f.on] \in Opened
      BY <1>0, <2>1
    <3>1. [handles[f.on] EXCEPT !.open = FALSE] \in Opened
      BY <3>0, HandleSet
    <3>2. handles' = [handles EXCEPT ![f.on] = [handles[f.on] EXCEPT !.open = FALSE]]
      BY <2>3
    <3>. QED BY <1>0, <2>1, <3>1, <3>2
  <2>5. day \in Days /\ day \in 0..day
    BY <1>0 DEF LogTyped
  <2>6. DOMAIN handles' = DOMAIN handles
    BY <1>0, <2>4
  <2>. HIDE DEF p, f
  <2>7. flush'[e] = p /\ flush' = [flush EXCEPT ![e] = flush'[e]]
    BY <2>3, FlushSet
  <2>8. handles' \in Seq(Opened) /\ Len(handles) <= Len(handles') /\ handle' \in 0..Len(handles')
    BY <1>0, <2>3, <2>4
  <2>9. files' \in [Days -> Seq(Line)] /\ buffer' \in Seq(Line) /\ lastHash' \in Seq(Events)
    BY <1>0, <2>3
  <2>10. logFile' \in 0..day /\ (init' = "done" => logFile' \in Days) /\
         (init \in {"read", "open", "done"} => logFile' \in Days)
    BY <2>3, <2>5
  <2>11. logSize' \in Nat /\ logged' \in 0..MaxEvents
    BY <1>0, <2>3
  <2>12. noisy' \in BOOLEAN
    BY <1>0, <2>3
  <2>. QED BY <2>1, <2>2, <2>3, <2>6, <2>7, <2>8, <2>9, <2>10, <2>11, <2>12, FlushTyped
<1>7. ASSUME NEW e \in Events, RotatedOpen(e)
      PROVE  LogTyped'
  <2>1. flush[e].at = "open" /\ flush[e] \in Pending /\ init # "off"
        /\ UNCHANGED <<day, files, starts, init, buffer, lastHash, logFile, logged, noisy>>
    BY <1>0, <1>7 DEF RotatedOpen, LogTyped, NoFlush
  <2>2. CASE /\ OpenFile(logFile) /\ logSize' = 0
             /\ BeginWrite(e, flush[e].lines, handles', handle')
    <3>1. /\ handles' \in Seq(Opened) /\ Len(handles') = Len(handles) + 1
          /\ handle' \in 0..Len(handles') /\ handle' \in DOMAIN handles' /\ handle' \in Nat
      BY <1>0, <2>2, HandleOpened
    <3>2. flush[e].lines \in Seq(Line)
      BY <2>1 DEF Pending
    <3>3. PICK p \in Pending \cup {NoFlush} :
             /\ flush' = [flush EXCEPT ![e] = p]
             /\ p # NoFlush => p.lines = flush[e].lines /\ p.on = handle'
      <4>. DEFINE lines == flush[e].lines
      <4>1. lines \in Seq(Line) /\ BeginWrite(e, lines, handles', handle')
        BY <2>2, <3>2
      <4>. HIDE DEF lines
      <4>2. \E p \in Pending \cup {NoFlush} :
             /\ flush' = [flush EXCEPT ![e] = p]
             /\ p # NoFlush => p.lines = lines /\ p.on = handle'
        <5>. DEFINE fhs == handles'
                    h == handle'
        <5>1. h \in Nat /\ h \in DOMAIN fhs /\ BeginWrite(e, lines, fhs, h)
          BY <3>1, <4>1
        <5>. HIDE DEF fhs, h
        <5>2. \E p \in Pending \cup {NoFlush} :
               /\ flush' = [flush EXCEPT ![e] = p]
               /\ p # NoFlush => p.lines = lines /\ p.on = h
          BY <1>0, <4>1, <5>1, WriteBegun
        <5>. QED BY <5>2 DEF h
      <4>. QED BY <4>2 DEF lines
    <3>4. Len(handles) <= Len(handles')
      BY <1>0, <3>1
    <3>5. flush'[e] = p /\ flush' = [flush EXCEPT ![e] = flush'[e]]
      BY <3>3, FlushSet
    <3>6. logSize' \in Nat
      BY <2>2
    <3>. QED BY <1>0, <2>1, <3>1, <3>3, <3>4, <3>5, <3>6, FlushTyped
  <2>3. CASE flush' = [flush EXCEPT ![e] = NoFlush] /\ UNCHANGED <<logSize, handles, handle>>
    <3>1. flush'[e] = NoFlush /\ flush' = [flush EXCEPT ![e] = flush'[e]]
      BY <2>3, FlushSet
    <3>2. handles' \in Seq(Opened) /\ Len(handles) <= Len(handles') /\ handle' \in 0..Len(handles')
      BY <1>0, <2>3
    <3>3. files' \in [Days -> Seq(Line)] /\ buffer' \in Seq(Line) /\ lastHash' \in Seq(Events)
      BY <1>0, <2>1
    <3>4. logFile' \in 0..day /\ (init' = "done" => logFile' \in Days) /\
           (init \in {"read", "open", "done"} => logFile' \in Days)
      BY <1>0, <2>1
    <3>5. logSize' \in Nat /\ logged' \in 0..MaxEvents
      BY <1>0, <2>1, <2>3
    <3>6. noisy' \in BOOLEAN
      BY <1>0, <2>1
    <3>. QED BY <2>1, <3>1, <3>2, <3>3, <3>4, <3>5, <3>6, FlushTyped
  <2>. QED BY <1>7, <2>2, <2>3 DEF RotatedOpen
<1>8. ASSUME NEW e \in Events, Written(e)
      PROVE  LogTyped'
  <2>. DEFINE f == flush[e]
              d == handles[f.on].file
  <2>1. f.at = "write" /\ f \in Pending /\ init # "off" /\ f.lines \in Seq(Line)
    BY <1>0, <1>8 DEF Written, LogTyped, NoFlush, Pending
  <2>2. /\ files' = (IF d = 0 THEN files ELSE [files EXCEPT ![d] = files[d] \o f.lines])
        /\ logSize' = logSize + Len(f.lines) /\ buffer' = <<>>
        /\ flush' = [flush EXCEPT ![e] = NoFlush]
        /\ UNCHANGED <<day, starts, init, lastHash, logFile, handles, handle, logged, noisy>>
    BY <1>8 DEF Written
  <2>. HIDE DEF d, f
  <2>3. files' \in [Days -> Seq(Line)]
    <3>1. CASE d \in Days
      <4>1. files[d] \o f.lines \in Seq(Line)
        BY <1>0, <2>1, <3>1
      <4>. QED BY <1>0, <2>2, <4>1
    <3>2. CASE d \notin Days
      BY <1>0, <2>2, <3>2
    <3>. QED BY <3>1, <3>2
  <2>4. logSize' \in Nat /\ buffer' \in Seq(Line)
    BY <1>0, <2>1, <2>2
  <2>5. flush'[e] = NoFlush /\ flush' = [flush EXCEPT ![e] = flush'[e]]
    BY <2>2, FlushSet
  <2>6. handles' \in Seq(Opened) /\ Len(handles) <= Len(handles') /\ handle' \in 0..Len(handles')
    BY <1>0, <2>2
  <2>7. files' \in [Days -> Seq(Line)] /\ buffer' \in Seq(Line) /\ lastHash' \in Seq(Events)
    BY <1>0, <2>2, <2>3, <2>4
  <2>8. logFile' \in 0..day /\ (init' = "done" => logFile' \in Days) /\
         (init \in {"read", "open", "done"} => logFile' \in Days)
    BY <1>0, <2>2
  <2>9. logSize' \in Nat /\ logged' \in 0..MaxEvents
    BY <1>0, <2>2, <2>4
  <2>10. noisy' \in BOOLEAN
    BY <1>0, <2>2
  <2>. QED BY <2>1, <2>2, <2>5, <2>6, <2>7, <2>8, <2>9, <2>10, FlushTyped
<1>9. ASSUME NEW e \in Events, WriteFails(e)
      PROVE  LogTyped'
  <2>1. init # "off"
    BY <1>9 DEF WriteFails, LogTyped, NoFlush
  <2>2. flush'[e] = NoFlush /\ flush' = [flush EXCEPT ![e] = flush'[e]]
    BY <1>9, FlushSet DEF WriteFails
  <2>3. UNCHANGED <<day, files, starts, init, buffer, lastHash, logFile, logSize, handles,
                    handle, logged, noisy>>
    BY <1>9 DEF WriteFails
  <2>4. handles' \in Seq(Opened) /\ Len(handles) <= Len(handles') /\ handle' \in 0..Len(handles')
    BY <1>0, <2>3
  <2>5. files' \in [Days -> Seq(Line)] /\ buffer' \in Seq(Line) /\ lastHash' \in Seq(Events)
    BY <1>0, <2>3
  <2>6. logFile' \in 0..day /\ (init' = "done" => logFile' \in Days) /\
         (init \in {"read", "open", "done"} => logFile' \in Days)
    BY <1>0, <2>3
  <2>7. logSize' \in Nat /\ logged' \in 0..MaxEvents
    BY <1>0, <2>3
  <2>8. noisy' \in BOOLEAN
    BY <1>0, <2>3
  <2>. QED BY <2>1, <2>2, <2>3, <2>4, <2>5, <2>6, <2>7, <2>8, FlushTyped
<1>10. CASE CleanUp
  <2>. DEFINE Old(d) == d # 0 /\ d + Retention < day
  <2>1. /\ files' = [d \in Days |-> IF Old(d) THEN <<>> ELSE files[d]]
        /\ handles' = [h \in DOMAIN handles |->
                     IF Old(handles[h].file) THEN [handles[h] EXCEPT !.file = 0] ELSE handles[h]]
        /\ noisy' = (noisy \/ Old(logFile))
        /\ UNCHANGED <<day, starts, init, buffer, lastHash, logFile, logSize, handle, flush, logged>>
    BY <1>10 DEF CleanUp
  <2>. HIDE DEF Old
  <2>2. files' \in [Days -> Seq(Line)]
    BY <1>0, <2>1
  <2>3. \A h \in DOMAIN handles : handles[h] \in Opened /\ [handles[h] EXCEPT !.file = 0] \in Opened
    <3>1. \A h \in DOMAIN handles : handles[h] \in Opened
      BY <1>0
    <3>. QED BY <3>1, HandleSet
  <2>4. DOMAIN handles = 1..Len(handles) /\ Len(handles) \in Nat
    BY <1>0
  <2>5. handles' \in [1..Len(handles) -> Opened]
    BY <2>1, <2>3, <2>4
  <2>6. handles' \in Seq(Opened) /\ Len(handles') = Len(handles) /\ DOMAIN handles' = DOMAIN handles
    BY <2>4, <2>5
  <2>7. noisy' \in BOOLEAN
    BY <1>0, <2>1 DEF Old
  <2>. QED BY <1>0, <2>1, <2>2, <2>6, <2>7 DEF LogTyped
<1>11. CASE CloseLogger
  <2>. DEFINE d == handles[handle].file
  <2>1. /\ init = "done" /\ handle # 0
        /\ \/ /\ buffer' = <<>> /\ logSize' = logSize + Len(buffer)
              /\ files' = IF d = 0 THEN files ELSE [files EXCEPT ![d] = files[d] \o buffer]
           \/ UNCHANGED <<buffer, logSize, files>>
        /\ handles' = [handles EXCEPT ![handle].open = FALSE]
        /\ handle' = 0
        /\ UNCHANGED <<day, starts, init, lastHash, logFile, flush, logged, noisy>>
    BY <1>11 DEF CloseLogger
  <2>. HIDE DEF d
  <2>2. files' \in [Days -> Seq(Line)]
    <3>1. CASE d \in Days
      <4>1. files[d] \o buffer \in Seq(Line)
        BY <1>0, <3>1
      <4>. QED BY <1>0, <2>1, <4>1
    <3>2. CASE d \notin Days
      BY <1>0, <2>1, <3>2
    <3>. QED BY <3>1, <3>2
  <2>3. handle \in DOMAIN handles
    BY <1>0, <2>1
  <2>4. handles' \in Seq(Opened) /\ Len(handles') = Len(handles) /\ DOMAIN handles' = DOMAIN handles
    <3>0. handles[handle] \in Opened
      BY <1>0, <2>3
    <3>1. [handles[handle] EXCEPT !.open = FALSE] \in Opened
      BY <3>0, HandleSet
    <3>2. handles' = [handles EXCEPT ![handle] = [handles[handle] EXCEPT !.open = FALSE]]
      BY <2>1
    <3>. QED BY <1>0, <2>3, <3>1, <3>2
  <2>5. buffer' \in Seq(Line) /\ logSize' \in Nat /\ handle' \in 0..Len(handles')
    <3>1. 0 \in 0..Len(handles') /\ <<>> \in Seq(Line) /\ Len(buffer) \in Nat
      BY <1>0, <2>4
    <3>2. handle' \in 0..Len(handles')
      BY <2>1, <3>1
    <3>3. buffer' \in Seq(Line) /\ logSize' \in Nat
      <4>1. (buffer' = <<>> /\ logSize' = logSize + Len(buffer)) \/ UNCHANGED <<buffer, logSize>>
        BY <2>1
      <4>2. CASE buffer' = <<>> /\ logSize' = logSize + Len(buffer)
        BY <1>0, <3>1, <4>2
      <4>3. CASE buffer' = buffer /\ logSize' = logSize
        BY <1>0, <4>3
      <4>. QED BY <4>1, <4>2, <4>3
    <3>. QED BY <3>2, <3>3
  <2>. QED BY <1>0, <2>1, <2>2, <2>4, <2>5 DEF LogTyped
<1>12. CASE Ended
  <2>1. flush' \in [Events -> Pending \cup {NoFlush}] /\ \A e \in Events : flush'[e] = NoFlush
    BY <1>12 DEF Ended
  <2>. QED BY <1>0, <1>12, <2>1 DEF Ended, LogTyped
<1>13. CASE Midnight
  <2>1. day' \in Days /\ day' \in Nat /\ logFile \in 0..day'
    BY <1>0, <1>13, AuditFacts DEF Midnight, Days
  <2>. QED BY <1>13, <2>1 DEF Midnight, LogTyped
<1>14. CASE UNCHANGED auditVars
  BY <1>14 DEF auditVars, LogTyped
<1>. QED
  BY <1>1, <1>2, <1>3, <1>4, <1>5, <1>6, <1>7, <1>8, <1>9, <1>10, <1>11, <1>12, <1>13, <1>14
  DEF AuditNext

LEMMA QuietNext ==
    ASSUME LogTyped, LogTyped', LogQuiet, ~noisy', [AuditNext]_auditVars
    PROVE  LogQuiet'
<1>0. /\ day \in Nat /\ logFile \in Nat /\ handle \in 0..Len(handles) /\ handle \in Nat
      /\ handles \in Seq(Opened) /\ files \in [Days -> Seq(Line)]
      /\ buffer \in Seq(Line) /\ lastHash \in Seq(Events) /\ flush \in [Events -> Pending \cup {NoFlush}]
      /\ NoFlush \notin Pending
      /\ init \in {"read", "open", "done"} => logFile \in Days
      /\ init = "off" => \A e \in Events : flush[e] = NoFlush
  BY AuditFacts DEF LogTyped
<1>1. CASE StartLogger
  BY <1>1 DEF StartLogger, LogQuiet
<1>2. CASE DirectoryMade
  BY <1>2 DEF DirectoryMade, LogQuiet
<1>3. CASE FileRead
  <2>1. /\ init = "read" /\ init' = "open" /\ logFile \in Days
        /\ UNCHANGED <<day, files, starts, buffer, logFile, handles, handle, flush, logged>>
    BY <1>0, <1>3 DEF FileRead
  <2>2. lastHash' = EndOf(files[logFile])
    <3>1. CASE files[logFile] # <<>> /\ lastHash' = LastLine(files[logFile]).hash
      BY <3>1 DEF LastLine, EndOf
    <3>2. CASE lastHash' = <<>> /\ noisy' = (noisy \/ files[logFile] # <<>>)
      BY <3>2 DEF EndOf
    <3>. QED BY <1>3, <3>1, <3>2 DEF FileRead
  <2>3. buffer = <<>>
    BY <2>1 DEF LogQuiet
  <2>4. GoesOn(files[logFile], <<>>, lastHash')
    BY <2>2 DEF GoesOn
  <2>. QED BY <2>1, <2>3, <2>4 DEF LogQuiet
<1>4. CASE FileOpened
  <2>1. UNCHANGED <<day, files, starts, buffer, lastHash, logFile, logSize, flush, logged, noisy>>
        /\ init' = "done" /\ init = "open"
    BY <1>4 DEF FileOpened
  <2>2. handle' # 0 => handles'[handle'].file = logFile
    <3>1. CASE OpenFile(logFile)
      BY <1>0, <3>1, HandleOpened
    <3>2. CASE UNCHANGED <<handles, handle>>
      BY <3>2 DEF LogQuiet
    <3>. QED BY <1>4, <3>1, <3>2 DEF FileOpened
  <2>3. \A e \in Events : flush[e] = NoFlush
    BY <2>1 DEF LogQuiet
  <2>. QED BY <2>1, <2>2, <2>3 DEF LogQuiet
<1>5. CASE Log
  <2>0. /\ logged + 1 \in Events /\ init # "off" /\ buffer' = Appended
        /\ lastHash' = Append(lastHash, logged + 1)
        /\ noisy' = (noisy \/ init # "done" \/ Flushing # {})
        /\ UNCHANGED <<day, files, starts, init, logFile, logSize, handles, handle>>
    BY <1>5, LogDoes
  <2>1. init = "done" /\ \A e \in Events : flush[e] = NoFlush
    BY <2>0 DEF Flushing
  <2>2. GoesOn(files[logFile], Appended, lastHash')
    <3>1. logFile \in Days /\ files[logFile] \in Seq(Line) /\ GoesOn(files[logFile], buffer, lastHash)
      BY <1>0, <2>1 DEF LogQuiet
    <3>. QED BY <1>0, <2>0, <3>1, AppendGoesOn DEF Appended
  <2>3. CASE flush' = flush
    BY <2>0, <2>1, <2>2, <2>3 DEF LogQuiet
  <2>4. CASE flush' # flush
    <3>1. PICK p \in Pending \cup {NoFlush} :
             /\ flush' = [flush EXCEPT ![logged + 1] = p]
             /\ p # NoFlush => p.lines = Appended /\ p.on = handle /\ handle # 0
      BY <1>5, <2>4, LogDoes
    <3>2. flush'[logged + 1] = p /\ \A x \in Events \ {logged + 1} : flush'[x] = NoFlush
      BY <2>0, <2>1, <3>1, FlushSet
    <3>3. \A e \in Events : flush'[e] # NoFlush => e = logged + 1 /\ flush'[e] = p
      BY <3>2
    <3>. QED BY <2>0, <2>1, <2>2, <3>1, <3>3 DEF LogQuiet
  <2>. QED BY <2>3, <2>4
<1>6. ASSUME NEW e \in Events, HandleClosed(e)
      PROVE  LogQuiet'
  <2>. DEFINE f == flush[e]
              p == [f EXCEPT !.at = "open"]
  <2>1. f.at = "close" /\ f \in Pending /\ f.on \in DOMAIN handles /\ p # NoFlush /\ f # NoFlush
    BY <1>0, <1>6 DEF HandleClosed, LogTyped, NoFlush
  <2>2. p.on = f.on /\ p.lines = f.lines
    BY <2>1 DEF Pending
  <2>3. /\ flush' = [flush EXCEPT ![e] = p]
        /\ handles' = [handles EXCEPT ![f.on].open = FALSE] /\ logFile' = day
        /\ noisy' = (noisy \/ day # logFile)
        /\ UNCHANGED <<day, files, starts, init, buffer, lastHash, logSize, handle, logged>>
    BY <1>0, <1>6 DEF HandleClosed
  <2>4. logFile' = logFile
    BY <2>3
  <2>. HIDE DEF p
  <2>5. flush'[e] = p /\ \A x \in Events \ {e} : flush'[x] = flush[x]
    BY <2>3, FlushSet
  <2>6. \A h \in DOMAIN handles : handles'[h].file = handles[h].file
    <3>1. SUFFICES ASSUME NEW h \in DOMAIN handles PROVE handles'[h].file = handles[h].file
      OBVIOUS
    <3>2. handles[h] \in Opened
      BY <1>0
    <3>3. CASE h = f.on
      <4>1. handles'[h] = [handles[h] EXCEPT !.open = FALSE]
        BY <2>3, <3>3
      <4>. QED BY <3>2, <4>1, HandleSet
    <3>4. CASE h # f.on
      <4>1. handles'[h] = handles[h]
        BY <2>3, <3>4
      <4>. QED BY <4>1
    <3>. QED BY <3>3, <3>4
  <2>7. handle # 0 => handle \in DOMAIN handles
    BY <1>0
  <2>8. f.lines = buffer /\ f.on = handle /\ handle # 0 /\ init = "done"
    BY <2>1 DEF LogQuiet
  <2>9. \A x \in Events : flush'[x] # NoFlush => x = e /\ flush'[x] = p
    BY <2>1, <2>5 DEF LogQuiet
  <2>10. handles'[handle].file = logFile
    BY <2>6, <2>7, <2>8 DEF LogQuiet
  <2>. QED BY <2>2, <2>3, <2>4, <2>8, <2>9, <2>10 DEF LogQuiet
<1>7. ASSUME NEW e \in Events, RotatedOpen(e)
      PROVE  LogQuiet'
  <2>1. flush[e].at = "open" /\ flush[e] \in Pending /\ flush[e] # NoFlush
        /\ UNCHANGED <<day, files, starts, init, buffer, lastHash, logFile, logged, noisy>>
    BY <1>0, <1>7 DEF RotatedOpen, LogTyped, NoFlush
  <2>2. flush[e].lines = buffer /\ init = "done" /\ \A x \in Events \ {e} : flush[x] = NoFlush
    BY <2>1 DEF LogQuiet
  <2>3. CASE /\ OpenFile(logFile) /\ logSize' = 0
             /\ BeginWrite(e, flush[e].lines, handles', handle')
    <3>. DEFINE fhs == handles'
                h == handle'
    <3>1. h \in DOMAIN fhs /\ h \in Nat /\ h # 0 /\ fhs[h].file = logFile
      BY <1>0, <2>3, HandleOpened
    <3>2. BeginWrite(e, buffer, fhs, h)
      BY <2>2, <2>3
    <3>. HIDE DEF fhs, h
    <3>3. PICK p \in Pending \cup {NoFlush} :
             /\ flush' = [flush EXCEPT ![e] = p]
             /\ p # NoFlush => p.lines = buffer /\ p.on = h
      BY <1>0, <3>1, <3>2, WriteBegun
    <3>4. flush'[e] = p /\ \A x \in Events \ {e} : flush'[x] = flush[x]
      BY <3>3, FlushSet
    <3>5. \A x \in Events : flush'[x] # NoFlush => x = e /\ flush'[x] = p
      BY <2>2, <3>4
    <3>. QED BY <2>1, <2>2, <3>1, <3>3, <3>5 DEF LogQuiet, fhs, h
  <2>4. CASE flush' = [flush EXCEPT ![e] = NoFlush] /\ UNCHANGED <<logSize, handles, handle>>
    <3>1. \A x \in Events : flush'[x] = NoFlush
      BY <2>2, <2>4, FlushSet
    <3>. QED BY <2>1, <2>2, <2>4, <3>1 DEF LogQuiet
  <2>. QED BY <1>7, <2>3, <2>4 DEF RotatedOpen
<1>8. ASSUME NEW e \in Events, Written(e)
      PROVE  LogQuiet'
  <2>. DEFINE f == flush[e]
  <2>1. f.at = "write" /\ f \in Pending /\ f # NoFlush
    BY <1>0, <1>8 DEF Written, LogTyped, NoFlush
  <2>2. f.lines = buffer /\ f.on = handle /\ handle # 0 /\ init = "done" /\ handles[handle].file = logFile
        /\ \A x \in Events \ {e} : flush[x] = NoFlush
    BY <2>1 DEF LogQuiet
  <2>3. logFile \in Days /\ logFile # 0
    BY <1>0, <2>2 DEF Days
  <2>4. /\ files' = [files EXCEPT ![logFile] = files[logFile] \o buffer]
        /\ buffer' = <<>> /\ flush' = [flush EXCEPT ![e] = NoFlush]
        /\ UNCHANGED <<day, starts, init, lastHash, logFile, handles, handle, logged, noisy>>
    BY <1>8, <2>2, <2>3 DEF Written
  <2>5. /\ files[logFile] \in Seq(Line) /\ Verifies(files[logFile])
        /\ GoesOn(files[logFile], buffer, lastHash)
    BY <1>0, <2>2, <2>3 DEF LogQuiet
  <2>6. Verifies(files[logFile] \o buffer) /\ EndOf(files[logFile] \o buffer) = lastHash
    BY <1>0, <2>5, JoinVerifies
  <2>7. /\ files'[logFile] = files[logFile] \o buffer
        /\ \A d \in Days \ {logFile} : files'[d] = files[d]
    BY <1>0, <2>3, <2>4
  <2>8. GoesOn(files'[logFile], <<>>, lastHash)
    BY <2>6, <2>7 DEF GoesOn
  <2>9. \A d \in Days : Verifies(files'[d])
    BY <2>6, <2>7 DEF LogQuiet
  <2>10. \A x \in Events : flush'[x] = NoFlush
    BY <2>2, <2>4, FlushSet
  <2>. QED BY <2>2, <2>4, <2>8, <2>9, <2>10 DEF LogQuiet
<1>9. ASSUME NEW e \in Events, WriteFails(e)
      PROVE  LogQuiet'
  <2>1. flush[e] # NoFlush
    BY <1>9 DEF WriteFails, NoFlush
  <2>2. \A x \in Events : flush'[x] = NoFlush
    <3>1. flush' = [flush EXCEPT ![e] = NoFlush]
      BY <1>9 DEF WriteFails
    <3>2. flush'[e] = NoFlush /\ \A x \in Events \ {e} : flush'[x] = flush[x]
      BY <3>1, FlushSet
    <3>3. \A x \in Events \ {e} : flush[x] = NoFlush
      BY <2>1 DEF LogQuiet
    <3>4. QED BY <3>2, <3>3
  <2>. QED BY <1>9, <2>2 DEF WriteFails, LogQuiet
<1>10. CASE CleanUp
  <2>. DEFINE Old(d) == d # 0 /\ d + Retention < day
  <2>1. /\ files' = [d \in Days |-> IF Old(d) THEN <<>> ELSE files[d]]
        /\ handles' = [h \in DOMAIN handles |->
                     IF Old(handles[h].file) THEN [handles[h] EXCEPT !.file = 0] ELSE handles[h]]
        /\ noisy' = (noisy \/ Old(logFile)) /\ init = "done"
        /\ UNCHANGED <<day, starts, init, buffer, lastHash, logFile, logSize, handle, flush, logged>>
    BY <1>10 DEF CleanUp
  <2>2. ~Old(logFile)
    BY <2>1
  <2>. HIDE DEF Old
  <2>3. files'[logFile] = files[logFile]
    BY <1>0, <2>1, <2>2
  <2>4. handle # 0 => handles'[handle].file = logFile
    <3>1. handle # 0 => handle \in DOMAIN handles /\ handles[handle].file = logFile
      BY <1>0 DEF LogQuiet
    <3>. QED BY <2>1, <2>2, <3>1
  <2>5. Verifies(<<>>)
    BY DEF Verifies
  <2>6. \A d \in Days : Verifies(files'[d])
    BY <2>1, <2>5 DEF LogQuiet
  <2>. QED BY <2>1, <2>3, <2>4, <2>6 DEF LogQuiet
<1>11. CASE CloseLogger
  <2>1. /\ init = "done" /\ handle # 0 /\ \A e \in Events : flush[e] = NoFlush
        /\ handle' = 0
        /\ UNCHANGED <<day, starts, init, lastHash, logFile, flush, logged, noisy>>
    BY <1>11 DEF CloseLogger, Flushing
  <2>2. handles[handle].file = logFile /\ logFile \in Days /\ logFile # 0
    BY <1>0, <2>1 DEF LogQuiet, Days
  <2>3. \/ buffer' = <<>> /\ files' = [files EXCEPT ![logFile] = files[logFile] \o buffer]
        \/ UNCHANGED <<buffer, files>>
    BY <1>11, <2>2 DEF CloseLogger
  <2>4. /\ files[logFile] \in Seq(Line) /\ Verifies(files[logFile])
        /\ GoesOn(files[logFile], buffer, lastHash)
    BY <1>0, <2>1, <2>2 DEF LogQuiet
  <2>5. CASE buffer' = <<>> /\ files' = [files EXCEPT ![logFile] = files[logFile] \o buffer]
    <3>1. Verifies(files[logFile] \o buffer) /\ EndOf(files[logFile] \o buffer) = lastHash
      BY <1>0, <2>4, JoinVerifies
    <3>2. /\ files'[logFile] = files[logFile] \o buffer
          /\ \A d \in Days \ {logFile} : files'[d] = files[d]
      BY <1>0, <2>2, <2>5
    <3>3. GoesOn(files'[logFile], <<>>, lastHash)
      BY <3>1, <3>2 DEF GoesOn
    <3>4. \A d \in Days : Verifies(files'[d])
      BY <3>1, <3>2 DEF LogQuiet
    <3>. QED BY <2>1, <2>5, <3>3, <3>4 DEF LogQuiet
  <2>6. CASE UNCHANGED <<buffer, files>>
    BY <2>1, <2>6 DEF LogQuiet
  <2>. QED BY <2>3, <2>5, <2>6
<1>12. CASE Ended
  <2>1. \A e \in Events : flush'[e] = NoFlush
    BY <1>12 DEF Ended
  <2>. QED BY <1>12, <2>1 DEF Ended, LogQuiet
<1>13. CASE Midnight
  BY <1>13 DEF Midnight, LogQuiet
<1>14. CASE UNCHANGED auditVars
  BY <1>14 DEF auditVars, LogQuiet
<1>. QED
  BY <1>1, <1>2, <1>3, <1>4, <1>5, <1>6, <1>7, <1>8, <1>9, <1>10, <1>11, <1>12, <1>13, <1>14
  DEF AuditNext

\* Once it was noisy, it stays so.
LEMMA NoiseStays ==
    ASSUME [AuditNext]_auditVars, noisy
    PROVE  noisy'
BY DEF AuditNext, auditVars, StartLogger, DirectoryMade, FileRead, FileOpened, Log, HandleClosed,
       RotatedOpen, Written, WriteFails, CleanUp, CloseLogger, Ended, Midnight

LEMMA AuditInvariant == AuditSpec => []AuditInv
<1>1. AuditInit => AuditInv
  <2>. SUFFICES ASSUME AuditInit PROVE AuditInv
    OBVIOUS
  <2>0. /\ <<>> \in Seq(Line) /\ <<>> \in Seq(Events) /\ <<>> \in Seq(Opened) /\ Len(<<>>) = 0
        /\ Verifies(<<>>)
    BY DEF Verifies
  <2>1. day \in Days /\ day \in Nat /\ 0 \in 0..MaxStarts /\ 0 \in 0..MaxEvents /\ 0 \in 0..day
    BY AuditFacts DEF AuditInit, Days
  <2>2. LogTyped
    <3>1. files \in [Days -> Seq(Line)] /\ flush \in [Events -> Pending \cup {NoFlush}]
      BY <2>0 DEF AuditInit
    <3>2. /\ \A e \in Events : flush[e] = NoFlush
          /\ starts = 0 /\ logFile = 0 /\ logSize = 0 /\ logged = 0 /\ handle = 0 /\ init = "off"
          /\ buffer = <<>> /\ lastHash = <<>> /\ handles = <<>> /\ noisy = FALSE
      BY DEF AuditInit
    <3>3. handle \in 0..Len(handles)
      BY <2>0, <3>2
    <3>. QED BY <2>0, <2>1, <3>1, <3>2, <3>3 DEF LogTyped
  <2>3. LogQuiet
    BY <2>0 DEF AuditInit, LogQuiet
  <2>. QED BY <2>2, <2>3 DEF AuditInv
<1>2. AuditInv /\ [AuditNext]_auditVars => AuditInv'
  BY LogTypedNext, QuietNext, NoiseStays DEF AuditInv
<1>. QED BY <1>1, <1>2, PTL DEF AuditSpec

\* The buffer, the files and the flushes under way keep their types.
THEOREM AuditTypeCorrect == AuditSpec => []AuditTypeOK
<1>1. LogTyped => AuditTypeOK
  <2>. SUFFICES ASSUME LogTyped PROVE AuditTypeOK
    OBVIOUS
  <2>1. \A e \in Flushing : flush[e] \in Pending /\ flush[e].on \in DOMAIN handles
    BY DEF LogTyped, Flushing
  <2>. QED BY <2>1 DEF LogTyped, AuditTypeOK, Flushing, Pending
<1>. QED BY <1>1, AuditInvariant, PTL DEF AuditInv

\* A log whose flushes never overlapped and never failed verifies, over any rotations,
\* clean-ups, closings and starts.
THEOREM QuietLog == AuditSpec => []QuietLogVerifies
<1>1. AuditInv => QuietLogVerifies
  BY DEF AuditInv, LogQuiet, QuietLogVerifies
<1>. QED BY <1>1, AuditInvariant, PTL

-----------------------------------------------------------------------------
(***************************************************************************)
(* The cache of the indexer client.                                        *)
(***************************************************************************)

Counters == {"size", "hits", "misses", "expirations", "evictions"}

CachesInv ==
    /\ CachesTypeOK
    /\ IsFiniteSet(DOMAIN store)
    /\ EntriesAccounted

\* What a step keeps of the books: each of the four facts, on the number of
\* entries before (n) and after (m).
LEMMA CacheFacts ==
    ASSUME CachesInv
    PROVE  /\ Cardinality(DOMAIN store) \in Nat
           /\ \A f \in Counters : metrics[f] \in Nat
           /\ metrics = [f \in Counters |-> metrics[f]]
           /\ added \in Nat /\ added <= MaxSets /\ removed \in Nat
           /\ clock \in Nat /\ clock <= MaxClock /\ clock >= 1
           /\ added = Cardinality(DOMAIN store) + removed + metrics.expirations + metrics.evictions
           /\ MaxEntries > 0 => Cardinality(DOMAIN store) <= MaxEntries
           /\ Cardinality(DOMAIN store) <= metrics.size
    <1>1. Cardinality(DOMAIN store) \in Nat
        BY FS_CardinalityType DEF CachesInv
    <1>2. metrics \in [Counters -> Nat]
        BY DEF CachesInv, CachesTypeOK, Counters
    <1>3. added \in Nat /\ added <= MaxSets /\ removed \in Nat
        BY CachesAssumption DEF CachesInv, CachesTypeOK, CachesAssumption
    <1>4. clock \in Nat /\ clock <= MaxClock /\ clock >= 1
        BY CachesAssumption DEF CachesInv, CachesTypeOK, CachesAssumption
    <1> QED BY <1>1, <1>2, <1>3, <1>4 DEF CachesInv, EntriesAccounted

\* The counters as a function of their names.
LEMMA MetricsTyped ==
    ASSUME CachesInv
    PROVE  metrics \in [Counters -> Nat]
    BY DEF CachesInv, CachesTypeOK, Counters

LEMMA WithoutFacts ==
    ASSUME NEW ks
    PROVE  /\ DOMAIN Without(ks) = DOMAIN store \ ks
           /\ \A k \in DOMAIN store \ ks : Without(ks)[k] = store[k]
    BY DEF Without, Restrict

\* Dropping entries of the store frees as many places as are dropped.
LEMMA DropCounts ==
    ASSUME NEW S, IsFiniteSet(S), NEW T \in SUBSET S
    PROVE  /\ IsFiniteSet(S \ T) /\ IsFiniteSet(T)
           /\ Cardinality(T) \in Nat
           /\ Cardinality(S \ T) \in Nat
           /\ Cardinality(S) = Cardinality(S \ T) + Cardinality(T)
    <1>1. IsFiniteSet(T)
        BY FS_Subset
    <1>2. IsFiniteSet(S \ T)
        BY FS_Subset, S \ T \in SUBSET S
    <1>3. S \cap T = T
        OBVIOUS
    <1>4. Cardinality(S \ T) = Cardinality(S) - Cardinality(S \cap T)
        BY FS_Difference
    <1>5. Cardinality(S) \in Nat /\ Cardinality(T) \in Nat /\ Cardinality(S \ T) \in Nat
        BY <1>1, <1>2, FS_CardinalityType
    <1> QED BY <1>1, <1>2, <1>3, <1>4, <1>5

\* Entries that go leave the rest as it was.
LEMMA WithoutKeepsType ==
    ASSUME CachesInv, NEW ks \in SUBSET DOMAIN store
    PROVE  /\ DOMAIN Without(ks) \subseteq CacheKeys
           /\ \A k \in DOMAIN Without(ks) : Without(ks)[k] \in Entries
           /\ IsFiniteSet(DOMAIN Without(ks))
           /\ Cardinality(DOMAIN Without(ks)) \in Nat
           /\ Cardinality(ks) \in Nat
           /\ Cardinality(DOMAIN store) = Cardinality(DOMAIN Without(ks)) + Cardinality(ks)
    <1>1. DOMAIN Without(ks) = DOMAIN store \ ks /\ \A k \in DOMAIN store \ ks : Without(ks)[k] = store[k]
        BY WithoutFacts
    <1>2. DOMAIN store \subseteq CacheKeys /\ \A k \in DOMAIN store : store[k] \in Entries
        BY DEF CachesInv, CachesTypeOK
    <1>3. IsFiniteSet(DOMAIN store)
        BY DEF CachesInv
    <1>4. /\ IsFiniteSet(DOMAIN store \ ks)
          /\ Cardinality(ks) \in Nat
          /\ Cardinality(DOMAIN store \ ks) \in Nat
          /\ Cardinality(DOMAIN store) = Cardinality(DOMAIN store \ ks) + Cardinality(ks)
        BY <1>3, DropCounts
    <1> QED BY <1>1, <1>2, <1>4

\* The invariant from the parts a step settles.
LEMMA CachesHold ==
    ASSUME CachesAssumption,
           clock' \in 1..MaxClock, cleaning' \in BOOLEAN,
           DOMAIN store' \subseteq CacheKeys, \A k \in DOMAIN store' : store'[k] \in Entries,
           added' \in 0..MaxSets, removed' \in Nat,
           metrics' \in [Counters -> Nat],
           IsFiniteSet(DOMAIN store'),
           added' = Cardinality(DOMAIN store') + removed' + metrics'.expirations + metrics'.evictions,
           MaxEntries > 0 => Cardinality(DOMAIN store') <= MaxEntries,
           Cardinality(DOMAIN store') <= metrics'.size
    PROVE  CachesInv'
    <1>1. CachesTypeOK'
        BY DEF CachesTypeOK, Counters
    <1>2. EntriesAccounted'
        BY DEF EntriesAccounted
    <1> QED BY <1>1, <1>2 DEF CachesInv

LEMMA CachesStart ==
    ASSUME CachesInit
    PROVE  CachesInv
    <1>1. DOMAIN store = {}
        BY DEF CachesInit
    <1>2. IsFiniteSet({}) /\ Cardinality({}) = 0
        BY FS_EmptySet
    <1>3. metrics \in [Counters -> Nat] /\ metrics.size = 0 /\ metrics.expirations = 0 /\ metrics.evictions = 0
        BY DEF CachesInit, Counters
    <1>4. clock \in 1..MaxClock /\ cleaning \in BOOLEAN /\ added = 0 /\ removed = 0
        BY CachesAssumption DEF CachesInit, CachesAssumption
    <1>5. CachesTypeOK
        BY <1>1, <1>3, <1>4, CachesAssumption DEF CachesTypeOK, Counters, CachesAssumption
    <1>6. EntriesAccounted
        BY <1>1, <1>2, <1>3, <1>4, CachesAssumption DEF EntriesAccounted, CachesAssumption
    <1> QED BY <1>1, <1>2, <1>5, <1>6 DEF CachesInv

\* A get notes what it found, and drops what expired without noting the size.
LEMMA GetKeeps ==
    ASSUME CachesInv, NEW k \in CacheKeys, Get(k)
    PROVE  CachesInv'
    <1> USE CachesAssumption
    <1>0. /\ Cardinality(DOMAIN store) \in Nat
          /\ \A f \in Counters : metrics[f] \in Nat
          /\ metrics = [f \in Counters |-> metrics[f]]
          /\ added = Cardinality(DOMAIN store) + removed + metrics.expirations + metrics.evictions
          /\ MaxEntries > 0 => Cardinality(DOMAIN store) <= MaxEntries
          /\ Cardinality(DOMAIN store) <= metrics.size
        BY CacheFacts
    <1>1. /\ clock' \in 1..MaxClock /\ cleaning' \in BOOLEAN
          /\ added' \in 0..MaxSets /\ removed' \in Nat /\ removed' = removed /\ added' = added
        BY DEF CachesInv, CachesTypeOK, Get
    <1>2. MaxEntries \in Nat
        BY DEF CachesAssumption
    <1>t. DOMAIN store \subseteq CacheKeys /\ IsFiniteSet(DOMAIN store)
          /\ \A x \in DOMAIN store : store[x] \in Entries
        BY DEF CachesInv, CachesTypeOK
    <1>3. CASE k \notin DOMAIN store /\ metrics' = Missed /\ UNCHANGED store
        <2>1. /\ metrics' \in [Counters -> Nat] /\ metrics'.size = metrics.size
              /\ metrics'.expirations = metrics.expirations /\ metrics'.evictions = metrics.evictions
            BY <1>0, <1>3 DEF Missed, Counters
        <2> QED BY <1>0, <1>1, <1>t, <1>3, <2>1, CachesHold
    <1>4. CASE /\ k \in DOMAIN store
               /\ store' = Without({k})
               /\ metrics' = [Missed EXCEPT !.expirations = @ + 1]
        <2>1. /\ metrics' \in [Counters -> Nat] /\ metrics'.size = metrics.size
              /\ metrics'.expirations = metrics.expirations + 1 /\ metrics'.evictions = metrics.evictions
            <3> DEFINE was == Missed
            <3>1. /\ was \in [Counters -> Nat] /\ was.size = metrics.size
                  /\ was.expirations = metrics.expirations /\ was.evictions = metrics.evictions
                BY MetricsTyped DEF Missed, Counters
            <3>2. metrics' = [was EXCEPT !.expirations = was.expirations + 1]
                BY <1>4
            <3> HIDE DEF was
            <3> QED BY <3>1, <3>2 DEF Counters
        <2>2. {k} \in SUBSET DOMAIN store /\ Cardinality({k}) = 1
            BY <1>4, FS_Singleton
        <2>3. /\ DOMAIN store' \subseteq CacheKeys
              /\ \A x \in DOMAIN store' : store'[x] \in Entries
              /\ IsFiniteSet(DOMAIN store')
              /\ Cardinality(DOMAIN store') \in Nat
              /\ Cardinality(DOMAIN store) = Cardinality(DOMAIN store') + Cardinality({k})
            BY <1>4, <2>2, WithoutKeepsType
        <2>4. /\ added' = Cardinality(DOMAIN store') + removed' + metrics'.expirations + metrics'.evictions
              /\ MaxEntries > 0 => Cardinality(DOMAIN store') <= MaxEntries
              /\ Cardinality(DOMAIN store') <= metrics'.size
            <3> DEFINE m == Cardinality(DOMAIN store')
            <3>1. m \in Nat /\ Cardinality(DOMAIN store) = m + 1
                BY <2>2, <2>3
            <3>2. metrics.size \in Nat /\ metrics.expirations \in Nat /\ metrics.evictions \in Nat /\ removed \in Nat
                BY <1>0, <1>1 DEF Counters
            <3> HIDE DEF m
            <3>3. added' = m + removed' + metrics'.expirations + metrics'.evictions
                BY <1>0, <1>1, <2>1, <3>1, <3>2
            <3>4. (MaxEntries > 0 => m <= MaxEntries) /\ m <= metrics'.size
                BY <1>0, <1>2, <2>1, <3>1, <3>2
            <3> QED BY <3>3, <3>4 DEF m
        <2> QED BY <1>1, <2>1, <2>3, <2>4, CachesHold
    <1>5. CASE /\ k \in DOMAIN store
               /\ store' = [store EXCEPT ![k].lastAccessedAt = clock, ![k].accessCount = @ + 1]
               /\ metrics' = [metrics EXCEPT !.hits = @ + 1]
        <2>1. /\ metrics' \in [Counters -> Nat] /\ metrics'.size = metrics.size
              /\ metrics'.expirations = metrics.expirations /\ metrics'.evictions = metrics.evictions
            BY <1>0, <1>5 DEF Counters
        <2>2. DOMAIN store' = DOMAIN store
            BY <1>5
        <2>3. clock \in 0..MaxClock
            BY CacheFacts, CachesAssumption DEF CachesAssumption
        <2>4. \A x \in DOMAIN store' : store'[x] \in Entries
            <3>1. SUFFICES ASSUME NEW x \in DOMAIN store PROVE store'[x] \in Entries
                BY <2>2
            <3>2. store[x] \in Entries
                BY <1>t
            <3>3. CASE x # k
                BY <1>5, <3>2, <3>3
            <3>4. CASE x = k
                <4> DEFINE e == store[x]
                           seen == [e EXCEPT !.lastAccessedAt = clock]
                <4>1. store'[x] = [seen EXCEPT !.accessCount = e.accessCount + 1]
                    BY <1>5, <3>4
                <4>2. e \in Entries
                    BY <3>2
                <4> HIDE DEF e
                <4>3. seen \in Entries
                    BY <2>3, <4>2 DEF Entries
                <4>4. e.accessCount + 1 \in Nat
                    BY <4>2 DEF Entries
                <4> HIDE DEF seen
                <4> QED BY <4>1, <4>3, <4>4 DEF Entries
            <3> QED BY <3>3, <3>4
        <2> QED BY <1>0, <1>1, <1>t, <2>1, <2>2, <2>4, CachesHold
    <1> QED BY <1>3, <1>4, <1>5 DEF Get

\* A set evicts one entry exactly when the cache is full and the key is new.
LEMMA SetKeeps ==
    ASSUME CachesInv, NEW k \in CacheKeys, NEW ttl \in TTLs, NEW tag \in Tags, Set(k, ttl, tag)
    PROVE  CachesInv'
    <1> USE CachesAssumption
    <1> DEFINE n == Cardinality(DOMAIN store)
               full == MaxEntries > 0 /\ k \notin DOMAIN store /\ n >= MaxEntries
               entry == [expiresAt |-> IF ttl > 0 THEN clock + ttl ELSE 0,
                         lastAccessedAt |-> clock, accessCount |-> 0, tag |-> tag]
               m == Cardinality(DOMAIN store')
    <1>0. /\ n \in Nat
          /\ \A f \in Counters : metrics[f] \in Nat
          /\ metrics = [f \in Counters |-> metrics[f]]
          /\ added \in Nat /\ added <= MaxSets /\ removed \in Nat
          /\ clock \in Nat /\ clock <= MaxClock /\ clock >= 1
          /\ added = n + removed + metrics.expirations + metrics.evictions
          /\ MaxEntries > 0 => n <= MaxEntries
          /\ n <= metrics.size
        BY CacheFacts
    <1>t. DOMAIN store \subseteq CacheKeys /\ IsFiniteSet(DOMAIN store)
          /\ \A x \in DOMAIN store : store[x] \in Entries
        BY DEF CachesInv, CachesTypeOK
    <1>1. PICK out \in SUBSET DOMAIN store :
             /\ IF full THEN \E o \in DOMAIN store : Lowest(o) /\ out = {o} ELSE out = {}
             /\ store' = [x \in (DOMAIN store \ out) \cup {k} |-> IF x = k THEN entry ELSE store[x]]
             /\ metrics' = [metrics EXCEPT !.evictions = @ + Cardinality(out), !.size = m]
        BY DEF Set
    <1>2. /\ added < MaxSets /\ added' = IF k \in DOMAIN store THEN added ELSE added + 1
          /\ UNCHANGED <<clock, cleaning, removed>>
        BY DEF Set
    <1>3. MaxEntries \in Nat /\ MaxSets \in Nat /\ MaxClock \in Nat /\ ttl \in Nat
        BY DEF CachesAssumption
    <1>4. entry \in Entries
        <2>1. (IF ttl > 0 THEN clock + ttl ELSE 0) \in Nat
            BY <1>0, <1>3
        <2>2. clock \in 0..MaxClock
            BY <1>0, <1>3
        <2> QED BY <2>1, <2>2 DEF Entries
    <1> DEFINE left == DOMAIN store \ out
    <1>5. /\ IsFiniteSet(left) /\ Cardinality(out) \in Nat /\ Cardinality(left) \in Nat
          /\ n = Cardinality(left) + Cardinality(out)
        BY <1>t, DropCounts
    <1>6. DOMAIN store' = left \cup {k}
        BY <1>1
    <1>7. IsFiniteSet(DOMAIN store') /\ m = IF k \in left THEN Cardinality(left) ELSE Cardinality(left) + 1
        <2> HIDE DEF left
        <2>1. IsFiniteSet(left \cup {k}) /\ Cardinality(left \cup {k}) = IF k \in left THEN Cardinality(left) ELSE Cardinality(left) + 1
            BY <1>5, FS_AddElement
        <2> QED BY <1>6, <2>1
    <1>8. (full => Cardinality(out) = 1) /\ (~full => Cardinality(out) = 0)
        BY <1>1, FS_Singleton, FS_EmptySet
    <1>9. k \in left <=> k \in DOMAIN store
        <2>1. CASE full
            BY <2>1
        <2>2. CASE ~full
            BY <1>1, <2>2
        <2> QED BY <2>1, <2>2
    <1>10. \A x \in DOMAIN store' : store'[x] \in Entries
        <2> HIDE DEF entry
        <2> QED BY <1>1, <1>4, <1>6, <1>t
    <1>11. DOMAIN store' \subseteq CacheKeys
        BY <1>6, <1>t
    <1>12. m \in Nat
        BY <1>5, <1>7
    <1>13. /\ metrics' \in [Counters -> Nat] /\ metrics'.size = m
           /\ metrics'.expirations = metrics.expirations
           /\ metrics'.evictions = metrics.evictions + Cardinality(out)
        <2> DEFINE e == metrics.evictions + Cardinality(out)
        <2>1. e \in Nat
            BY <1>0, <1>5 DEF Counters
        <2>2. metrics' = [metrics EXCEPT !.evictions = e, !.size = m]
            BY <1>1
        <2> DEFINE w == metrics'
        <2>4. metrics \in [Counters -> Nat] /\ m \in Nat /\ w = [metrics EXCEPT !.evictions = e, !.size = m]
            BY <1>12, <2>2, MetricsTyped
        <2> HIDE DEF m, e, w
        <2>5. w \in [Counters -> Nat] /\ w.size = m /\ w.expirations = metrics.expirations /\ w.evictions = e
            <3>1. [metrics EXCEPT !.evictions = e] \in [Counters -> Nat]
                BY <2>1, <2>4 DEF Counters
            <3>2. w \in [Counters -> Nat]
                BY <2>4, <3>1 DEF Counters
            <3> QED BY <2>4, <3>2 DEF Counters
        <2>3. /\ metrics' \in [Counters -> Nat] /\ metrics'.size = m
              /\ metrics'.expirations = metrics.expirations /\ metrics'.evictions = e
            BY <2>5 DEF w
        <2> QED BY <2>3 DEF e
    <1>14. metrics.expirations \in Nat /\ metrics.evictions \in Nat
        BY <1>0 DEF Counters
    <1> DEFINE l == Cardinality(left)
               c == Cardinality(out)
    <1>15. added' = m + removed' + metrics'.expirations + metrics'.evictions
        <2>1. l \in Nat /\ c \in Nat /\ n = l + c /\ m = IF k \in DOMAIN store THEN l ELSE l + 1
            BY <1>5, <1>7, <1>9
        <2> HIDE DEF m, n, l
        <2>2. metrics'.evictions = metrics.evictions + c
            BY <1>13
        <2> HIDE DEF c
        <2> QED BY <1>0, <1>2, <1>12, <1>13, <1>14, <2>1, <2>2
    <1>16. MaxEntries > 0 => m <= MaxEntries
        <2>1. l \in Nat /\ c \in Nat /\ n = l + c /\ m = IF k \in DOMAIN store THEN l ELSE l + 1
            BY <1>5, <1>7, <1>9
        <2>2. (full => c = 1) /\ (~full => c = 0)
            BY <1>8
        <2> HIDE DEF m, n, l, c
        <2> QED BY <1>0, <1>3, <2>1, <2>2
    <1>17. clock' \in 1..MaxClock /\ cleaning' \in BOOLEAN
        BY <1>2 DEF CachesInv, CachesTypeOK
    <1>18. added' \in 0..MaxSets /\ removed' \in Nat
        BY <1>0, <1>2, <1>3
    <1>19. m <= metrics'.size
        BY <1>12, <1>13
    <1> HIDE DEF entry, full, n, left
    <1> QED BY <1>7, <1>10, <1>11, <1>13, <1>15, <1>16, <1>17, <1>18, <1>19, CachesHold

\* What is dropped on request is counted as removed.
LEMMA DropKeeps ==
    ASSUME CachesInv, NEW ks \in SUBSET DOMAIN store,
           store' = Without(ks),
           metrics' = [metrics EXCEPT !.size = Cardinality(DOMAIN store')],
           removed' = removed + Cardinality(ks), cleaning' \in BOOLEAN, UNCHANGED <<clock, added>>
    PROVE  CachesInv'
    <1> USE CachesAssumption
    <1> DEFINE n == Cardinality(DOMAIN store)
               m == Cardinality(DOMAIN store')
               c == Cardinality(ks)
    <1>0. /\ n \in Nat
          /\ \A f \in Counters : metrics[f] \in Nat
          /\ metrics = [f \in Counters |-> metrics[f]]
          /\ removed \in Nat
          /\ added = n + removed + metrics.expirations + metrics.evictions
          /\ MaxEntries > 0 => n <= MaxEntries
        BY CacheFacts
    <1>1. /\ DOMAIN store' \subseteq CacheKeys
          /\ \A x \in DOMAIN store' : store'[x] \in Entries
          /\ IsFiniteSet(DOMAIN store')
          /\ m \in Nat /\ c \in Nat /\ n = m + c
        BY WithoutKeepsType
    <1>2. /\ metrics' \in [Counters -> Nat] /\ metrics'.size = m
          /\ metrics'.expirations = metrics.expirations /\ metrics'.evictions = metrics.evictions
        <2>1. metrics' = [metrics EXCEPT !.size = m]
            OBVIOUS
        <2> HIDE DEF m
        <2> QED BY <1>0, <1>1, <2>1 DEF Counters
    <1>3. metrics.expirations \in Nat /\ metrics.evictions \in Nat /\ MaxEntries \in Nat
        BY <1>0 DEF Counters, CachesAssumption
    <1>4. /\ added' = m + removed' + metrics'.expirations + metrics'.evictions
          /\ MaxEntries > 0 => m <= MaxEntries
          /\ m <= metrics'.size /\ removed' \in Nat
        <2>1. removed' = removed + c /\ added' = added
            OBVIOUS
        <2> HIDE DEF n, m, c
        <2> QED BY <1>0, <1>1, <1>2, <1>3, <2>1
    <1>5. clock' \in 1..MaxClock /\ added' \in 0..MaxSets
        BY DEF CachesInv, CachesTypeOK
    <1> QED BY <1>1, <1>2, <1>4, <1>5, CachesHold

\* What is found expired is counted as expired.
LEMMA ExpiredKeeps ==
    ASSUME CachesInv, NEW ks \in SUBSET DOMAIN store, Expired(ks)
    PROVE  CachesInv'
    <1> USE CachesAssumption
    <1> DEFINE n == Cardinality(DOMAIN store)
               m == Cardinality(DOMAIN store')
               c == Cardinality(ks)
    <1>0. /\ n \in Nat
          /\ \A f \in Counters : metrics[f] \in Nat
          /\ metrics = [f \in Counters |-> metrics[f]]
          /\ removed \in Nat
          /\ added = n + removed + metrics.expirations + metrics.evictions
          /\ MaxEntries > 0 => n <= MaxEntries
        BY CacheFacts
    <1>1. /\ DOMAIN store' \subseteq CacheKeys
          /\ \A x \in DOMAIN store' : store'[x] \in Entries
          /\ IsFiniteSet(DOMAIN store')
          /\ m \in Nat /\ c \in Nat /\ n = m + c
        BY WithoutKeepsType DEF Expired
    <1>2. /\ metrics' \in [Counters -> Nat] /\ metrics'.size = m
          /\ metrics'.expirations = metrics.expirations + c /\ metrics'.evictions = metrics.evictions
        <2> DEFINE e == metrics.expirations + c
        <2>1. e \in Nat
            BY <1>0, <1>1 DEF Counters
        <2>2. metrics' = [metrics EXCEPT !.expirations = e, !.size = m]
            BY DEF Expired
        <2> DEFINE w == metrics'
        <2>4. metrics \in [Counters -> Nat] /\ m \in Nat /\ w = [metrics EXCEPT !.expirations = e, !.size = m]
            BY <1>1, <2>2, MetricsTyped
        <2> HIDE DEF m, e, c, w
        <2>5. w \in [Counters -> Nat] /\ w.size = m /\ w.evictions = metrics.evictions /\ w.expirations = e
            <3>1. [metrics EXCEPT !.expirations = e] \in [Counters -> Nat]
                BY <2>1, <2>4 DEF Counters
            <3>2. w \in [Counters -> Nat]
                BY <2>4, <3>1 DEF Counters
            <3> QED BY <2>4, <3>2 DEF Counters
        <2>3. /\ metrics' \in [Counters -> Nat] /\ metrics'.size = m
              /\ metrics'.expirations = e /\ metrics'.evictions = metrics.evictions
            BY <2>5 DEF w
        <2> QED BY <2>3 DEF e
    <1>3. metrics.expirations \in Nat /\ metrics.evictions \in Nat /\ MaxEntries \in Nat
        BY <1>0 DEF Counters, CachesAssumption
    <1>4. /\ added' = m + removed' + metrics'.expirations + metrics'.evictions
          /\ MaxEntries > 0 => m <= MaxEntries
          /\ m <= metrics'.size
        <2>1. removed' = removed /\ added' = added
            BY DEF Expired
        <2> HIDE DEF n, m, c
        <2> QED BY <1>0, <1>1, <1>2, <1>3, <2>1
    <1>5. clock' \in 1..MaxClock /\ added' \in 0..MaxSets /\ removed' \in Nat /\ cleaning' \in BOOLEAN
        BY DEF CachesInv, CachesTypeOK, Expired
    <1> QED BY <1>1, <1>2, <1>4, <1>5, CachesHold

LEMMA CachesStep ==
    ASSUME CachesInv, [CachesNext]_cacheVars
    PROVE  CachesInv'
    <1>0. cleaning \in BOOLEAN
        BY DEF CachesInv, CachesTypeOK
    <1>1. ASSUME NEW k \in CacheKeys, Get(k) PROVE CachesInv'
        BY <1>1, GetKeeps
    <1>2. ASSUME NEW k \in CacheKeys, Has(k) PROVE CachesInv'
        <2>1. {k} \in SUBSET DOMAIN store /\ Expired({k})
            BY <1>2 DEF Has
        <2> QED BY <2>1, ExpiredKeeps
    <1>3. ASSUME NEW ks \in SUBSET DOMAIN store, Drop(ks) PROVE CachesInv'
        BY <1>0, <1>3, DropKeeps DEF Drop
    <1>4. ASSUME NEW k \in CacheKeys, Delete(k) PROVE CachesInv'
        <2>1. {k} \in SUBSET DOMAIN store /\ Drop({k})
            BY <1>4 DEF Delete
        <2> QED BY <2>1, <1>3
    <1>5. ASSUME NEW tag \in Tags, DeleteByTag(tag) PROVE CachesInv'
        BY <1>3, <1>5 DEF DeleteByTag
    <1>6. CASE Clear
        BY <1>3, <1>6 DEF Clear
    <1>7. ASSUME NEW k \in CacheKeys, NEW ttl \in TTLs, NEW tag \in Tags, Set(k, ttl, tag) PROVE CachesInv'
        BY <1>7, SetKeeps
    <1>8. CASE Cleanup
        BY <1>8, ExpiredKeeps DEF Cleanup
    <1>9. CASE Shutdown
        <2> DEFINE all == DOMAIN store
        <2>1. /\ store' = Without(all) /\ removed' = removed + Cardinality(all)
              /\ cleaning' \in BOOLEAN /\ UNCHANGED <<clock, added>>
            BY <1>9 DEF Shutdown
        <2>2. DOMAIN store' = {}
            BY <2>1, WithoutFacts
        <2>3. metrics' = [metrics EXCEPT !.size = Cardinality(DOMAIN store')]
            BY <1>9, <2>2, FS_EmptySet DEF Shutdown
        <2> QED BY <2>1, <2>3, DropKeeps
    <1>10. CASE PassTime
        <2>1. clock' \in 1..MaxClock
            BY <1>10, CachesAssumption, CacheFacts DEF PassTime, CachesAssumption
        <2>2. UNCHANGED <<store, metrics, cleaning, added, removed>>
            BY <1>10 DEF PassTime
        <2> QED BY <2>1, <2>2 DEF CachesInv, CachesTypeOK, EntriesAccounted
    <1>11. CASE UNCHANGED cacheVars
        BY <1>11 DEF CachesInv, CachesTypeOK, EntriesAccounted, cacheVars
    <1> QED BY <1>1, <1>2, <1>4, <1>5, <1>6, <1>7, <1>8, <1>9, <1>10, <1>11 DEF CachesNext

LEMMA CachesInvariant == CachesSpec => []CachesInv
    <1>1. CachesInit => CachesInv
        BY CachesStart
    <1>2. CachesInv /\ [CachesNext]_cacheVars => CachesInv'
        BY CachesStep
    <1> QED BY <1>1, <1>2, PTL DEF CachesSpec

\* The cache of the indexer client keeps its types: its counters never go
\* below zero, and time and the entries stored stay in their bounds
\* (memory-cache.ts:19-60).
THEOREM CachesTypeCorrect == CachesSpec => []CachesTypeOK
    <1>1. CachesInv => CachesTypeOK
        BY DEF CachesInv
    <1> QED BY <1>1, CachesInvariant, PTL

\* Every entry ever put into the cache is still there, or was counted once as
\* expired or evicted, or was deleted on request - whichever of get, has, the
\* clean-up or the eviction met it first - and the cache never outgrows its
\* limit (memory-cache.ts:48-300).
THEOREM CachesBalance == CachesSpec => []EntriesAccounted
    <1>1. CachesInv => EntriesAccounted
        BY DEF CachesInv
    <1> QED BY <1>1, CachesInvariant, PTL

-----------------------------------------------------------------------------
(***************************************************************************)
(* Reveals that are built again, and their entries in the tracker.         *)
(***************************************************************************)

BuildRecords == [at : {"idle", "health", "backoff", "returned", "thrown"},
                 tries : 0..MaxTries, ids : Seq(Moments), retry : BOOLEAN,
                 code : Codes \cup {"none"}]
EntryRecords == [status : {"none", "CONFIRMING", "FAILED"}, code : Codes \cup {"none"}]

OnlyOf(t, m) == \A u \in Builds : m \in IdsOf(u) => u = t

StatusOf(b, m) == IF b.at = "returned" /\ m = b.ids[Len(b.ids)] THEN "CONFIRMING" ELSE "FAILED"

\* A build that may make an entry made its others at earlier moments; and the
\* entries that only it made say how its attempts ended.
BuildMarked(t) ==
    /\ build[t].at \in {"idle", "health"} => \A m \in IdsOf(t) : m < moment
    /\ \A m \in IdsOf(t) : OnlyOf(t, m) => tracker[m].status = StatusOf(build[t], m)
    /\ build[t].at = "backoff" => build[t].tries < MaxTries

ErrorInv ==
    /\ moment \in Moments
    /\ build \in [Builds -> BuildRecords]
    /\ tracker \in [Moments -> EntryRecords]
    /\ \A t \in Builds : BuildMarked(t)

-----------------------------------------------------------------------------
LEMMA IdsAreMoments ==
    ASSUME ErrorInv, NEW t \in Builds
    PROVE  /\ IdsOf(t) \subseteq Moments
           /\ build[t].ids \in Seq(Moments) /\ Len(build[t].ids) \in Nat
           /\ \A k \in 1..Len(build[t].ids) : build[t].ids[k] \in IdsOf(t)
    <1>1. build[t].ids \in Seq(Moments)
        BY DEF ErrorInv, BuildRecords
    <1>2. Len(build[t].ids) \in Nat /\ \A k \in 1..Len(build[t].ids) : build[t].ids[k] \in Moments
        BY <1>1
    <1> QED BY <1>1, <1>2 DEF IdsOf

\* An entry made by one build alone is what UsedOnce counts.
LEMMA OnceIsOnly ==
    ASSUME NEW t \in Builds, NEW m \in IdsOf(t)
    PROVE  UsedOnce(m) <=> OnlyOf(t, m)
    <1> DEFINE S == {u \in Builds : m \in IdsOf(u)}
    <1>1. IsFiniteSet(S)
        <2>1. IsFiniteSet(Builds) /\ S \in SUBSET Builds
            BY ErrorRecoveryAssumption DEF ErrorRecoveryAssumption
        <2> HIDE DEF S
        <2> QED BY <2>1, FS_Subset
    <1>2. t \in S
        OBVIOUS
    <1>3. UsedOnce(m) <=> Cardinality(S) = 1
        BY DEF UsedOnce
    <1>4. Cardinality(S) = 1 <=> \E x : S = {x}
        <2> HIDE DEF S
        <2> QED BY <1>1, FS_Singleton
    <1>5. (\E x : S = {x}) <=> (\A u \in S : u = t)
        BY <1>2
    <1> QED BY <1>3, <1>4, <1>5 DEF OnlyOf

\* Steps after which the same moments were used by the same builds, time may
\* have gone on, and only a build that has not returned goes on.
LEMMA SameEntries ==
    ASSUME ErrorInv, moment' \in Moments, moment <= moment',
           NEW t \in Builds, NEW b \in BuildRecords,
           build' = [build EXCEPT ![t] = b],
           b.ids = build[t].ids, b.at # "returned", build[t].at # "returned",
           b.at \in {"idle", "health"} => \A m \in IdsOf(t) : m < moment,
           b.at = "backoff" => b.tries < MaxTries,
           tracker' = tracker
    PROVE  ErrorInv'
    <1>1. build' \in [Builds -> BuildRecords] /\ tracker' \in [Moments -> EntryRecords]
        BY DEF ErrorInv
    <1>2. ASSUME NEW u \in Builds PROVE /\ IdsOf(u)' = IdsOf(u)
                                         /\ build'[u].ids = build[u].ids
                                         /\ (u = t => build'[u] = b) /\ (u # t => build'[u] = build[u])
        BY DEF ErrorInv, IdsOf
    <1>3. ASSUME NEW u \in Builds PROVE BuildMarked(u)'
        <2>1. BuildMarked(u)
            BY DEF ErrorInv
        <2>2. ASSUME build'[u].at \in {"idle", "health"}, NEW m \in IdsOf(u) PROVE m < moment'
            <3>1. m < moment
                BY <1>2, <2>1, <2>2 DEF BuildMarked
            <3>2. m \in Nat /\ moment \in Nat /\ moment' \in Nat
                BY <2>2, IdsAreMoments, ErrorRecoveryAssumption DEF ErrorInv, Moments, ErrorRecoveryAssumption
            <3> QED BY <3>1, <3>2
        <2>3. ASSUME NEW m \in IdsOf(u), OnlyOf(u, m)'
              PROVE  tracker'[m].status = StatusOf(build'[u], m)
            <3>1. OnlyOf(u, m)
                BY <1>2, <2>3 DEF OnlyOf
            <3>2. tracker[m].status = StatusOf(build[u], m)
                BY <2>1, <2>3, <3>1 DEF BuildMarked
            <3>3. StatusOf(build'[u], m) = StatusOf(build[u], m)
                BY <1>2 DEF StatusOf
            <3> QED BY <3>2, <3>3
        <2>4. build'[u].at = "backoff" => build'[u].tries < MaxTries
            BY <1>2, <2>1 DEF BuildMarked
        <2> QED BY <1>2, <2>2, <2>3, <2>4 DEF BuildMarked, StatusOf
    <1> QED BY <1>1, <1>3 DEF ErrorInv

\* An attempt of a build makes an entry, which is new to it.
LEMMA NewEntry ==
    ASSUME ErrorInv, NEW t \in Builds, build[t].at = "health",
           NEW b \in BuildRecords, NEW e \in EntryRecords,
           build' = [build EXCEPT ![t] = b], b.ids = Append(build[t].ids, moment),
           b.at \in {"returned", "backoff", "thrown"},
           b.at = "backoff" => b.tries < MaxTries,
           tracker' = [tracker EXCEPT ![moment] = e],
           e.status = IF b.at = "returned" THEN "CONFIRMING" ELSE "FAILED",
           moment' = moment
    PROVE  ErrorInv'
    <1>0. /\ moment \in Moments /\ build \in [Builds -> BuildRecords]
          /\ tracker \in [Moments -> EntryRecords] /\ \A u \in Builds : BuildMarked(u)
        BY DEF ErrorInv
    <1>1. build' \in [Builds -> BuildRecords] /\ tracker' \in [Moments -> EntryRecords]
        BY <1>0
    <1>2. /\ build'[t] = b
          /\ \A u \in Builds : u # t => build'[u] = build[u] /\ IdsOf(u)' = IdsOf(u)
        BY <1>0 DEF IdsOf
    <1> DEFINE s == build[t].ids
    <1>3. s \in Seq(Moments) /\ Len(s) \in Nat
        BY IdsAreMoments
    <1>4. /\ Len(b.ids) = Len(s) + 1 /\ b.ids[Len(s) + 1] = moment
          /\ \A k \in 1..Len(s) : b.ids[k] = s[k]
        BY <1>0, <1>3
    <1>5. IdsOf(t)' = {b.ids[k] : k \in 1..Len(b.ids)}
        BY <1>2 DEF IdsOf
    <1>6. IdsOf(t) = {s[k] : k \in 1..Len(s)}
        BY DEF IdsOf
    <1>7. IdsOf(t)' = IdsOf(t) \cup {moment}
        <2> HIDE DEF s
        <2>1. \A k \in 1..(Len(s) + 1) : k \in 1..Len(s) \/ k = Len(s) + 1
            BY <1>3
        <2>2. \A k \in 1..Len(s) : k \in 1..(Len(s) + 1)
            BY <1>3
        <2>3. Len(s) + 1 \in 1..(Len(s) + 1)
            BY <1>3
        <2> QED BY <1>4, <1>5, <1>6, <2>1, <2>2, <2>3
    <1>8. \A m \in IdsOf(t) : m < moment /\ m # moment
        <2>1. \A m \in IdsOf(t) : m < moment /\ m \in Nat /\ moment \in Nat
            BY <1>0, IdsAreMoments DEF BuildMarked, Moments
        <2> QED BY <2>1
    <1>9. ASSUME NEW u \in Builds, u # t PROVE BuildMarked(u)'
        <2>1. BuildMarked(u) /\ build'[u] = build[u] /\ IdsOf(u)' = IdsOf(u)
            BY <1>0, <1>2, <1>9
        <2>2. ASSUME NEW m \in IdsOf(u), OnlyOf(u, m)'
              PROVE  tracker'[m].status = StatusOf(build'[u], m)
            <3>1. m \notin IdsOf(t)'
                BY <1>9, <2>2 DEF OnlyOf
            <3>2. m # moment /\ m \notin IdsOf(t)
                BY <1>7, <3>1
            <3>3. OnlyOf(u, m)
                <4>1. ASSUME NEW w \in Builds, m \in IdsOf(w) PROVE w = u
                    <5>1. w # t
                        BY <3>2, <4>1
                    <5>2. m \in IdsOf(w)'
                        BY <1>2, <4>1, <5>1
                    <5> QED BY <2>2, <5>2 DEF OnlyOf
                <4> QED BY <4>1 DEF OnlyOf
            <3>4. tracker'[m] = tracker[m]
                BY <1>0, <2>2, <3>2, IdsAreMoments
            <3> QED BY <2>1, <2>2, <3>3, <3>4 DEF BuildMarked
        <2>3. build'[u].at \in {"idle", "health"} => \A m \in IdsOf(u)' : m < moment'
            BY <2>1 DEF BuildMarked
        <2> QED BY <2>1, <2>2, <2>3 DEF BuildMarked, StatusOf
    <1>10. BuildMarked(t)'
        <2>1. BuildMarked(t)
            BY <1>0
        <2>2. ASSUME NEW m \in IdsOf(t)', OnlyOf(t, m)'
              PROVE  tracker'[m].status = StatusOf(b, m)
            <3>1. CASE m = moment
                <4>1. tracker'[m] = e
                    BY <1>0, <3>1
                <4>2. b.ids[Len(b.ids)] = moment
                    BY <1>3, <1>4
                <4>3. StatusOf(b, m) = IF b.at = "returned" THEN "CONFIRMING" ELSE "FAILED"
                    BY <3>1, <4>2 DEF StatusOf
                <4> QED BY <4>1, <4>3
            <3>2. CASE m # moment
                <4>1. m \in IdsOf(t)
                    BY <1>7, <2>2, <3>2
                <4>2. OnlyOf(t, m)
                    <5>1. ASSUME NEW w \in Builds, m \in IdsOf(w) PROVE w = t
                        BY <1>2, <2>2, <5>1 DEF OnlyOf
                    <5> QED BY <5>1 DEF OnlyOf
                <4>3. tracker'[m] = tracker[m]
                    BY <1>0, <3>2, <4>1, IdsAreMoments
                <4>4. tracker[m].status = "FAILED"
                    BY <2>1, <4>1, <4>2 DEF BuildMarked, StatusOf
                <4>5. b.ids[Len(b.ids)] = moment
                    BY <1>3, <1>4
                <4>6. StatusOf(b, m) = "FAILED"
                    BY <3>2, <4>5 DEF StatusOf
                <4> QED BY <4>3, <4>4, <4>6
            <3> QED BY <3>1, <3>2
        <2> QED BY <1>2, <2>2 DEF BuildMarked, StatusOf
    <1> QED BY <1>0, <1>1, <1>9, <1>10 DEF ErrorInv

LEMMA ErrorStart ==
    ASSUME ErrorInit
    PROVE  ErrorInv
    <1>1. moment \in Moments
        BY ErrorRecoveryAssumption DEF ErrorInit, Moments, ErrorRecoveryAssumption
    <1>2. NoBuild \in BuildRecords
        <2>1. <<>> \in Seq(Moments)
            OBVIOUS
        <2>2. 0 \in 0..MaxTries
            BY DEF MaxTries
        <2> QED BY <2>1, <2>2 DEF NoBuild, BuildRecords
    <1>3. NoEntry \in EntryRecords
        BY DEF NoEntry, EntryRecords
    <1>4. build \in [Builds -> BuildRecords] /\ tracker \in [Moments -> EntryRecords]
        BY <1>2, <1>3 DEF ErrorInit
    <1>5. ASSUME NEW t \in Builds PROVE BuildMarked(t)
        <2>1. IdsOf(t) = {} /\ build[t].at = "idle"
            BY DEF ErrorInit, NoBuild, IdsOf
        <2> QED BY <2>1 DEF BuildMarked
    <1> QED BY <1>1, <1>4, <1>5 DEF ErrorInv

LEMMA MessageHandled == Handled("its message") \in Codes
    <1>1. "its message" \notin Codes
        BY DEF Codes, NetworkCodes, WalletCodes, ValidationCodes, SystemCodes
    <1>2. "unexpected_error" \in Codes
        BY DEF Codes, SystemCodes
    <1> DEFINE e == "external_api_error"
               i == "invalid_transaction_hex"
    <1>3. e \in Codes /\ i \in Codes
        BY DEF Codes, NetworkCodes, ValidationCodes
    <1>4. "its message" # e /\ "its message" # i
        OBVIOUS
    <1>5. Handled("its message") = "unexpected_error"
        BY <1>1, <1>4, Zenon DEF Handled
    <1> QED BY <1>2, <1>5

LEMMA ThrownFacts ==
    ASSUME ErrorInv, NEW t \in Builds, NEW c \in Codes
    PROVE  /\ Thrown(t, c) \in BuildRecords
           /\ Thrown(t, c).ids = build[t].ids
           /\ Thrown(t, c).at \in {"backoff", "thrown"}
           /\ Thrown(t, c).at = "backoff" => Thrown(t, c).tries < MaxTries
    <1>1. build[t] \in BuildRecords
        BY DEF ErrorInv
    <1> QED BY <1>1 DEF Thrown, BuildRecords, MaxTries

LEMMA ErrorStep ==
    ASSUME ErrorInv, [ErrorNext]_errorVars
    PROVE  ErrorInv'
    <1>0. /\ moment \in Moments /\ build \in [Builds -> BuildRecords]
          /\ tracker \in [Moments -> EntryRecords] /\ \A u \in Builds : BuildMarked(u)
        BY DEF ErrorInv
    <1>m. moment \in Nat /\ moment <= moment
        BY <1>0 DEF Moments
    <1>1. CASE TickMoment
        <2>1. moment' = moment + 1 /\ moment < MaxMoments /\ build' = build /\ tracker' = tracker
            BY <1>1 DEF TickMoment
        <2>2. moment' \in Moments
            BY <1>0, <2>1, ErrorRecoveryAssumption DEF Moments, ErrorRecoveryAssumption
        <2>3. ASSUME NEW t \in Builds PROVE BuildMarked(t)'
            <3>1. BuildMarked(t) /\ IdsOf(t)' = IdsOf(t)
                BY <1>0, <2>1 DEF IdsOf
            <3>2. \A m \in IdsOf(t) : m < moment => m < moment'
                <4>1. \A m \in IdsOf(t) : m \in Nat
                    BY IdsAreMoments DEF Moments
                <4> QED BY <1>m, <2>1, <4>1
            <3>3. \A m : OnlyOf(t, m)' = OnlyOf(t, m)
                BY <2>1 DEF OnlyOf, IdsOf
            <3> QED BY <2>1, <3>1, <3>2, <3>3 DEF BuildMarked, StatusOf
        <2> QED BY <1>0, <2>1, <2>2, <2>3 DEF ErrorInv
    <1>2. ASSUME NEW t \in Builds, NEW retry \in BOOLEAN, Create(t, retry) PROVE ErrorInv'
        <2> DEFINE b == [build[t] EXCEPT !.at = "health", !.retry = retry, !.tries = 1]
        <2>1. build' = [build EXCEPT ![t] = b] /\ moment' = moment /\ tracker' = tracker /\ build[t].at = "idle"
            BY <1>2 DEF Create
        <2>2. build[t] \in BuildRecords
            BY <1>0
        <2>3. b \in BuildRecords /\ b.ids = build[t].ids /\ b.at = "health"
            <3>1. 1 \in 0..MaxTries
                BY DEF MaxTries
            <3> QED BY <2>2, <3>1 DEF BuildRecords
        <2>4. \A m \in IdsOf(t) : m < moment
            BY <1>0, <2>1 DEF BuildMarked
        <2> HIDE DEF b
        <2> QED BY <1>0, <1>m, <2>1, <2>3, <2>4, SameEntries
    <1>3. ASSUME NEW t \in Builds, Refused(t) PROVE ErrorInv'
        <2>1. PICK c \in {"initialization_failed", "invalid_utxo", "invalid_input", "invalid_fee_rate"} :
                 build' = [build EXCEPT ![t] = Thrown(t, c)]
            BY <1>3 DEF Refused
        <2>2. c \in Codes
            BY DEF Codes, WalletCodes, ValidationCodes, SystemCodes
        <2>3. moment' = moment /\ tracker' = tracker /\ build[t].at = "health"
            BY <1>3 DEF Refused
        <2> DEFINE b == Thrown(t, c)
        <2>4. b \in BuildRecords /\ b.ids = build[t].ids /\ b.at \in {"backoff", "thrown"} /\ (b.at = "backoff" => b.tries < MaxTries) /\ build' = [build EXCEPT ![t] = b]
            BY <2>1, <2>2, ThrownFacts
        <2> HIDE DEF b
        <2> QED BY <1>0, <1>m, <2>3, <2>4, SameEntries
    <1>4. ASSUME NEW t \in Builds, TryAgain(t) PROVE ErrorInv'
        <2> DEFINE b == [build[t] EXCEPT !.at = "health", !.tries = @ + 1]
        <2>1. build' = [build EXCEPT ![t] = b] /\ moment' = moment /\ tracker' = tracker /\ build[t].at = "backoff"
            BY <1>4 DEF TryAgain
        <2>2. \A m \in IdsOf(t) : m < moment
            BY <1>4 DEF TryAgain, IdsOf
        <2>3. b \in BuildRecords /\ b.ids = build[t].ids /\ b.at = "health"
            <3>1. build[t].tries < MaxTries
                BY <1>0, <2>1 DEF BuildMarked
            <3> DEFINE r == build[t]
            <3>2. r \in BuildRecords /\ r.tries + 1 \in 0..MaxTries
                BY <1>0, <3>1 DEF BuildRecords, MaxTries
            <3>3. b = [r EXCEPT !.at = "health", !.tries = r.tries + 1]
                OBVIOUS
            <3> HIDE DEF r, b
            <3>4. b \in BuildRecords /\ b.ids = r.ids /\ b.at = "health"
                BY <3>2, <3>3 DEF BuildRecords
            <3> QED BY <3>4 DEF r
        <2> HIDE DEF b
        <2> QED BY <1>0, <1>m, <2>1, <2>2, <2>3, SameEntries
    <1>5. ASSUME NEW t \in Builds, BuildReturns(t) PROVE ErrorInv'
        <2> DEFINE b == [build[t] EXCEPT !.at = "returned", !.ids = Append(@, moment)]
                   e == [status |-> "CONFIRMING", code |-> "none"]
        <2>1. /\ build' = [build EXCEPT ![t] = b] /\ moment' = moment /\ tracker' = [tracker EXCEPT ![moment] = e]
              /\ build[t].at = "health"
            BY <1>5 DEF BuildReturns
        <2>2. e \in EntryRecords /\ e.status = "CONFIRMING"
            BY DEF EntryRecords
        <2>3. b \in BuildRecords /\ b.ids = Append(build[t].ids, moment) /\ b.at = "returned"
            <3> DEFINE a == Append(build[t].ids, moment)
            <3>1. a \in Seq(Moments)
                BY <1>0, IdsAreMoments
            <3>2. b = [build[t] EXCEPT !.at = "returned", !.ids = a]
                OBVIOUS
            <3> HIDE DEF a, b
            <3> QED BY <1>0, <3>1, <3>2 DEF BuildRecords, a
        <2> HIDE DEF b, e
        <2> QED BY <2>1, <2>2, <2>3, NewEntry
    <1>6. ASSUME NEW t \in Builds, BuildFails(t) PROVE ErrorInv'
        <2> DEFINE h == Handled("its message")
        <2>0. h \in Codes
            BY MessageHandled
        <2> HIDE DEF h
        <2>1. PICK own \in {"none", "invalid_transaction"} :
                 /\ tracker' = [tracker EXCEPT ![moment] = FailedEntry(own, h)]
                 /\ build' = [build EXCEPT ![t] = [Thrown(t, h) EXCEPT !.ids = Append(@, moment)]]
            BY <1>6 DEF BuildFails, h
        <2>2. build[t].at = "health" /\ moment' = moment
            BY <1>6 DEF BuildFails
        <2> DEFINE b == [Thrown(t, h) EXCEPT !.ids = Append(@, moment)]
                   e == FailedEntry(own, h)
        <2>3. own \in Codes \cup {"none"}
            BY DEF Codes, ValidationCodes
        <2>4. e \in EntryRecords /\ e.status = "FAILED"
            BY <2>0, <2>3 DEF FailedEntry, EntryRecords
        <2>5. b \in BuildRecords /\ b.ids = Append(build[t].ids, moment) /\ b.at \in {"backoff", "thrown"}
              /\ (b.at = "backoff" => b.tries < MaxTries)
            <3> DEFINE a == Append(build[t].ids, moment)
                       r == Thrown(t, h)
            <3>1. a \in Seq(Moments)
                BY <1>0, IdsAreMoments
            <3>2. r \in BuildRecords /\ r.ids = build[t].ids /\ r.at \in {"backoff", "thrown"}
                  /\ (r.at = "backoff" => r.tries < MaxTries)
                BY <2>0, ThrownFacts
            <3>3. b = [r EXCEPT !.ids = a]
                BY <3>2
            <3> HIDE DEF a, b, r
            <3> QED BY <3>1, <3>2, <3>3 DEF BuildRecords, a
        <2>6. build' = [build EXCEPT ![t] = b] /\ tracker' = [tracker EXCEPT ![moment] = e]
            BY <2>1
        <2> HIDE DEF b, e
        <2> QED BY <2>2, <2>4, <2>5, <2>6, NewEntry
    <1>7. CASE UNCHANGED errorVars
        <2>1. moment' = moment /\ build' = build /\ tracker' = tracker
            BY <1>7 DEF errorVars
        <2> QED BY <2>1 DEF ErrorInv, BuildMarked, StatusOf, OnlyOf, IdsOf
    <1> QED BY <1>1, <1>2, <1>3, <1>4, <1>5, <1>6, <1>7 DEF ErrorNext

LEMMA ErrorInvariant == ErrorSpec => []ErrorInv
    <1>1. ErrorInit => ErrorInv
        BY ErrorStart
    <1>2. ErrorInv /\ [ErrorNext]_errorVars => ErrorInv'
        BY ErrorStep
    <1> QED BY <1>1, <1>2, PTL DEF ErrorSpec

\* Of the entries that the attempts of a build left in the tracker the one it
\* returned is CONFIRMING and all others are FAILED, also for a build whose
\* attempts are still going on - except where another build made an entry in
\* the same millisecond (reveal-transaction.ts:99-318, transaction-tracker.ts).
THEOREM EndedAreMarked == ErrorSpec => []EndedBuildsAreMarked
    <1>1. ErrorInv => EndedBuildsAreMarked
        <2> SUFFICES ASSUME ErrorInv, NEW t \in Builds, NEW m \in IdsOf(t), UsedOnce(m)
                     PROVE  tracker[m].status =
                                IF build[t].at = "returned" /\ m = build[t].ids[Len(build[t].ids)]
                                THEN "CONFIRMING" ELSE "FAILED"
            BY DEF EndedBuildsAreMarked
        <2>1. OnlyOf(t, m)
            BY OnceIsOnly
        <2>2. BuildMarked(t)
            BY DEF ErrorInv
        <2> QED BY <2>1, <2>2 DEF BuildMarked, StatusOf
    <1> QED BY <1>1, ErrorInvariant, PTL

-----------------------------------------------------------------------------
(***************************************************************************)
(* Questions to a provider.                                                *)
(***************************************************************************)

\* A question that was asked has all its parts.
Asked(q) ==
    /\ q.at \in {"list", "items", "ended", "failed"}
    /\ q.kind \in QueryKinds /\ q.provider \in Providers /\ q.slice \in Slices
    /\ q = [at |-> q.at, kind |-> q.kind, provider |-> q.provider, slice |-> q.slice,
            todo |-> q.todo, got |-> q.got, dropped |-> q.dropped, bare |-> q.bare]

\* While a question is under way, what it may have seen includes what is so now.
SpanFits ==
    /\ FreeOuts \subseteq span.free
    /\ span.allFree \subseteq FreeOuts
    /\ owned \subseteq span.unspent
    /\ holder \in span.holders

\* What is promised of the answer holds of what was read with what is yet to be.
ResponseFits(q) ==
    /\ q.kind = "utxos" =>
         /\ q.got \subseteq span.unspent /\ q.got \ q.bare \subseteq span.free
         /\ span.allFree \subseteq q.got \cup q.dropped \cup q.todo
    /\ q.kind = "locations" =>
         /\ \A l \in q.got : l[2] \in span.holders
         /\ 1..span.first \subseteq {l[1] : l \in q.got} \cup q.dropped \cup q.todo
    /\ q.kind = "resource" => q.got \cup q.todo = {q.slice.from + 1}
    /\ q.kind = "collection" =>
         \E n \in span.first..inscribed : q.got \cup q.todo = PartOf(q.slice, n)

QuestionFits(q) ==
    /\ q.at # "none" => Asked(q)
    /\ q.at \in {"list", "items"} => SpanFits
    /\ q.at = "list" => q.todo = {} /\ q.got = {} /\ q.dropped = {}
    /\ q.at = "ended" => q.todo = {}
    /\ q.at \in {"items", "ended"} => ResponseFits(q)

QueriesInv ==
    /\ owned \subseteq Outs /\ gone \subseteq Outs \ owned /\ holder \in owned
    /\ inscribed \in Nat /\ inscribed <= MaxOnSat
    /\ span = [free |-> span.free, allFree |-> span.allFree, unspent |-> span.unspent, holders |-> span.holders, first |-> span.first]
    /\ span.first \in Nat /\ span.first <= inscribed
    /\ question.at \in {"none", "list", "items", "ended", "failed"}
    /\ QuestionFits(question)

-----------------------------------------------------------------------------
LEMMA QueriesStart ==
    ASSUME QueriesInit
    PROVE  QueriesInv
    <1>1. Outs # {} /\ MaxOnSat \in Nat
        BY QueriesAssumption DEF QueriesAssumption
    <1>2. holder \in Outs
        BY <1>1 DEF QueriesInit
    <1>3. /\ owned = {holder} /\ gone = {} /\ inscribed = 0 /\ question.at = "none"
          /\ span = [free |-> {}, allFree |-> {}, unspent |-> {}, holders |-> {}, first |-> 0]
        BY DEF QueriesInit, NoQuery
    <1> QED BY <1>1, <1>2, <1>3 DEF QueriesInv, QuestionFits

\* A block, which a question under way takes note of.
LEMMA BlockKeeps ==
    ASSUME QueriesInv, question' = question, Observed,
           owned' \subseteq Outs, gone' \subseteq Outs \ owned', holder' \in owned',
           inscribed' \in Nat, inscribed' <= MaxOnSat, inscribed <= inscribed'
    PROVE  QueriesInv'
    <1> DEFINE running == question.at \in {"list", "items"}
    <1>0. /\ span = [free |-> span.free, allFree |-> span.allFree, unspent |-> span.unspent, holders |-> span.holders, first |-> span.first]
          /\ inscribed \in Nat
          /\ span.first \in Nat /\ span.first <= inscribed /\ QuestionFits(question)
          /\ question.at \in {"none", "list", "items", "ended", "failed"}
        BY DEF QueriesInv
    <1>1. CASE ~running
        <2>1. span' = span
            BY <1>1 DEF Observed
        <2>2. question.at \in {"items", "ended"} => ResponseFits(question)'
            <3> SUFFICES ASSUME question.at \in {"items", "ended"} PROVE ResponseFits(question)'
                OBVIOUS
            <3>1. ResponseFits(question)
                BY <1>0 DEF QuestionFits
            <3>2. question.kind = "collection" =>
                     \E n \in span.first..inscribed' : question.got \cup question.todo = PartOf(question.slice, n)
                BY <1>0, <3>1 DEF ResponseFits
            <3>3. \A s, n : PartOf(s, n)' = PartOf(s, n)
                BY DEF PartOf
            <3> QED BY <2>1, <3>1, <3>2 DEF ResponseFits, PartOf
        <2>3. QuestionFits(question)'
            BY <1>0, <1>1, <2>2 DEF QuestionFits, Asked
        <2>4. span'.first \in Nat /\ span'.first <= inscribed'
            BY <1>0, <2>1
        <2> QED BY <1>0, <2>1, <2>3, <2>4 DEF QueriesInv
    <1>2. CASE running
        <2> DEFINE f == FreeOuts'
                   o == owned'
        <2>1. span' = [span EXCEPT !.free = @ \cup f, !.allFree = @ \cap f, !.unspent = @ \cup o, !.holders = @ \cup {holder'}]
            BY <1>2 DEF Observed
        <2> HIDE DEF f, o
        <2>2. /\ span'.free = span.free \cup f /\ span'.allFree = span.allFree \cap f
              /\ span'.unspent = span.unspent \cup o
              /\ span'.holders = span.holders \cup {holder'} /\ span'.first = span.first
              /\ span' = [free |-> span.free \cup f, allFree |-> span.allFree \cap f, unspent |-> span.unspent \cup o,
                          holders |-> span.holders \cup {holder'}, first |-> span.first]
            BY <1>0, <2>1
        <2>3. span' = [free |-> span'.free, allFree |-> span'.allFree, unspent |-> span'.unspent, holders |-> span'.holders, first |-> span'.first]
            BY <2>2
        <2>4. SpanFits'
            BY <2>2 DEF SpanFits, f, o
        <2>5. question.at = "items" => ResponseFits(question)'
            <3> SUFFICES ASSUME question.at = "items" PROVE ResponseFits(question)'
                OBVIOUS
            <3>1. ResponseFits(question)
                BY <1>0 DEF QuestionFits
            <3>2. question.kind = "collection" =>
                     \E n \in span.first..inscribed' : question.got \cup question.todo = PartOf(question.slice, n)
                BY <1>0, <3>1 DEF ResponseFits
            <3>3. question.kind = "utxos" =>
                     /\ question.got \subseteq span'.unspent /\ question.got \ question.bare \subseteq span'.free
                     /\ span'.allFree \subseteq question.got \cup question.dropped \cup question.todo
                BY <2>2, <3>1 DEF ResponseFits
            <3>4. question.kind = "locations" =>
                     /\ \A l \in question.got : l[2] \in span'.holders
                     /\ 1..span'.first \subseteq {l[1] : l \in question.got} \cup question.dropped \cup question.todo
                BY <2>2, <3>1 DEF ResponseFits
            <3>5. question.kind = "resource" => question.got \cup question.todo = {question.slice.from + 1}
                BY <3>1 DEF ResponseFits
            <3> QED BY <2>2, <3>2, <3>3, <3>4, <3>5 DEF ResponseFits, PartOf
        <2>6. QuestionFits(question)'
            BY <1>0, <1>2, <2>4, <2>5 DEF QuestionFits, Asked
        <2>7. span'.first \in Nat /\ span'.first <= inscribed'
            BY <1>0, <2>2
        <2> QED BY <1>0, <2>3, <2>6, <2>7 DEF QueriesInv
    <1> QED BY <1>1, <1>2

\* A step of the question while the chain stands still.
LEMMA QuestionKeeps ==
    ASSUME QueriesInv, UNCHANGED <<blocks, span>>,
           question'.at \in {"list", "items", "ended", "failed"},
           QuestionFits(question')
    PROVE  QueriesInv'
    <1>1. /\ owned' = owned /\ gone' = gone /\ holder' = holder /\ inscribed' = inscribed /\ span' = span
        BY DEF blocks
    <1>2. QuestionFits(question)'
        <2> DEFINE q == question'
        <2>1. QuestionFits(q)
            OBVIOUS
        <2> HIDE DEF q
        <2>2. (q.at # "none" => Asked(q)) /\ (q.at \in {"list", "items"} => SpanFits')
            BY <1>1, <2>1 DEF QuestionFits, SpanFits, FreeOuts, Inscribed
        <2>3. q.at \in {"items", "ended"} => ResponseFits(q)
            BY <2>1 DEF QuestionFits
        <2> QED BY <1>1, <2>1, <2>2, <2>3 DEF QuestionFits, ResponseFits, q, PartOf, Asked
    <1> QED BY <1>1, <1>2 DEF QueriesInv

\* The parts of a question after a step.
LEMMA ItemsFields ==
    ASSUME Asked(question), NEW todo
    PROVE  Items(todo) = [at |-> IF todo = {} THEN "ended" ELSE "items", kind |-> question.kind,
                          provider |-> question.provider, slice |-> question.slice,
                          todo |-> todo, got |-> question.got, dropped |-> question.dropped, bare |-> question.bare]
    <1> DEFINE vat == question.at
               vkind == question.kind
               vprovider == question.provider
               vslice == question.slice
               vtodo == question.todo
               vgot == question.got
               vdropped == question.dropped
               vbare == question.bare
               vnow == IF todo = {} THEN "ended" ELSE "items"
    <1>0. question = [at |-> vat, kind |-> vkind, provider |-> vprovider, slice |-> vslice, todo |-> vtodo, got |-> vgot, dropped |-> vdropped, bare |-> vbare]
        BY DEF Asked
    <1> HIDE DEF vat, vkind, vprovider, vslice, vtodo, vgot, vdropped, vbare, vnow
    <1> DEFINE r1 == [question EXCEPT !.at = vnow]
    <1>1. r1 = [at |-> vnow, kind |-> vkind, provider |-> vprovider, slice |-> vslice, todo |-> vtodo, got |-> vgot, dropped |-> vdropped, bare |-> vbare]
        BY <1>0
    <1> HIDE DEF r1
    <1> DEFINE r2 == [r1 EXCEPT !.todo = todo]
    <1>2. r2 = [at |-> vnow, kind |-> vkind, provider |-> vprovider, slice |-> vslice, todo |-> todo, got |-> vgot, dropped |-> vdropped, bare |-> vbare]
        BY <1>1
    <1> HIDE DEF r2
    <1>3. [question EXCEPT !.at = vnow, !.todo = todo] = r2
        BY <1>0, <1>1 DEF r1, r2
    <1> QED BY <1>2, <1>3 DEF Items, vat, vkind, vprovider, vslice, vtodo, vgot, vdropped, vbare, vnow

LEMMA EndsFields ==
    ASSUME Asked(question), NEW got
    PROVE  Ends(got) = [at |-> "ended", kind |-> question.kind,
                        provider |-> question.provider, slice |-> question.slice,
                        todo |-> question.todo, got |-> got, dropped |-> question.dropped, bare |-> question.bare]
    <1> DEFINE vat == question.at
               vkind == question.kind
               vprovider == question.provider
               vslice == question.slice
               vtodo == question.todo
               vgot == question.got
               vdropped == question.dropped
               vbare == question.bare
               vnow == "ended"
    <1>0. question = [at |-> vat, kind |-> vkind, provider |-> vprovider, slice |-> vslice, todo |-> vtodo, got |-> vgot, dropped |-> vdropped, bare |-> vbare]
        BY DEF Asked
    <1> HIDE DEF vat, vkind, vprovider, vslice, vtodo, vgot, vdropped, vbare, vnow
    <1> DEFINE r1 == [question EXCEPT !.at = vnow]
    <1>1. r1 = [at |-> vnow, kind |-> vkind, provider |-> vprovider, slice |-> vslice, todo |-> vtodo, got |-> vgot, dropped |-> vdropped, bare |-> vbare]
        BY <1>0
    <1> HIDE DEF r1
    <1> DEFINE r2 == [r1 EXCEPT !.got = got]
    <1>2. r2 = [at |-> vnow, kind |-> vkind, provider |-> vprovider, slice |-> vslice, todo |-> vtodo, got |-> got, dropped |-> vdropped, bare |-> vbare]
        BY <1>1
    <1> HIDE DEF r2
    <1>3. [question EXCEPT !.at = vnow, !.got = got] = r2
        BY <1>0, <1>1 DEF r1, r2
    <1> QED BY <1>2, <1>3 DEF Ends, vat, vkind, vprovider, vslice, vtodo, vgot, vdropped, vbare, vnow

LEMMA DoneFields ==
    ASSUME Asked(question), NEW item, NEW found
    PROVE  Done(item, found) =
             [at |-> IF question.todo \ {item} = {} THEN "ended" ELSE "items", kind |-> question.kind,
              provider |-> question.provider, slice |-> question.slice,
              todo |-> question.todo \ {item}, got |-> question.got \cup found, dropped |-> question.dropped, bare |-> question.bare]
    <1> DEFINE vat == question.at
               vkind == question.kind
               vprovider == question.provider
               vslice == question.slice
               vtodo == question.todo
               vgot == question.got
               vdropped == question.dropped
               vbare == question.bare
               left == question.todo \ {item}
               more == question.got \cup found
               vnow == IF left = {} THEN "ended" ELSE "items"
    <1>0. question = [at |-> vat, kind |-> vkind, provider |-> vprovider, slice |-> vslice, todo |-> vtodo, got |-> vgot, dropped |-> vdropped, bare |-> vbare]
        BY DEF Asked
    <1> HIDE DEF vat, vkind, vprovider, vslice, vtodo, vgot, vdropped, vbare, left, more, vnow
    <1> DEFINE r1 == [question EXCEPT !.todo = left]
    <1>1. r1 = [at |-> vat, kind |-> vkind, provider |-> vprovider, slice |-> vslice, todo |-> left, got |-> vgot, dropped |-> vdropped, bare |-> vbare]
        BY <1>0
    <1> HIDE DEF r1
    <1> DEFINE r2 == [r1 EXCEPT !.got = more]
    <1>2. r2 = [at |-> vat, kind |-> vkind, provider |-> vprovider, slice |-> vslice, todo |-> left, got |-> more, dropped |-> vdropped, bare |-> vbare]
        BY <1>1
    <1> HIDE DEF r2
    <1> DEFINE r3 == [r2 EXCEPT !.at = vnow]
    <1>3. r3 = [at |-> vnow, kind |-> vkind, provider |-> vprovider, slice |-> vslice, todo |-> left, got |-> more, dropped |-> vdropped, bare |-> vbare]
        BY <1>2
    <1> HIDE DEF r3
    <1>4. [question EXCEPT !.todo = left, !.got = more, !.at = vnow] = r3
        BY <1>0, <1>1 DEF r1, r2, r3
    <1> QED BY <1>3, <1>4 DEF Done, vat, vkind, vprovider, vslice, vtodo, vgot, vdropped, vbare, left, more, vnow

\* What throws ends the question, and is no answer.
LEMMA ThrowKeeps ==
    ASSUME QueriesInv, question.at \in {"list", "items"}, question' = Throws, UNCHANGED <<blocks, span>>
    PROVE  QueriesInv'
    <1>1. Asked(question)
        BY DEF QueriesInv, QuestionFits
    <1>2. question' = [at |-> "failed", kind |-> question.kind,
                       provider |-> question.provider, slice |-> question.slice,
                       todo |-> question.todo, got |-> question.got, dropped |-> question.dropped, bare |-> question.bare]
        BY <1>1 DEF Throws, Asked
    <1>3. question'.at = "failed" /\ Asked(question')
        BY <1>1, <1>2 DEF Asked
    <1>4. QuestionFits(question')
        BY <1>3 DEF QuestionFits
    <1> QED BY <1>3, <1>4, QuestionKeeps

\* A step to a record whose parts fit.
LEMMA StepKeeps ==
    ASSUME QueriesInv, UNCHANGED <<blocks, span>>, question.at \in {"list", "items"},
           NEW todo, NEW got, NEW dropped, NEW bare, NEW at \in {"items", "ended"},
           question' = [at |-> at, kind |-> question.kind, provider |-> question.provider,
                        slice |-> question.slice, todo |-> todo, got |-> got, dropped |-> dropped, bare |-> bare],
           at = "ended" => todo = {},
           ResponseFits(question')
    PROVE  QueriesInv'
    <1>1. Asked(question) /\ SpanFits
        BY DEF QueriesInv, QuestionFits
    <1>2. question'.at = at /\ Asked(question') /\ question'.todo = todo
        BY <1>1 DEF Asked
    <1> DEFINE q == question'
    <1>3. q.at = at /\ Asked(q) /\ q.todo = todo /\ ResponseFits(q)
        BY <1>2
    <1> HIDE DEF q
    <1>4. QuestionFits(q)
        BY <1>1, <1>3 DEF QuestionFits
    <1> QED BY <1>2, <1>4, QuestionKeeps DEF q

LEMMA AskKeeps ==
    ASSUME QueriesInv, NEW kind \in QueryKinds, NEW provider \in Configured, NEW slice \in SlicesOf(kind),
           AskProvider(kind, provider, slice)
    PROVE  QueriesInv'
    <1>1. provider \in Providers
        BY DEF Configured, ProviderFor, Providers, AskProvider
    <1>2. slice \in Slices
        <2>1. MaxOnSat \in Nat
            BY QueriesAssumption DEF QueriesAssumption
        <2>2. [from |-> 0, count |-> 1] \in Slices
            BY DEF Slices
        <2>3. CASE kind = "collection"
            BY <2>3, Zenon DEF SlicesOf
        <2>4. CASE kind = "resource"
            <3>1. "resource" # "collection"
                OBVIOUS
            <3>2. SlicesOf(kind) = {s \in Slices : s.count = 1}
                BY <2>4, <3>1, Zenon DEF SlicesOf
            <3> QED BY <3>2
        <2>5. CASE kind \notin {"collection", "resource"}
            <3>1. SlicesOf(kind) = {[from |-> 0, count |-> 1]}
                BY <2>5, Zenon DEF SlicesOf
            <3> QED BY <2>2, <3>1
        <2> QED BY <2>3, <2>4, <2>5
    <1>3. question' = [at |-> "list", kind |-> kind, provider |-> provider, slice |-> slice,
                       todo |-> {}, got |-> {}, dropped |-> {}, bare |-> {}]
        BY DEF AskProvider
    <1>4. /\ span' = [free |-> FreeOuts, allFree |-> FreeOuts, unspent |-> owned, holders |-> {holder}, first |-> inscribed]
          /\ owned' = owned /\ gone' = gone /\ holder' = holder /\ inscribed' = inscribed
        BY DEF AskProvider, blocks
    <1>5. Asked(question)'
        BY <1>1, <1>2, <1>3 DEF Asked
    <1>6. SpanFits'
        BY <1>4 DEF SpanFits, FreeOuts, Inscribed
    <1>7. QuestionFits(question)'
        BY <1>3, <1>5, <1>6 DEF QuestionFits
    <1> QED BY <1>3, <1>4, <1>7 DEF QueriesInv

\* The list of a question: what is read from it, or the answer at once.
LEMMA ListKeeps ==
    ASSUME QueriesInv,
           \/ OutputsListed \/ OutputsNotListed \/ IdsListed \/ IdsNotListed
           \/ CollectionListed \/ ResourceListed \/ SatListFails
           \/ \E o \in Outs : HasAnswered(o) \/ SatAnswered(o)
    PROVE  QueriesInv'
    <1>0. question.at = "list" /\ UNCHANGED <<blocks, span>>
        BY DEF OutputsListed, OutputsNotListed, IdsListed, IdsNotListed, CollectionListed, ResourceListed,
               SatListFails, HasAnswered, SatAnswered, Listing
    <1>1. Asked(question) /\ SpanFits /\ question.todo = {} /\ question.got = {} /\ question.dropped = {}
        BY <1>0 DEF QueriesInv, QuestionFits
    <1>2. span.first \in Nat /\ inscribed \in Nat /\ span.first <= inscribed
        BY DEF QueriesInv
    <1>3. question.at \in {"list", "items"}
        BY <1>0
    <1>4. ASSUME NEW todo, question' = Items(todo), NEW k, question.kind = k, k \notin {"has", "sat"},
                 k = "utxos" => span.allFree \subseteq todo,
                 k = "locations" => 1..span.first \subseteq todo,
                 k = "resource" => todo = {question.slice.from + 1},
                 k = "collection" => \E n \in span.first..inscribed : todo = PartOf(question.slice, n)
          PROVE  QueriesInv'
        <2> DEFINE at == IF todo = {} THEN "ended" ELSE "items"
        <2>1. question' = [at |-> at, kind |-> question.kind, provider |-> question.provider,
                           slice |-> question.slice, todo |-> todo, got |-> question.got, dropped |-> question.dropped, bare |-> question.bare]
            BY <1>1, <1>4, ItemsFields
        <2>2. ResponseFits(question')
            <3> DEFINE q == question'
            <3>1. q.kind = k /\ q.slice = question.slice /\ q.todo = todo /\ q.got = {} /\ q.dropped = {}
                BY <1>1, <1>4, <2>1
            <3> HIDE DEF q
            <3>2. ResponseFits(q)
                BY <1>4, <3>1 DEF ResponseFits
            <3> QED BY <3>2 DEF q
        <2>3. at \in {"items", "ended"} /\ (at = "ended" => todo = {})
            OBVIOUS
        <2> HIDE DEF at
        <2> QED BY <1>0, <1>3, <2>1, <2>2, <2>3, StepKeeps
    <1>5. ASSUME NEW got, NEW dropped, NEW k, question.kind = k, k \notin {"utxos", "resource", "collection"},
                 question' = [at |-> "ended", kind |-> question.kind, provider |-> question.provider,
                              slice |-> question.slice, todo |-> {}, got |-> got, dropped |-> dropped, bare |-> question.bare],
                 k = "locations" => /\ \A l \in got : l[2] \in span.holders
                                    /\ 1..span.first \subseteq {l[1] : l \in got} \cup dropped
          PROVE  QueriesInv'
        <2>1. ResponseFits(question')
            <3> DEFINE q == question'
            <3>1. q.kind = k /\ q.slice = question.slice /\ q.todo = {} /\ q.got = got /\ q.dropped = dropped
                BY <1>5
            <3> HIDE DEF q
            <3>2. ResponseFits(q)
                BY <1>5, <3>1 DEF ResponseFits
            <3> QED BY <3>2 DEF q
        <2> QED BY <1>0, <1>3, <1>5, <2>1, StepKeeps
    <1>6. CASE OutputsListed
        <2>1. question.kind = "utxos" /\ question' = Items(owned)
            BY <1>6 DEF OutputsListed, Listing
        <2>2. span.allFree \subseteq owned
            BY <1>1 DEF SpanFits, FreeOuts
        <2> QED BY <2>1, <2>2, <1>4
    <1>7. CASE OutputsNotListed
        BY <1>3, <1>7, ThrowKeeps DEF OutputsNotListed
    <1>8. CASE IdsListed
        <2>1. question.kind = "locations"
            BY <1>8 DEF IdsListed, Listing
        <2>2. CASE question.provider = "ordiscan"
            <3> DEFINE got == (1..inscribed) \X {holder}
            <3>1. question' = Ends(got)
                BY <1>8, <2>2 DEF IdsListed
            <3>2. \A l \in got : l[2] \in span.holders
                BY <1>1 DEF SpanFits
            <3>3. \A i \in 1..span.first : \E l \in got : i = l[1]
                <4> SUFFICES ASSUME NEW i \in 1..span.first PROVE \E l \in got : i = l[1]
                    OBVIOUS
                <4>1. i \in 1..inscribed
                    BY <1>2
                <4>2. <<i, holder>> \in got /\ <<i, holder>>[1] = i
                    BY <4>1
                <4> QED BY <4>2
            <3>4. 1..span.first \subseteq {l[1] : l \in got} \cup question.dropped
                <4> HIDE DEF got
                <4> QED BY <3>3
            <3> HIDE DEF got
            <3> QED BY <1>1, <2>1, <3>1, <3>2, <3>4, <1>5, EndsFields
        <2>3. CASE question.provider # "ordiscan"
            <3>1. question' = Items(1..inscribed)
                BY <1>8, <2>3 DEF IdsListed
            <3>2. 1..span.first \subseteq 1..inscribed
                BY <1>2
            <3> QED BY <2>1, <3>1, <3>2, <1>4
        <2> QED BY <2>2, <2>3
    <1>9. CASE IdsNotListed
        <2>1. question.kind = "locations"
            BY <1>9 DEF IdsNotListed, Listing
        <2>2. CASE question.provider = "ordiscan"
            BY <1>3, <1>9, <2>2, ThrowKeeps DEF IdsNotListed
        <2>3. CASE question.provider # "ordiscan"
            <3>1. question' = [Ends({}) EXCEPT !.dropped = 1..inscribed]
                BY <1>9, <2>3 DEF IdsNotListed
            <3>4. Ends({}) = [at |-> "ended", kind |-> question.kind, provider |-> question.provider,
                              slice |-> question.slice, todo |-> {}, got |-> {}, dropped |-> {}, bare |-> question.bare]
                BY <1>1, EndsFields
            <3>2. question' = [at |-> "ended", kind |-> question.kind, provider |-> question.provider,
                               slice |-> question.slice, todo |-> {}, got |-> {}, dropped |-> 1..inscribed, bare |-> question.bare]
                <4> DEFINE r == Ends({})
                           n == 1..inscribed
                <4>1. question' = [r EXCEPT !.dropped = n]
                    BY <3>1
                <4>2. r = [at |-> "ended", kind |-> question.kind, provider |-> question.provider,
                           slice |-> question.slice, todo |-> {}, got |-> {}, dropped |-> {}, bare |-> question.bare]
                    BY <3>4
                <4> HIDE DEF r, n
                <4>3. question' = [at |-> "ended", kind |-> question.kind, provider |-> question.provider,
                                   slice |-> question.slice, todo |-> {}, got |-> {}, dropped |-> n, bare |-> question.bare]
                    BY <4>1, <4>2
                <4> QED BY <4>3 DEF n
            <3>3. 1..span.first \subseteq 1..inscribed
                BY <1>2
            <3> DEFINE none == {}
                       all == 1..inscribed
            <3>5. /\ \A l \in none : l[2] \in span.holders
                  /\ 1..span.first \subseteq {l[1] : l \in none} \cup all
                BY <3>3
            <3>6. question' = [at |-> "ended", kind |-> question.kind, provider |-> question.provider,
                               slice |-> question.slice, todo |-> {}, got |-> none, dropped |-> all, bare |-> question.bare]
                BY <3>2
            <3> HIDE DEF none, all
            <3> QED BY <2>1, <3>5, <3>6, <1>5
        <2> QED BY <2>2, <2>3
    <1>10. CASE CollectionListed
        <2>1. question.kind = "collection" /\ question' = Items(PartOf(question.slice, inscribed))
            BY <1>10 DEF CollectionListed, Listing
        <2>2. inscribed \in span.first..inscribed
            BY <1>2
        <2> DEFINE part == PartOf(question.slice, inscribed)
        <2>3. \E n \in span.first..inscribed : part = PartOf(question.slice, n)
            BY <2>2
        <2> HIDE DEF part
        <2>4. question' = Items(part)
            BY <2>1 DEF part
        <2> QED BY <2>1, <2>3, <2>4, <1>4
    <1>11. CASE ResourceListed
        <2>1. question.kind = "resource"
            BY <1>11 DEF ResourceListed, Listing
        <2>2. CASE question.slice.from < inscribed
            <3>1. question' = Items({question.slice.from + 1})
                BY <1>11, <2>2 DEF ResourceListed
            <3> QED BY <2>1, <3>1, <1>4
        <2>3. CASE ~(question.slice.from < inscribed)
            BY <1>3, <1>11, <2>3, ThrowKeeps DEF ResourceListed
        <2> QED BY <2>2, <2>3
    <1>12. CASE SatListFails
        BY <1>3, <1>12, ThrowKeeps DEF SatListFails
    <1>13. ASSUME NEW o \in Outs, HasAnswered(o) PROVE QueriesInv'
        <2>1. question.kind = "has"
            BY <1>13 DEF HasAnswered, Listing
        <2>2. PICK got \in {{<<o, Inscribed(o)>>}, {<<o, FALSE>>}} : question' = Ends(got)
            BY <1>13 DEF HasAnswered
        <2>3. question' = [at |-> "ended", kind |-> question.kind, provider |-> question.provider,
                           slice |-> question.slice, todo |-> {}, got |-> got, dropped |-> question.dropped, bare |-> question.bare]
            BY <1>1, <2>2, EndsFields
        <2> QED BY <2>1, <2>3, <1>5
    <1>14. ASSUME NEW o \in Outs, SatAnswered(o) PROVE QueriesInv'
        <2>1. question.kind = "sat"
            BY <1>14 DEF SatAnswered, Listing
        <2>2. CASE question' = Throws
            BY <1>0, <1>3, <2>2, ThrowKeeps
        <2>3. CASE question' = Ends({o})
            <3>3. question' = [at |-> "ended", kind |-> question.kind, provider |-> question.provider,
                               slice |-> question.slice, todo |-> {}, got |-> {o}, dropped |-> question.dropped, bare |-> question.bare]
                BY <1>1, <2>3, EndsFields
            <3> QED BY <2>1, <3>3, <1>5
        <2> QED BY <1>14, <2>2, <2>3 DEF SatAnswered
    <1> QED BY <1>6, <1>7, <1>8, <1>9, <1>10, <1>11, <1>12, <1>13, <1>14

\* An item of the list is read, or left out.
LEMMA ItemKeeps ==
    ASSUME QueriesInv, NEW item, question.at = "items", item \in question.todo,
           UNCHANGED <<blocks, span>>, NEW found, NEW lost, NEW bare,
           question' = [at |-> IF question.todo \ {item} = {} THEN "ended" ELSE "items",
                        kind |-> question.kind, provider |-> question.provider, slice |-> question.slice,
                        todo |-> question.todo \ {item}, got |-> question.got \cup found,
                        dropped |-> question.dropped \cup lost, bare |-> bare],
           question.kind = "utxos" =>
               /\ found \subseteq span.unspent /\ found \ bare \subseteq span.free
               /\ item \in span.allFree => item \in found \cup lost,
           question.bare \subseteq bare,
           question.kind = "locations" =>
               /\ \A l \in found : l[2] \in span.holders
               /\ item \in {l[1] : l \in found} \cup lost,
           question.kind \in {"resource", "collection"} => found = {item}
    PROVE  QueriesInv'
    <1>1. ResponseFits(question) /\ question.at \in {"list", "items"}
        BY DEF QueriesInv, QuestionFits
    <1> DEFINE at == IF question.todo \ {item} = {} THEN "ended" ELSE "items"
               todo == question.todo \ {item}
               got == question.got \cup found
               dropped == question.dropped \cup lost
    <1>2. ResponseFits(question')
        <2> DEFINE q == question'
        <2>1. q.kind = question.kind /\ q.slice = question.slice /\ q.todo = todo /\ q.got = got /\ q.dropped = dropped
              /\ q.bare = bare
            OBVIOUS
        <2> HIDE DEF q
        <2>2. q.kind = "utxos" => /\ q.got \subseteq span.unspent /\ q.got \ q.bare \subseteq span.free
                                  /\ span.allFree \subseteq q.got \cup q.dropped \cup q.todo
            BY <1>1, <2>1 DEF ResponseFits
        <2>3. q.kind = "locations" => /\ \A l \in q.got : l[2] \in span.holders
                                      /\ 1..span.first \subseteq {l[1] : l \in q.got} \cup q.dropped \cup q.todo
            <3> SUFFICES ASSUME q.kind = "locations"
                         PROVE  /\ \A l \in q.got : l[2] \in span.holders
                                /\ 1..span.first \subseteq {l[1] : l \in q.got} \cup q.dropped \cup q.todo
                OBVIOUS
            <3>1. \A l \in q.got : l[2] \in span.holders
                BY <1>1, <2>1 DEF ResponseFits
            <3>2. ASSUME NEW i \in 1..span.first PROVE i \in {l[1] : l \in q.got} \cup q.dropped \cup q.todo
                <4>1. i \in {l[1] : l \in question.got} \cup question.dropped \cup question.todo
                    BY <1>1, <2>1, <3>2 DEF ResponseFits
                <4>2. CASE i = item
                    BY <2>1, <4>2
                <4>3. CASE i # item
                    BY <2>1, <4>1, <4>3
                <4> QED BY <4>2, <4>3
            <3> QED BY <3>1, <3>2
        <2>4. q.kind = "resource" => q.got \cup q.todo = {q.slice.from + 1}
            BY <1>1, <2>1 DEF ResponseFits
        <2>5. q.kind = "collection" =>
                 \E n \in span.first..inscribed : q.got \cup q.todo = PartOf(q.slice, n)
            <3> SUFFICES ASSUME q.kind = "collection"
                         PROVE  \E n \in span.first..inscribed : q.got \cup q.todo = PartOf(q.slice, n)
                OBVIOUS
            <3>1. q.got \cup q.todo = question.got \cup question.todo
                BY <2>1
            <3> QED BY <1>1, <2>1, <3>1 DEF ResponseFits
        <2>6. ResponseFits(q)
            BY <2>2, <2>3, <2>4, <2>5 DEF ResponseFits
        <2> QED BY <2>6 DEF q
    <1>3. at \in {"items", "ended"} /\ (at = "ended" => todo = {})
        OBVIOUS
    <1>4. question' = [at |-> at, kind |-> question.kind, provider |-> question.provider,
                       slice |-> question.slice, todo |-> todo, got |-> got, dropped |-> dropped, bare |-> bare]
        OBVIOUS
    <1> HIDE DEF at, todo, got, dropped
    <1> QED BY <1>1, <1>2, <1>3, <1>4, StepKeeps

LEMMA QueriesStep ==
    ASSUME QueriesInv, [QueriesNext]_queryVars
    PROVE  QueriesInv'
    <1>0. /\ owned \subseteq Outs /\ gone \subseteq Outs \ owned /\ holder \in owned
          /\ inscribed \in Nat /\ inscribed <= MaxOnSat /\ inscribed <= inscribed /\ MaxOnSat \in Nat
        BY QueriesAssumption DEF QueriesInv, QueriesAssumption
    <1>q. question.at \in {"list", "items"} => Asked(question) /\ SpanFits
        BY DEF QueriesInv, QuestionFits
    <1>1. ASSUME NEW o \in Outs, MoveSat(o) PROVE QueriesInv'
        BY <1>0, <1>1, BlockKeeps DEF MoveSat
    <1>2. ASSUME NEW o \in Outs, Receive(o) PROVE QueriesInv'
        BY <1>0, <1>2, BlockKeeps DEF Receive
    <1>3. ASSUME NEW o \in Outs, Spend(o) PROVE QueriesInv'
        BY <1>0, <1>3, BlockKeeps DEF Spend
    <1>4. CASE InscribeSat
        <2>1. inscribed' = inscribed + 1 /\ inscribed < MaxOnSat /\ UNCHANGED <<owned, gone, holder, question>> /\ Observed
            BY <1>4 DEF InscribeSat
        <2> QED BY <1>0, <2>1, BlockKeeps
    <1>5. ASSUME NEW kind \in QueryKinds, NEW provider \in Configured, NEW slice \in SlicesOf(kind),
                 AskProvider(kind, provider, slice)
          PROVE QueriesInv'
        BY <1>5, AskKeeps
    <1>6. ASSUME NEW o \in Outs, OutputRead(o) PROVE QueriesInv'
        <2>1. /\ question.at = "items" /\ o \in question.todo /\ question.kind = "utxos" /\ UNCHANGED <<blocks, span>>
              /\ question' = Done(o, IF o \in FreeOuts THEN {o} ELSE {})
            BY <1>6 DEF OutputRead, Reading
        <2> DEFINE found == IF o \in FreeOuts THEN {o} ELSE {}
        <2>2. /\ found \subseteq span.unspent /\ found \ question.bare \subseteq span.free
              /\ (o \in span.allFree => o \in found)
            BY <1>q, <2>1 DEF SpanFits, FreeOuts
        <2>3. question' = Done(o, found)
            BY <2>1
        <2> HIDE DEF found
        <2>4. question' = [at |-> IF question.todo \ {o} = {} THEN "ended" ELSE "items",
                        kind |-> question.kind, provider |-> question.provider, slice |-> question.slice,
                        todo |-> question.todo \ {o}, got |-> question.got \cup found,
                        dropped |-> question.dropped \cup {}, bare |-> question.bare]
            BY <1>q, <2>1, <2>3, DoneFields
        <2> QED BY <2>1, <2>2, <2>4, ItemKeeps
    <1>b. ASSUME NEW o \in Outs, BareOutputRead(o) PROVE QueriesInv'
        <2>1. /\ question.at = "items" /\ o \in question.todo /\ question.kind = "utxos" /\ UNCHANGED <<blocks, span>>
              /\ question' = [Done(o, {o} \cap owned) EXCEPT !.bare = @ \cup {o}]
            BY <1>b DEF BareOutputRead, Reading
        <2> DEFINE found == {o} \cap owned
                   bare == question.bare \cup {o}
        <2>2. /\ found \subseteq span.unspent /\ found \ bare \subseteq span.free /\ question.bare \subseteq bare
              /\ (o \in span.allFree => o \in found)
            BY <1>q, <2>1 DEF SpanFits, FreeOuts
        <2>3. Asked(question)
            BY <1>q, <2>1
        <2>4. question' = [Done(o, found) EXCEPT !.bare = @ \cup {o}]
            BY <2>1
        <2> HIDE DEF found
        <2>5. Done(o, found) =
                [at |-> IF question.todo \ {o} = {} THEN "ended" ELSE "items", kind |-> question.kind,
                 provider |-> question.provider, slice |-> question.slice,
                 todo |-> question.todo \ {o}, got |-> question.got \cup found, dropped |-> question.dropped,
                 bare |-> question.bare]
            BY <2>3, DoneFields
        <2>6. question' = [at |-> IF question.todo \ {o} = {} THEN "ended" ELSE "items",
                        kind |-> question.kind, provider |-> question.provider, slice |-> question.slice,
                        todo |-> question.todo \ {o}, got |-> question.got \cup found,
                        dropped |-> question.dropped \cup {}, bare |-> bare]
            <3> DEFINE r == Done(o, found)
            <3>1. question' = [r EXCEPT !.bare = r.bare \cup {o}]
                BY <2>4
            <3>2. r.bare = question.bare
                BY <2>5
            <3>3. question' = [r EXCEPT !.bare = bare]
                BY <3>1, <3>2
            <3> HIDE DEF bare
            <3> QED BY <2>5, <3>3
        <2> HIDE DEF bare
        <2>7. question.kind # "locations" /\ question.kind \notin {"resource", "collection"}
            BY <2>1
        <2>8. found \subseteq span.unspent /\ found \ bare \subseteq span.free
            BY <2>2
        <2> DEFINE none == {}
        <2>9. /\ o \in span.allFree => o \in found \cup none
              /\ question' = [at |-> IF question.todo \ {o} = {} THEN "ended" ELSE "items",
                        kind |-> question.kind, provider |-> question.provider, slice |-> question.slice,
                        todo |-> question.todo \ {o}, got |-> question.got \cup found,
                        dropped |-> question.dropped \cup none, bare |-> bare]
            BY <2>2, <2>6
        <2> HIDE DEF none
        <2> QED BY <2>1, <2>2, <2>7, <2>8, <2>9, ItemKeeps
    <1>7. ASSUME NEW i \in 1..MaxOnSat, LocationRead(i) PROVE QueriesInv'
        <2>1. /\ question.at = "items" /\ i \in question.todo /\ question.kind = "locations" /\ UNCHANGED <<blocks, span>>
              /\ question' = Done(i, {<<i, holder>>})
            BY <1>7 DEF LocationRead, Reading
        <2> DEFINE found == {<<i, holder>>}
        <2>2. (\A l \in found : l[2] \in span.holders) /\ i \in {l[1] : l \in found} \cup {}
            BY <1>q, <2>1 DEF SpanFits
        <2>3. question' = Done(i, found)
            BY <2>1
        <2> HIDE DEF found
        <2>4. question' = [at |-> IF question.todo \ {i} = {} THEN "ended" ELSE "items",
                        kind |-> question.kind, provider |-> question.provider, slice |-> question.slice,
                        todo |-> question.todo \ {i}, got |-> question.got \cup found,
                        dropped |-> question.dropped \cup {}, bare |-> question.bare]
            BY <1>q, <2>1, <2>3, DoneFields
        <2> QED BY <2>1, <2>2, <2>4, ItemKeeps
    <1>8. ASSUME NEW i \in 1..MaxOnSat, ResourceRead(i) PROVE QueriesInv'
        <2>1. /\ question.at = "items" /\ i \in question.todo /\ question.kind \in {"resource", "collection"}
              /\ UNCHANGED <<blocks, span>> /\ question' = Done(i, {i})
            BY <1>8 DEF ResourceRead, Reading
        <2>4. question' = [at |-> IF question.todo \ {i} = {} THEN "ended" ELSE "items",
                        kind |-> question.kind, provider |-> question.provider, slice |-> question.slice,
                        todo |-> question.todo \ {i}, got |-> question.got \cup {i},
                        dropped |-> question.dropped \cup {}, bare |-> question.bare]
            BY <1>q, <2>1, DoneFields
        <2> QED BY <2>1, <2>4, ItemKeeps
    <1>9. ASSUME NEW item, LeftOut(item) PROVE QueriesInv'
        <2>1. /\ question.at = "items" /\ item \in question.todo /\ question.kind \in {"utxos", "locations"}
              /\ UNCHANGED <<blocks, span>> /\ question' = [Done(item, {}) EXCEPT !.dropped = @ \cup {item}]
            BY <1>9 DEF LeftOut, Reading
        <2>4. question' = [at |-> IF question.todo \ {item} = {} THEN "ended" ELSE "items",
                        kind |-> question.kind, provider |-> question.provider, slice |-> question.slice,
                        todo |-> question.todo \ {item}, got |-> question.got \cup {},
                        dropped |-> question.dropped \cup {item}, bare |-> question.bare]
            <3>1. Asked(question)
                BY <1>q, <2>1
            <3>2. Done(item, {}) =
                    [at |-> IF question.todo \ {item} = {} THEN "ended" ELSE "items", kind |-> question.kind,
                     provider |-> question.provider, slice |-> question.slice,
                     todo |-> question.todo \ {item}, got |-> question.got \cup {}, dropped |-> question.dropped, bare |-> question.bare]
                BY <3>1, DoneFields
            <3> QED BY <2>1, <3>2
        <2> DEFINE none == {}
                   lost == {item}
        <2>5. /\ none \subseteq span.unspent /\ none \ question.bare \subseteq span.free
              /\ question.bare \subseteq question.bare /\ item \in none \cup lost
              /\ (\A l \in none : l[2] \in span.holders) /\ item \in {l[1] : l \in none} \cup lost
              /\ question.kind \notin {"resource", "collection"}
            BY <2>1
        <2>6. question' = [at |-> IF question.todo \ {item} = {} THEN "ended" ELSE "items",
                        kind |-> question.kind, provider |-> question.provider, slice |-> question.slice,
                        todo |-> question.todo \ {item}, got |-> question.got \cup none,
                        dropped |-> question.dropped \cup lost, bare |-> question.bare]
            BY <2>4
        <2> HIDE DEF none, lost
        <2> QED BY <2>1, <2>5, <2>6, ItemKeeps
    <1>10. ASSUME NEW i \in 1..MaxOnSat, ResourceFails(i) PROVE QueriesInv'
        BY <1>10, ThrowKeeps DEF ResourceFails, Reading
    <1>11. CASE UNCHANGED queryVars
        <2>1. /\ owned' = owned /\ gone' = gone /\ holder' = holder /\ inscribed' = inscribed
              /\ question' = question /\ span' = span
            BY <1>11 DEF queryVars, blocks
        <2> QED BY <2>1 DEF QueriesInv, QuestionFits, ResponseFits, SpanFits, FreeOuts, Inscribed, Asked, PartOf
    <1> QED BY <1>1, <1>2, <1>3, <1>4, <1>5, <1>6, <1>b, <1>7, <1>8, <1>9, <1>10, <1>11, ListKeeps DEF QueriesNext

LEMMA QueriesInvariant == QueriesSpec => []QueriesInv
    <1>1. QueriesInit => QueriesInv
        BY QueriesStart
    <1>2. QueriesInv /\ [QueriesNext]_queryVars => QueriesInv'
        BY QueriesStep
    <1> QED BY <1>1, <1>2, PTL DEF QueriesSpec

\* The chain stays one, with the satoshi in an output that is unspent, and a
\* question has the provider, the kind and the part it was asked with.
THEOREM QueriesTypeCorrect == QueriesSpec => []QueriesTypeOK
    <1>1. QueriesInv => QueriesTypeOK
        BY QueriesAssumption DEF QueriesInv, QuestionFits, Asked, QueriesTypeOK, QueriesAssumption
    <1> QED BY <1>1, QueriesInvariant, PTL

\* An answer put together from many requests, between which blocks came, was
\* true of the chain at some time of the question, and left out only what could
\* not be read; of an output whose answer had no list of inscriptions only that it
\* was unspent (address-utils.ts:30-93, ord-node-provider.ts:236-340, 440-488,
\* 588-614).
THEOREM AnswersTrue == QueriesSpec => []AnswersWereTrue
    <1>1. QueriesInv => AnswersWereTrue
        <2> SUFFICES ASSUME QueriesInv, question.at = "ended" PROVE AnswersWereTrue
            BY DEF AnswersWereTrue
        <2>1. question.todo = {} /\ ResponseFits(question)
            BY DEF QueriesInv, QuestionFits
        <2>2. question.got \cup question.todo = question.got
              /\ question.got \cup question.dropped \cup question.todo = question.got \cup question.dropped
            BY <2>1
        <2>3. {l[1] : l \in question.got} \cup question.dropped \cup question.todo = {l[1] : l \in question.got} \cup question.dropped
            BY <2>1
        <2> QED BY <2>1, <2>2, <2>3 DEF ResponseFits, AnswersWereTrue
    <1> QED BY <1>1, QueriesInvariant, PTL

-----------------------------------------------------------------------------
(***************************************************************************)
(*                                                                         *)
(***************************************************************************)

-----------------------------------------------------------------------------
(***************************************************************************)
(* The crawl of a provider's inscriptions.                                 *)
(***************************************************************************)
Falling(s) == \A i, j \in DOMAIN s : i < j => s[i] > s[j]
Rising(s) == \A i, j \in DOMAIN s : i < j => s[i] < s[j]

\* A page can be put in order: the least number of it comes after all others.
LEMMA PagesAreOrdered ==
    ASSUME NEW page \in SUBSET Nat, IsFiniteSet(page)
    PROVE  \E s \in [1..Cardinality(page) -> page] : Falling(s)
<1> DEFINE Orderly(n) == \A q \in SUBSET page : Cardinality(q) = n => \E s \in [1..n -> q] : Falling(s)
           T == {n \in Nat : ~Orderly(n)}
<1>1. \A q \in SUBSET page : IsFiniteSet(q) /\ Cardinality(q) \in Nat
  BY FS_Subset, FS_CardinalityType
<1>2. SUFFICES ASSUME T # {} PROVE FALSE
  <2>1. Orderly(Cardinality(page))
    BY <1>1, <1>2
  <2>2. QED BY <2>1
<1>3. PICK n \in T : \A m \in T : n <= m
  <2>1. T \in SUBSET Nat
    OBVIOUS
  <2> HIDE DEF T
  <2>2. QED BY <1>2, <2>1, LeastExists
<1>4. n \in Nat /\ ~Orderly(n) /\ \A m \in Nat : m < n => Orderly(m)
  <2>1. n \in Nat /\ ~Orderly(n)
    BY <1>3
  <2>2. ASSUME NEW m \in Nat, m < n PROVE Orderly(m)
    <3>1. m \notin T
      BY <1>3, <2>1, <2>2
    <3>2. QED BY <3>1
  <2>3. QED BY <2>1, <2>2
<1>5. PICK q \in SUBSET page : Cardinality(q) = n /\ ~\E s \in [1..n -> q] : Falling(s)
  BY <1>4
<1>6. CASE n = 0
  <2>1. [k \in 1..0 |-> k] \in [1..n -> q] /\ Falling([k \in 1..0 |-> k])
    BY <1>6 DEF Falling
  <2>2. QED BY <1>5, <2>1
<1>7. CASE n # 0
  <2>1. q # {} /\ q \in SUBSET Nat
    BY <1>5, <1>7, FS_EmptySet
  <2>2. PICK x \in q : \A y \in q : x <= y
    BY <2>1, LeastExists
  <2>3. Cardinality(q \ {x}) = n - 1 /\ n - 1 \in Nat /\ n - 1 < n
    BY <1>1, <1>4, <1>5, <1>7, FS_RemoveElement
  <2>4. PICK s \in [1..(n - 1) -> q \ {x}] : Falling(s)
    BY <1>4, <2>3
  <2> DEFINE t == [i \in 1..n |-> IF i = n THEN x ELSE s[i]]
  <2>5. t \in [1..n -> q]
    BY <1>4, <2>3
  <2>6. Falling(t)
    <3> SUFFICES ASSUME NEW i \in 1..n, NEW j \in 1..n, i < j PROVE t[i] > t[j]
      BY DEF Falling
    <3>1. i \in 1..(n - 1) /\ t[i] = s[i] /\ s[i] \in q \ {x}
      BY <1>4, <2>3
    <3>2. CASE j = n
      <4>1. t[j] = x /\ x <= s[i] /\ x # s[i] /\ x \in Nat /\ s[i] \in Nat
        BY <2>1, <2>2, <3>1, <3>2
      <4>2. QED BY <3>1, <4>1
    <3>3. CASE j # n
      <4>1. j \in 1..(n - 1) /\ t[j] = s[j]
        BY <1>4, <2>3, <3>3
      <4>2. QED BY <2>4, <3>1, <4>1 DEF Falling
    <3>4. QED BY <3>2, <3>3
  <2>7. QED BY <1>5, <2>5, <2>6
<1>8. QED BY <1>6, <1>7

\* What is handed out of a page is the page.
LEMMA NewestFirstIsPage ==
    ASSUME NEW page \in SUBSET Nat, IsFiniteSet(page)
    PROVE  NewestFirst(page) \in Seq(page) /\ ToSet(NewestFirst(page)) = page
<1> DEFINE s == NewestFirst(page)
           n == Cardinality(page)
<1>1. s \in [1..n -> page] /\ Falling(s)
  <2>1. \E r \in [1..n -> page] : Falling(r)
    BY PagesAreOrdered
  <2>2. QED BY <2>1 DEF NewestFirst, Falling
<1>2. n \in Nat
  BY FS_CardinalityType
<1> HIDE DEF s
<1>3. ASSUME NEW i \in 1..n, NEW j \in 1..n, s[i] = s[j] PROVE i = j
  <2>1. s[i] \in Nat /\ s[j] \in Nat
    BY <1>1
  <2>2. ~(i < j) /\ ~(j < i)
    BY <1>1, <1>3, <2>1 DEF Falling
  <2>3. QED BY <1>2, <2>2
<1>4. s \in Injection(1..n, page)
  BY <1>1, <1>3 DEF Injection, IsInjective
<1>5. s \in Surjection(1..n, page)
  <2>1. Cardinality(1..n) = n
    BY <1>2, FS_Interval
  <2>2. QED BY <1>4, <2>1, FS_Injection
<1>6. ToSet(s) = page
  BY <1>1, <1>5 DEF Surjection, ToSet
<1>7. s \in Seq(page)
  BY <1>1, <1>2
<1>8. QED BY <1>6, <1>7 DEF s

LEMMA ElementsAreOf ==
    ASSUME NEW S, NEW s \in Seq(S)
    PROVE  ToSet(s) \subseteq S
BY DEF ToSet

LEMMA WiderSequence ==
    ASSUME NEW S, NEW T, S \subseteq T, NEW s \in Seq(S)
    PROVE  s \in Seq(T)
<1>1. s \in [1..Len(s) -> S] /\ Len(s) \in Nat
  OBVIOUS
<1>2. s \in [1..Len(s) -> T]
  BY <1>1
<1>3. QED BY <1>1, <1>2

LEMMA ToSetJoins ==
    ASSUME NEW s \in Seq(Nat), NEW t \in Seq(Nat)
    PROVE  s \o t \in Seq(Nat) /\ ToSet(s \o t) = ToSet(s) \cup ToSet(t)
<1> DEFINE j == s \o t
<1>1. /\ j \in Seq(Nat) /\ Len(j) = Len(s) + Len(t) /\ DOMAIN j = 1..Len(j)
      /\ DOMAIN s = 1..Len(s) /\ DOMAIN t = 1..Len(t) /\ Len(s) \in Nat /\ Len(t) \in Nat
      /\ \A i \in 1..Len(s) : j[i] = s[i]
      /\ \A i \in Len(s) + 1..Len(j) : j[i] = t[i - Len(s)]
  OBVIOUS
<1> HIDE DEF j
<1>2. ASSUME NEW i \in DOMAIN j PROVE j[i] \in ToSet(s) \cup ToSet(t)
  <2>1. CASE i <= Len(s)
    <3>1. i \in DOMAIN s /\ j[i] = s[i]
      BY <1>1, <2>1
    <3>2. QED BY <3>1 DEF ToSet
  <2>2. CASE i > Len(s)
    <3>1. i \in Int /\ i <= Len(j) /\ i \in Len(s) + 1..Len(j)
      BY <1>1, <2>2
    <3>2. j[i] = t[i - Len(s)]
      BY <1>1, <3>1
    <3>3. i - Len(s) \in 1..Len(t)
      BY <1>1, <3>1
    <3>4. QED BY <1>1, <3>2, <3>3 DEF ToSet
  <2>3. QED BY <1>1, <2>1, <2>2
<1>3. ASSUME NEW i \in DOMAIN s PROVE s[i] \in ToSet(j)
  <2>1. i \in DOMAIN j /\ j[i] = s[i]
    BY <1>1
  <2>2. QED BY <2>1 DEF ToSet
<1>4. ASSUME NEW i \in DOMAIN t PROVE t[i] \in ToSet(j)
  <2> DEFINE k == Len(s) + i
  <2>1. k \in Len(s) + 1..Len(j) /\ k \in DOMAIN j /\ k - Len(s) = i
    BY <1>1
  <2> HIDE DEF k
  <2>2. j[k] = t[i]
    BY <1>1, <2>1
  <2>3. QED BY <2>1, <2>2 DEF ToSet
<1>5. ToSet(j) = ToSet(s) \cup ToSet(t)
  BY <1>2, <1>3, <1>4 DEF ToSet
<1>6. QED BY <1>1, <1>5 DEF j

-----------------------------------------------------------------------------
Crawling(c) ==
    /\ c = [at |-> c.at, cursor |-> c.cursor, batch |-> c.batch, seen |-> c.seen, processed |-> c.processed,
            failures |-> c.failures, before |-> c.before]
    /\ c.at \in {"ready", "batch", "ended", "failed"} /\ c.cursor \in Nat
    /\ c.batch \in Seq(1..MaxMade) /\ c.failures \in 0..MaxFailures /\ c.before \in 0..MaxMade

\* From the oldest: what was taken lies before the cursor, and what lies before the
\* cursor was taken, turned down or missed.
OldestFits(c, handed, missed) ==
    /\ c.at # "batch" => c.batch = <<>>
    /\ Rising(handed \o c.batch) /\ c.cursor >= 1
    /\ \A n \in ToSet(handed \o c.batch) : n < c.cursor
    /\ 1..(c.cursor - 1) \subseteq ToSet(handed \o c.batch) \cup filtered \cup missed

\* From the newest: of the inscriptions there were at the beginning, those not handed
\* out have at least as many newer ones as pages were passed.
NewestFits(c, handed, offered) ==
    /\ \E k \in Nat : c.cursor = k * BatchSize
    /\ \A n \in (1..c.before) \ filtered : n \in ToSet(handed) \/ offered - n >= c.cursor
    /\ c.before <= offered
    /\ c.at = "ended" /\ wanted = 0 => (1..c.before) \ filtered \subseteq ToSet(handed)

CrawlInv ==
    /\ mode \in Modes \cup {"none"} /\ wanted \in 0..MaxResources /\ madeSoFar \in 0..MaxMade
    /\ unbound \subseteq 1..MaxMade /\ filtered \subseteq 1..MaxMade /\ yielded \in Seq(1..MaxMade)
    /\ mode = "none" => crawl = [at |-> "none"] /\ yielded = <<>>
    /\ mode # "none" => Crawling(crawl)
    /\ mode = "chronological" => OldestFits(crawl, yielded, missing)
    /\ mode = "ord" => NewestFits(crawl, yielded, madeSoFar)

LEMMA CrawlSizes == MaxMade \in Nat /\ BatchSize \in Nat \ {0} /\ MaxResources \in Nat /\ MaxFailures \in Nat \ {0}
BY CrawlAssumption

LEMMA NothingHanded == ToSet(<<>>) = {} /\ Rising(<<>>) /\ <<>> \o <<>> = <<>>
BY DEF ToSet, Rising

LEMMA MakeStep ==
    ASSUME CrawlInv, NEW w \in BOOLEAN, MakeInscription(w)
    PROVE  CrawlInv'
<1>1. madeSoFar' = madeSoFar + 1 /\ madeSoFar' \in 0..MaxMade /\ madeSoFar' \in 1..MaxMade
  BY CrawlSizes DEF CrawlInv, MakeInscription
<1>2. unbound' \subseteq 1..MaxMade
  BY <1>1 DEF CrawlInv, MakeInscription
<1>3. UNCHANGED <<mode, filtered, wanted, crawl, yielded, missing>>
  BY DEF MakeInscription
<1>4. mode = "ord" => NewestFits(crawl, yielded, madeSoFar')
  <2> SUFFICES ASSUME mode = "ord" PROVE NewestFits(crawl, yielded, madeSoFar')
    OBVIOUS
  <2>1. NewestFits(crawl, yielded, madeSoFar) /\ crawl.cursor \in Nat /\ crawl.before \in Nat /\ madeSoFar \in Nat
    BY CrawlSizes DEF CrawlInv, Crawling
  <2>2. ASSUME NEW n \in (1..crawl.before) \ filtered, n \notin ToSet(yielded) PROVE madeSoFar' - n >= crawl.cursor
    <3>1. madeSoFar - n >= crawl.cursor /\ n \in Nat
      BY <2>1, <2>2 DEF NewestFits
    <3>2. QED BY <1>1, <2>1, <3>1
  <2>3. crawl.before <= madeSoFar'
    BY <1>1, <2>1 DEF NewestFits
  <2>4. QED BY <2>1, <2>2, <2>3 DEF NewestFits
<1>5. QED BY <1>1, <1>2, <1>3, <1>4 DEF CrawlInv, OldestFits, NewestFits, Crawling

LEMMA BeginStep ==
    ASSUME CrawlInv, Begin
    PROVE  CrawlInv'
<1>1. /\ mode = "none" /\ mode' \in Modes /\ filtered' \subseteq 1..MaxMade /\ wanted' \in 0..MaxResources
      /\ UNCHANGED <<unbound, madeSoFar, yielded, missing>> /\ yielded = <<>>
      /\ crawl' = [at |-> "ready", cursor |-> IF mode' = "chronological" THEN 1 ELSE 0, batch |-> <<>>,
                  seen |-> 0, processed |-> 0, failures |-> 0, before |-> madeSoFar]
  BY DEF Begin, CrawlInv
<1>2. PICK start \in {0, 1} : start = IF mode' = "chronological" THEN 1 ELSE 0
  OBVIOUS
<1>3. madeSoFar \in 0..MaxMade /\ <<>> \in Seq(1..MaxMade) /\ "none" \notin Modes
  BY DEF CrawlInv, Modes
<1>4. Crawling(crawl')
  BY <1>1, <1>2, <1>3, CrawlSizes DEF Crawling
<1>5. mode' = "chronological" => OldestFits(crawl, yielded, missing)'
  <2>1. SUFFICES ASSUME mode' = "chronological" PROVE OldestFits(crawl, yielded, missing)'
    OBVIOUS
  <2>2. crawl'.cursor = 1 /\ crawl'.batch = <<>> /\ yielded' = <<>> /\ 1..(1 - 1) = {}
    BY <1>1, <2>1
  <2>3. QED BY <2>2, NothingHanded DEF OldestFits
<1>6. mode' = "ord" => NewestFits(crawl, yielded, madeSoFar)'
  <2>1. SUFFICES ASSUME mode' = "ord" PROVE NewestFits(crawl, yielded, madeSoFar)'
    OBVIOUS
  <2>2. crawl'.cursor = 0 /\ crawl'.at = "ready" /\ crawl'.before = madeSoFar /\ madeSoFar' = madeSoFar
    BY <1>1, <2>1
  <2>3. crawl'.cursor = 0 * BatchSize
    BY <2>2, CrawlSizes
  <2>4. \A n \in (1..crawl'.before) \ filtered' : madeSoFar' - n >= crawl'.cursor
    BY <1>3, <2>2
  <2>5. crawl'.before <= madeSoFar'
    BY <1>3, <2>2
  <2>6. QED BY <2>2, <2>3, <2>4, <2>5 DEF NewestFits
<1>7. QED BY <1>1, <1>3, <1>4, <1>5, <1>6 DEF CrawlInv, Modes

\* The crawl begins a batch or ends when it has handed out enough.
LEMMA PullStep ==
    ASSUME CrawlInv, Pull
    PROVE  CrawlInv'
<1>1. /\ mode \notin {"none", "resolver"} /\ crawl.at = "ready" /\ Crawling(crawl)
      /\ UNCHANGED <<mode, filtered, wanted, unbound, madeSoFar, yielded, missing>>
      /\ crawl' = [crawl EXCEPT !.at = IF Enough THEN "ended" ELSE "batch", !.batch = <<>>, !.seen = 0]
  BY DEF Pull, CrawlInv, caller
<1>2. PICK a \in {"ended", "batch"} : a = (IF Enough THEN "ended" ELSE "batch")
  OBVIOUS
<1>3. crawl' = [at |-> a, cursor |-> crawl.cursor, batch |-> <<>>, seen |-> 0, processed |-> crawl.processed,
               failures |-> crawl.failures, before |-> crawl.before]
  BY <1>1, <1>2 DEF Crawling
<1>4. Crawling(crawl')
  <2>1. <<>> \in Seq(1..MaxMade)
    OBVIOUS
  <2>2. QED BY <1>1, <1>3, <2>1 DEF Crawling
<1>5. mode = "chronological" => OldestFits(crawl, yielded, missing)'
  BY <1>1, <1>3 DEF CrawlInv, OldestFits
<1>6. mode = "ord" => NewestFits(crawl, yielded, madeSoFar)'
  <2>1. a = "ended" => wanted # 0
    BY <1>2, CrawlSizes DEF Enough, CrawlInv
  <2>2. SUFFICES ASSUME mode = "ord" PROVE NewestFits(crawl, yielded, madeSoFar)'
    OBVIOUS
  <2>3. NewestFits(crawl, yielded, madeSoFar) /\ mode = "ord"
    BY <2>2 DEF CrawlInv
  <2>4. crawl'.cursor = crawl.cursor /\ crawl'.before = crawl.before /\ crawl'.at = a
    BY <1>3
  <2>5. QED BY <1>1, <2>1, <2>3, <2>4 DEF NewestFits
<1>7. QED BY <1>1, <1>4, <1>5, <1>6 DEF CrawlInv

-----------------------------------------------------------------------------
(* From the oldest. *)
LEMMA OneMoreTaken ==
    ASSUME NEW s \in Seq(1..MaxMade), NEW t \in Seq(1..MaxMade), NEW n \in 1..MaxMade,
           Rising(s \o t), \A m \in ToSet(s \o t) : m < n
    PROVE  /\ Append(t, n) \in Seq(1..MaxMade) /\ Rising(s \o Append(t, n))
           /\ ToSet(s \o Append(t, n)) = ToSet(s \o t) \cup {n}
<1> DEFINE j == s \o t
           k == s \o Append(t, n)
<1>0. MaxMade \in Nat /\ 1..MaxMade \subseteq Nat
  BY CrawlSizes
<1>1. k = Append(j, n) /\ Append(t, n) \in Seq(1..MaxMade) /\ j \in Seq(1..MaxMade)
  OBVIOUS
<1> HIDE DEF j, k
<1>2. /\ Len(j) \in Nat /\ DOMAIN j = 1..Len(j) /\ DOMAIN k = 1..(Len(j) + 1) /\ k[Len(j) + 1] = n
      /\ \A i \in 1..Len(j) : k[i] = j[i]
  BY <1>1
<1>3. Rising(k)
  <2> SUFFICES ASSUME NEW a \in DOMAIN k, NEW b \in DOMAIN k, a < b PROVE k[a] < k[b]
    BY DEF Rising
  <2>1. a \in 1..Len(j) /\ k[a] = j[a] /\ j[a] \in ToSet(j)
    BY <1>2 DEF ToSet
  <2>2. CASE b = Len(j) + 1
    <3>1. k[b] = n /\ j[a] < n
      BY <1>2, <2>1, <2>2 DEF j
    <3>2. QED BY <2>1, <3>1
  <2>3. CASE b # Len(j) + 1
    <3>1. b \in DOMAIN j /\ a \in DOMAIN j /\ k[b] = j[b]
      BY <1>2, <2>1, <2>3
    <3>2. Rising(j)
      BY DEF j
    <3>3. QED BY <2>1, <3>1, <3>2 DEF Rising
  <2>4. QED BY <2>2, <2>3
<1>4. ToSet(k) = ToSet(j) \cup {n}
  <2>1. ASSUME NEW i \in DOMAIN k PROVE k[i] \in ToSet(j) \cup {n}
    <3>1. CASE i = Len(j) + 1
      BY <1>2, <3>1
    <3>2. CASE i # Len(j) + 1
      <4>1. i \in DOMAIN j /\ k[i] = j[i]
        BY <1>2, <3>2
      <4>2. QED BY <4>1 DEF ToSet
    <3>3. QED BY <3>1, <3>2
  <2>2. ASSUME NEW i \in DOMAIN j PROVE j[i] \in ToSet(k)
    <3>1. i \in DOMAIN k /\ k[i] = j[i]
      BY <1>2, <2>2
    <3>2. QED BY <3>1 DEF ToSet
  <2>3. n \in ToSet(k)
    <3>1. Len(j) + 1 \in DOMAIN k
      BY <1>2
    <3>2. QED BY <1>2, <3>1 DEF ToSet
  <2>4. QED BY <2>1, <2>2, <2>3 DEF ToSet
<1>5. QED BY <1>1, <1>3, <1>4 DEF j, k

LEMMA FetchStep ==
    ASSUME CrawlInv, FetchNumber
    PROVE  CrawlInv'
<1> DEFINE n == crawl.cursor
           s == yielded \o crawl.batch
<1>1. /\ mode = "chronological" /\ crawl.at = "batch" /\ Crawling(crawl) /\ OldestFits(crawl, yielded, missing)
      /\ n <= madeSoFar
      /\ UNCHANGED <<mode, filtered, wanted, unbound, madeSoFar, yielded, missing>>
  BY DEF FetchNumber, InBatch, CrawlInv, caller
<1>2. n \in Nat /\ n >= 1 /\ n \in 1..MaxMade /\ yielded \in Seq(1..MaxMade) /\ crawl.batch \in Seq(1..MaxMade)
  BY <1>1, CrawlSizes DEF CrawlInv, Crawling, OldestFits
<1>3. 1..(n + 1 - 1) = 1..(n - 1) \cup {n}
  BY <1>2
<1>4. CASE n \in filtered
  <2>1. crawl' = [at |-> crawl.at, cursor |-> n + 1, batch |-> crawl.batch, seen |-> crawl.seen + 1,
                  processed |-> crawl.processed, failures |-> crawl.failures, before |-> crawl.before]
    BY <1>1, <1>4 DEF FetchNumber, Crawling
  <2>2. Crawling(crawl')
    BY <1>1, <1>2, <2>1 DEF Crawling
  <2>3. \A m \in ToSet(s) : m < n + 1
    <3>1. ASSUME NEW m \in ToSet(s) PROVE m < n + 1
      <4>1. m < n /\ m \in Nat
        <5>1. s \in Seq(1..MaxMade)
          BY <1>2
        <5>2. ToSet(s) \subseteq 1..MaxMade
          BY <5>1, ElementsAreOf
        <5>3. QED BY <1>1, <5>2, CrawlSizes DEF OldestFits
      <4>2. QED BY <1>2, <4>1
    <3>2. QED BY <3>1
  <2>4. OldestFits(crawl, yielded, missing)'
    BY <1>1, <1>2, <1>3, <1>4, <2>1, <2>3 DEF OldestFits
  <2>5. QED BY <1>1, <2>2, <2>4 DEF CrawlInv
<1>5. CASE n \notin filtered
  <2>1. crawl' = [at |-> crawl.at, cursor |-> n + 1, batch |-> Append(crawl.batch, n), seen |-> crawl.seen + 1,
                  processed |-> crawl.processed + 1, failures |-> 0, before |-> crawl.before]
    BY <1>1, <1>5 DEF FetchNumber, Crawling
  <2>2. /\ Append(crawl.batch, n) \in Seq(1..MaxMade) /\ Rising(yielded \o Append(crawl.batch, n))
        /\ ToSet(yielded \o Append(crawl.batch, n)) = ToSet(s) \cup {n}
    BY <1>1, <1>2, OneMoreTaken DEF OldestFits
  <2>3. Crawling(crawl')
    BY <1>1, <1>2, <2>1, <2>2, CrawlSizes DEF Crawling
  <2>4. \A m \in ToSet(s) \cup {n} : m < n + 1
    <3>1. ASSUME NEW m \in ToSet(s) \cup {n} PROVE m < n + 1
      <4>1. s \in Seq(1..MaxMade)
        BY <1>2
      <4>2. ToSet(s) \subseteq 1..MaxMade
        BY <4>1, ElementsAreOf
      <4>3. m \in Nat /\ (m < n \/ m = n)
        BY <1>1, <1>2, <4>2, CrawlSizes DEF OldestFits
      <4>4. QED BY <1>2, <4>3
    <3>2. QED BY <3>1
  <2>5. OldestFits(crawl, yielded, missing)'
    BY <1>1, <1>2, <1>3, <2>1, <2>2, <2>4 DEF OldestFits
  <2>6. QED BY <1>1, <2>3, <2>5 DEF CrawlInv
<1>6. QED BY <1>4, <1>5

LEMMA MissStep ==
    ASSUME CrawlInv, MissNumber
    PROVE  CrawlInv'
<1> DEFINE n == crawl.cursor
           s == yielded \o crawl.batch
<1>1. /\ mode = "chronological" /\ crawl.at = "batch" /\ Crawling(crawl) /\ OldestFits(crawl, yielded, missing)
      /\ UNCHANGED <<mode, filtered, wanted, unbound, madeSoFar, yielded>> /\ missing' = missing \cup {n}
      /\ crawl.failures < MaxFailures
  BY DEF MissNumber, InBatch, CrawlInv, caller
<1>2. n \in Nat /\ n >= 1 /\ yielded \in Seq(1..MaxMade) /\ crawl.batch \in Seq(1..MaxMade)
  BY <1>1, CrawlSizes DEF CrawlInv, Crawling, OldestFits
<1>3. 1..(n + 1 - 1) = 1..(n - 1) \cup {n}
  BY <1>2
<1>4. crawl' = [at |-> crawl.at, cursor |-> n + 1, batch |-> crawl.batch, seen |-> crawl.seen + 1,
                processed |-> crawl.processed, failures |-> crawl.failures + 1, before |-> crawl.before]
  BY <1>1 DEF MissNumber, Crawling
<1>5. Crawling(crawl')
  BY <1>1, <1>2, <1>4, CrawlSizes DEF Crawling
<1>6. \A m \in ToSet(s) : m < n + 1
  <2>1. ASSUME NEW m \in ToSet(s) PROVE m < n + 1
    <3>1. s \in Seq(1..MaxMade)
      BY <1>2
    <3>2. ToSet(s) \subseteq 1..MaxMade
      BY <3>1, ElementsAreOf
    <3>3. m < n /\ m \in Nat
      BY <1>1, <3>2, CrawlSizes DEF OldestFits
    <3>4. QED BY <1>2, <3>3
  <2>2. QED BY <2>1
<1>7. OldestFits(crawl, yielded, missing)'
  BY <1>1, <1>2, <1>3, <1>4, <1>6 DEF OldestFits
<1>8. QED BY <1>1, <1>5, <1>7 DEF CrawlInv

LEMMA EndBatchStep ==
    ASSUME CrawlInv, EndBatch
    PROVE  CrawlInv'
<1>1. /\ mode = "chronological" /\ Crawling(crawl) /\ OldestFits(crawl, yielded, missing)
      /\ yielded' = yielded \o crawl.batch
      /\ UNCHANGED <<mode, filtered, wanted, unbound, madeSoFar, missing>>
  BY DEF EndBatch, CrawlInv, caller
<1>2. PICK a \in {"ended", "ready"} : a = (IF crawl.failures >= MaxFailures THEN "ended" ELSE "ready")
  OBVIOUS
<1>3. crawl' = [at |-> a, cursor |-> crawl.cursor, batch |-> <<>>, seen |-> crawl.seen, processed |-> crawl.processed,
                failures |-> crawl.failures, before |-> crawl.before]
  BY <1>1, <1>2 DEF EndBatch, Crawling
<1>4. Crawling(crawl')
  BY <1>1, <1>3 DEF Crawling
<1>5. yielded' \in Seq(1..MaxMade) /\ yielded' \o <<>> = yielded \o crawl.batch
  BY <1>1 DEF CrawlInv, Crawling
<1>6. OldestFits(crawl, yielded, missing)'
  BY <1>1, <1>3, <1>5 DEF OldestFits
<1>7. QED BY <1>1, <1>4, <1>5, <1>6 DEF CrawlInv

-----------------------------------------------------------------------------
(* From the newest. *)
LEMMA PagesAlign ==
    ASSUME NEW k \in Nat
    PROVE  ((k * BatchSize) \div BatchSize) = k
BY CrawlSizes

LEMMA KeptIsFinite ==
    ASSUME CrawlInv, NEW c
    PROVE  /\ PageAt(c) \ filtered \in SUBSET Nat /\ IsFiniteSet(PageAt(c) \ filtered)
           /\ PageAt(c) \ filtered \subseteq 1..MaxMade
<1>1. madeSoFar \in Nat /\ 1..madeSoFar \subseteq 1..MaxMade /\ 1..madeSoFar \in SUBSET Nat /\ IsFiniteSet(1..madeSoFar)
  <2>1. madeSoFar \in Nat /\ 1..madeSoFar \subseteq 1..MaxMade /\ 1..madeSoFar \in SUBSET Nat
    BY CrawlSizes DEF CrawlInv
  <2>2. IsFiniteSet(1..madeSoFar)
    BY <2>1, FS_Interval
  <2>3. QED BY <2>1, <2>2
<1>2. PageAt(c) \subseteq 1..madeSoFar
  BY DEF PageAt, Ranked
<1>3. QED BY <1>1, <1>2, FS_Subset

\* A page that is handed out reaches as far as the next cursor; a last page to the end.
LEMMA PageCovers ==
    ASSUME CrawlInv, mode = "ord", NewestFits(crawl, yielded, madeSoFar),
           NEW handed, PageAt(crawl.cursor) \ filtered \subseteq handed, ToSet(yielded) \subseteq handed,
           NEW n \in (1..crawl.before) \ filtered, n \notin handed
    PROVE  /\ madeSoFar - n >= NextCursor(crawl.cursor)
           /\ PageAt(crawl.cursor) # {} /\ More(crawl.cursor, PageAt(crawl.cursor))
<1> DEFINE c == crawl.cursor
<1>1. PICK k \in Nat : c = k * BatchSize
  BY DEF NewestFits
<1>2. c \in Nat /\ BatchSize \in Nat /\ madeSoFar \in Nat /\ n \in Nat /\ n >= 1 /\ crawl.before \in Nat /\ n <= crawl.before
  BY CrawlSizes DEF CrawlInv, Crawling
<1>3. c \div BatchSize = k
  BY <1>1, PagesAlign
<1>4. (c \div BatchSize) * BatchSize = c /\ (c \div BatchSize + 1) * BatchSize = c + BatchSize
  <2>1. (k + 1) * BatchSize = k * BatchSize + BatchSize
    BY <1>2
  <2>2. QED BY <1>1, <1>3, <2>1
<1>5. madeSoFar - n >= c /\ crawl.before <= madeSoFar
  BY DEF NewestFits
<1>6. PageAt(c) = Ranked(c)
  BY <1>4 DEF PageAt
<1>7. n \notin Ranked(c)
  BY <1>6
<1>8. n \in 1..madeSoFar
  BY <1>2, <1>5
<1>9. madeSoFar - n >= c + BatchSize
  BY <1>2, <1>5, <1>7, <1>8 DEF Ranked
<1>10. madeSoFar > c + BatchSize
  BY <1>2, <1>9
<1>11. More(c, PageAt(c))
  BY <1>4, <1>10 DEF More
<1>12. madeSoFar - c \in Ranked(c)
  BY <1>2, <1>10, CrawlSizes DEF Ranked
<1>13. QED BY <1>6, <1>9, <1>11, <1>12 DEF NextCursor

LEMMA FetchPageStep ==
    ASSUME CrawlInv, FetchPage
    PROVE  CrawlInv'
<1> DEFINE page == PageAt(crawl.cursor)
           kept == page \ filtered
           last == page = {} \/ ~More(crawl.cursor, page)
<1>1. /\ mode \in {"ord", "ordiscan"} /\ crawl.at = "batch" /\ Crawling(crawl)
      /\ UNCHANGED <<mode, filtered, wanted, unbound, madeSoFar, missing>>
  BY DEF FetchPage, CrawlInv, caller
<1>2. CASE page \cap unbound # {}
  <2>1. crawl' = [at |-> "failed", cursor |-> crawl.cursor, batch |-> crawl.batch, seen |-> crawl.seen,
                  processed |-> crawl.processed, failures |-> crawl.failures, before |-> crawl.before]
        /\ yielded' = yielded
    BY <1>1, <1>2 DEF FetchPage, Crawling
  <2>2. QED BY <1>1, <2>1 DEF CrawlInv, Crawling, NewestFits
<1>3. CASE page \cap unbound = {}
  <2>1. PICK a, c, p : /\ a = (IF last THEN "ended" ELSE "ready")
                       /\ c = (IF last THEN crawl.cursor ELSE NextCursor(crawl.cursor))
                       /\ p = crawl.processed + Cardinality(kept)
    OBVIOUS
  <2>2. /\ crawl' = [at |-> a, cursor |-> c, batch |-> crawl.batch, seen |-> crawl.seen,
                    processed |-> p, failures |-> crawl.failures, before |-> crawl.before]
        /\ yielded' = yielded \o NewestFirst(kept)
    BY <1>1, <1>3, <2>1 DEF FetchPage, Crawling
  <2>3. NewestFirst(kept) \in Seq(kept) /\ ToSet(NewestFirst(kept)) = kept /\ kept \subseteq 1..MaxMade
    BY KeptIsFinite, NewestFirstIsPage
  <2> HIDE DEF kept
  <2>4. yielded' \in Seq(1..MaxMade) /\ ToSet(yielded') = ToSet(yielded) \cup kept
    <3>1. /\ 1..MaxMade \subseteq Nat /\ yielded \in Seq(1..MaxMade)
          /\ NewestFirst(kept) \in Seq(1..MaxMade)
      <4>1. NewestFirst(kept) \in Seq(1..MaxMade)
        BY <2>3, WiderSequence
      <4>2. 1..MaxMade \subseteq Nat /\ yielded \in Seq(1..MaxMade)
        BY CrawlSizes DEF CrawlInv
      <4>3. QED BY <4>1, <4>2
    <3>2. yielded \in Seq(Nat) /\ NewestFirst(kept) \in Seq(Nat)
      BY <3>1, WiderSequence
    <3>3. QED BY <2>2, <2>3, <3>1, <3>2, ToSetJoins
  <2>5. Crawling(crawl')
    <3>1. c \in Nat /\ a \in {"ended", "ready"}
      BY <1>1, <2>1, CrawlSizes DEF Crawling, NextCursor
    <3>2. QED BY <1>1, <2>2, <3>1 DEF Crawling
  <2>6. mode = "ord" => NewestFits(crawl, yielded, madeSoFar)'
    <3> SUFFICES ASSUME mode = "ord" PROVE NewestFits(crawl, yielded, madeSoFar)'
      OBVIOUS
    <3>1. NewestFits(crawl, yielded, madeSoFar)
      BY DEF CrawlInv
    <3>2. ASSUME NEW n \in (1..crawl.before) \ filtered, n \notin ToSet(yielded')
          PROVE  madeSoFar - n >= NextCursor(crawl.cursor) /\ ~last
      BY <2>4, <3>1, <3>2, PageCovers DEF kept
    <3> HIDE DEF last
    <3>3. PICK k \in Nat : crawl.cursor = k * BatchSize
      BY <3>1 DEF NewestFits
    <3>4. \E j \in Nat : c = j * BatchSize
      <4>1. CASE last
        BY <2>1, <3>3, <4>1
      <4>2. CASE ~last
        <5>1. c = k * BatchSize + BatchSize
          BY <2>1, <3>3, <4>2 DEF NextCursor
        <5>2. (k + 1) * BatchSize = k * BatchSize + BatchSize /\ k + 1 \in Nat
          BY CrawlSizes
        <5>3. QED BY <5>1, <5>2
      <4>3. QED BY <4>1, <4>2
    <3>5. \A n \in (1..crawl.before) \ filtered : n \in ToSet(yielded') \/ madeSoFar - n >= c
      BY <2>1, <3>2
    <3>6. a = "ended" => (1..crawl.before) \ filtered \subseteq ToSet(yielded')
      BY <2>1, <3>2
    <3>7. crawl'.cursor = c /\ crawl'.at = a /\ crawl'.before = crawl.before /\ crawl.before <= madeSoFar
      BY <2>2, <3>1 DEF NewestFits
    <3>8. QED BY <1>1, <3>4, <3>5, <3>6, <3>7 DEF NewestFits
  <2>7. QED BY <1>1, <2>4, <2>5, <2>6 DEF CrawlInv
<1>4. QED BY <1>2, <1>3

LEMMA PageFailsStep ==
    ASSUME CrawlInv, PageFails
    PROVE  CrawlInv'
<1>1. /\ mode \in {"ord", "ordiscan"} /\ Crawling(crawl)
      /\ UNCHANGED <<mode, filtered, wanted, unbound, madeSoFar, yielded, missing>>
  BY DEF PageFails, CrawlInv, caller
<1>2. crawl' = [at |-> "failed", cursor |-> crawl.cursor, batch |-> crawl.batch, seen |-> crawl.seen,
                processed |-> crawl.processed, failures |-> crawl.failures, before |-> crawl.before]
  BY <1>1 DEF PageFails, Crawling
<1>3. QED BY <1>1, <1>2 DEF CrawlInv, Crawling, NewestFits

LEMMA CrawlInvariant == CrawlSpec => []CrawlInv
<1>1. CrawlInit => CrawlInv
  BY CrawlSizes DEF CrawlInit, CrawlInv
<1>2. CrawlInv /\ [CrawlNext]_crawlVars => CrawlInv'
  <2> SUFFICES ASSUME CrawlInv, [CrawlNext]_crawlVars PROVE CrawlInv'
    OBVIOUS
  <2>1. CASE UNCHANGED crawlVars
    BY <2>1 DEF crawlVars, caller, CrawlInv, Crawling, OldestFits, NewestFits
  <2>2. ASSUME NEW i \in 1..MaxMade, ResolveResource(i) \/ ResourceExpires(i) PROVE CrawlInv'
    BY <2>2 DEF ResolveResource, ResourceExpires, caller, CrawlInv, Crawling, OldestFits, NewestFits
  <2>3. QED BY <2>1, <2>2, MakeStep, BeginStep, PullStep, FetchStep, MissStep, EndBatchStep, FetchPageStep,
               PageFailsStep DEF CrawlNext
<1>3. QED BY <1>1, <1>2, PTL DEF CrawlSpec

\* What is under way, its cursor and what was handed out keep their types, whatever is
\* made, missed or asked for meanwhile.
THEOREM CrawlTypeCorrect == CrawlSpec => []CrawlTypeOK
<1>1. CrawlInv => CrawlTypeOK
  BY DEF CrawlInv, Crawling, CrawlTypeOK
<1>2. QED BY <1>1, CrawlInvariant, PTL

\* For any size of pages and number of inscriptions: a crawl from the oldest passes
\* over nothing but what the filter turned down or what could not be fetched, and hands
\* out in order; one of an ord node that came to its end has handed out everything that
\* was there when it began, although new inscriptions shift its pages
\* (ord-node-provider.ts:342-404, 489-562).
THEOREM CrawlsAreComplete == CrawlSpec => []CrawlIsComplete
<1>1. CrawlInv => CrawlIsComplete
  BY DEF CrawlInv, OldestFits, NewestFits, Rising, CrawlIsComplete
<1>2. QED BY <1>1, CrawlInvariant, PTL
=============================================================================
