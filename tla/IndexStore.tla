----------------------------- MODULE IndexStore -----------------------------
(***************************************************************************)
(* The Redis keys that the block modes of the indexer share with its       *)
(* maintenance scripts (packages/ordinals-plus-indexer/src): the store of  *)
(* index.ts, which is one MULTI behind a test of indexed:inscriptions,     *)
(* manual-index.ts, which writes the same keys one by one and never asks   *)
(* whether an inscription is indexed, and reset-index.ts, which deletes    *)
(* one pattern of keys after the other.                                    *)
(*                                                                         *)
(* The chain is a constant sequence of blocks of which 0..height exist.    *)
(* Ord appends to the list of inscriptions on a sat, so a list somebody    *)
(* has read is the length it had.  Counters, the list of errors and the    *)
(* contents of the hashes other than the resource id are left out.         *)
(***************************************************************************)
EXTENDS Integers, FiniteSets, Sequences

CONSTANTS
    Blocks,      \* Blocks[h + 1] is the sequence of inscriptions of block h
    SatOf,       \* [Inscriptions -> Sats]
    Plus,        \* inscriptions whose metadata is a DID document or a credential
    InitHeight,  \* the tip when the system starts
    MaxScripts,  \* bound: runs of manual-index and reset-index together, of each one at a time
    MaxFaults,   \* bound: calls to the provider or Redis that fail
    NoInscription

VARIABLES
    height,     \* the tip of the chain
    indexed,    \* indexed:inscriptions
    errored,    \* inscriptions with an indexer:error:* hash
    resources,  \* ordinals-plus-resources, a set of resource ids
    details,    \* ordinals_plus:resource:*, inscription |-> resource id
    others,     \* inscriptions in non-ordinals-resources, under either kind of name
    faults,     \* calls that failed so far
    manual,     \* the manual-index process: what it does, to which inscription
    reset,      \* the patterns reset-index has yet to delete
    runs,       \* runs of the two scripts so far
    torn,       \* history: members whose listing a reset may have deleted
    wiped       \* history: inscriptions whose entry a reset deleted

redis == <<indexed, errored, resources, details, others>>
scripts == <<manual, reset, runs, torn, wiped>>
storeVars == <<height, redis, faults, scripts>>

Heights == 0..(Len(Blocks) - 1)
Inscriptions == DOMAIN SatOf
Sats == {SatOf[i] : i \in Inscriptions}

\* An inscription is made once, in one block.
ASSUME ChainAssumption ==
    /\ Blocks \in Seq(Seq(Inscriptions)) /\ Blocks # <<>>
    /\ \A g, h \in DOMAIN Blocks : \A k \in DOMAIN Blocks[g], l \in DOMAIN Blocks[h] :
          Blocks[g][k] = Blocks[h][l] => g = h /\ k = l
    /\ IsFiniteSet(Inscriptions) /\ NoInscription \notin Inscriptions

InBlock(h) == {Blocks[h + 1][k] : k \in DOMAIN Blocks[h + 1]}
Existing == UNION {InBlock(h) : h \in 0..height}

\* Ord numbers inscriptions in the order of the chain; the index of a DID path is
\* the number among those on its sat.
Before(i, j) ==
    \E g, h \in DOMAIN Blocks : \E k \in DOMAIN Blocks[g], l \in DOMAIN Blocks[h] :
        /\ Blocks[g][k] = i /\ Blocks[h][l] = j
        /\ g < h \/ (g = h /\ k < l)
Number == [i \in Inscriptions |-> Cardinality({j \in Inscriptions : Before(j, i)})]
Position == [i \in Inscriptions |->
                Cardinality({j \in Inscriptions : SatOf[j] = SatOf[i] /\ Before(j, i)})]
OnSat(s) == Cardinality({i \in Existing : SatOf[i] = s})

\* (mutant of ResourceId) takes the inscription for the last one on its sat
LastOnSat(i, listed) == [sat |-> SatOf[i], index |-> IF listed = 0 THEN 0 ELSE listed - 1]

\* formatDid over inscriptionsOnSat.indexOf: not in the list counts as the first.
ResourceId(i, listed) ==
    [sat |-> SatOf[i], index |-> IF Position[i] < listed THEN Position[i] ELSE 0]
ResourceIds == [sat : Sats, index : 0..Cardinality(Inscriptions)]

\* isOrdinalsPlus; getMetadata answers null for any failure.
Class(i, metadata) == IF metadata /\ i \in Plus THEN "plus" ELSE "other"

Idle == [at |-> "off", of |-> NoInscription, class |-> "other", id |-> [sat |-> 0, index |-> 0]]

StoreInit ==
    /\ height = InitHeight
    /\ indexed = {} /\ errored = {} /\ resources = {} /\ others = {}
    /\ details = <<>>
    /\ faults = 0
    /\ manual = Idle /\ reset = <<>> /\ runs = 0
    /\ torn = {} /\ wiped = {}

Fault == faults < MaxFaults /\ faults' = faults + 1

NewBlock ==
    /\ height + 1 \in Heights
    /\ height' = height + 1
    /\ UNCHANGED <<redis, faults, scripts>>

(***************************************************************************)
(* ResourceStorage: the MULTI of a store, and an error report.             *)
(***************************************************************************)
Described(i, id) == [j \in DOMAIN details \cup {i} |-> IF j = i THEN id ELSE details[j]]

\* A reset has deleted the members, or failed to, and is at the lists.
DeletingLists == reset # <<>> /\ Head(reset) \in {"resources", "others", "details"}

StoreMulti(i, class, id) ==
    /\ indexed' = indexed \cup {i}
    /\ torn' = IF DeletingLists THEN torn \cup {i} ELSE torn
    /\ IF class = "plus"
       THEN /\ resources' = resources \cup {id}
            /\ details' = Described(i, id)
            /\ UNCHANGED others
       ELSE /\ others' = others \cup {i}
            /\ UNCHANGED <<resources, details>>
    /\ UNCHANGED <<errored, manual, reset, runs, wiped>>

StoreError(i) ==
    /\ errored' = errored \cup {i}
    /\ UNCHANGED <<indexed, resources, details, others, scripts>>

(***************************************************************************)
(* manual-index.ts: getInscriptionByNumber, getMetadata and                *)
(* generateResourceId, then one call per key.  A call that fails ends in   *)
(* the catch of processInscription, which writes keys left out here.       *)
(***************************************************************************)
ManualStart(i) ==
    /\ manual.at = "off" /\ runs < MaxScripts
    /\ i \in Existing
    /\ runs' = runs + 1
    /\ \E metadata \in BOOLEAN :
        /\ IF metadata THEN UNCHANGED faults ELSE Fault
        /\ manual' = [at |-> IF Class(i, metadata) = "plus" THEN "sAdd" ELSE "lPush",
                      of |-> i, class |-> Class(i, metadata), id |-> ResourceId(i, OnSat(SatOf[i]))]
    /\ UNCHANGED <<height, redis, reset, torn, wiped>>

ManualAdd ==
    /\ manual.at = "sAdd"
    /\ resources' = resources \cup {manual.id}
    /\ manual' = [manual EXCEPT !.at = "hSet"]
    /\ UNCHANGED <<height, faults, indexed, errored, details, others, reset, runs, torn, wiped>>

\* The id may no longer be in the set, when a reset ran since it was added.
ManualDescribe ==
    /\ manual.at = "hSet"
    /\ details' = Described(manual.of, manual.id)
    /\ torn' = IF manual.id \in resources THEN torn ELSE torn \cup {manual.of}
    /\ manual' = Idle
    /\ UNCHANGED <<height, faults, indexed, errored, resources, others, reset, runs, wiped>>

ManualPush ==
    /\ manual.at = "lPush"
    /\ others' = others \cup {manual.of}
    /\ manual' = Idle
    /\ UNCHANGED <<height, faults, indexed, errored, resources, details, reset, runs, torn, wiped>>

ManualFails ==
    /\ manual.at # "off"
    /\ Fault
    /\ manual' = Idle
    /\ UNCHANGED <<height, redis, reset, runs, torn, wiped>>

Manual == (\E i \in Inscriptions : ManualStart(i)) \/ ManualAdd \/ ManualDescribe \/ ManualPush \/ ManualFails

(***************************************************************************)
(* reset-index.ts, an operator's script: DEL of one pattern after the      *)
(* other.  It looks at no process, so indexers and manual-index may run    *)
(* between any two deletions.  A pattern that fails is logged and left     *)
(* (ResetFails); a crash leaves all that follow.                           *)
(***************************************************************************)
\* (mutant of Patterns) the lists go before the members
ListsFirst == <<"errors", "resources", "others", "details", "indexed">>

Patterns == <<"errors", "indexed", "resources", "others", "details">>

Delete(pattern) ==
    /\ errored'   = IF pattern = "errors" THEN {} ELSE errored
    /\ indexed'   = IF pattern = "indexed" THEN {} ELSE indexed
    /\ resources' = IF pattern = "resources" THEN {} ELSE resources
    /\ others'    = IF pattern = "others" THEN {} ELSE others
    /\ details'   = IF pattern = "details" THEN <<>> ELSE details

ResetStart ==
    /\ reset = <<>> /\ runs < MaxScripts
    /\ runs' = runs + 1
    /\ reset' = Patterns
    /\ UNCHANGED <<height, redis, faults, manual, torn, wiped>>

ResetPattern ==
    /\ reset # <<>>
    /\ Delete(Head(reset))
    /\ torn' = IF Head(reset) = "indexed" THEN {} ELSE torn
    /\ wiped' = wiped \cup (errored \ errored') \cup (indexed \ indexed')
    /\ reset' = Tail(reset)
    /\ UNCHANGED <<height, faults, manual, runs>>

ResetFails ==
    /\ reset # <<>>
    /\ Fault
    /\ torn' = IF Head(reset) = "indexed" THEN torn \cup indexed ELSE torn
    /\ reset' = Tail(reset)
    /\ UNCHANGED <<height, redis, manual, runs, wiped>>

ResetCrashes ==
    /\ reset # <<>>
    /\ Fault
    /\ reset' = <<>>
    /\ UNCHANGED <<height, redis, manual, runs, torn, wiped>>

Resetting == ResetStart \/ ResetPattern \/ ResetFails \/ ResetCrashes

(***************************************************************************)
(* What readers of the store (the API's resource manager, the cli) rely on *)
(***************************************************************************)
StoreTypeOK ==
    /\ height \in Heights
    /\ indexed \subseteq Existing /\ errored \subseteq Existing /\ others \subseteq Existing
    /\ resources \subseteq ResourceIds
    /\ DOMAIN details \subseteq Existing /\ \A i \in DOMAIN details : details[i] \in ResourceIds
    /\ faults \in 0..MaxFaults
    /\ manual.at \in {"off", "sAdd", "hSet", "lPush"} /\ manual.of \in Inscriptions \cup {NoInscription}
    /\ \E k \in 0..Len(Patterns) : reset = SubSeq(Patterns, k + 1, Len(Patterns))
    /\ runs \in 0..MaxScripts
    /\ torn \subseteq Inscriptions /\ wiped \subseteq Inscriptions
=============================================================================
