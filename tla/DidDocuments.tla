---------------------------- MODULE DidDocuments ----------------------------
(***************************************************************************)
(* The operations on a DID document                                        *)
(* (packages/ordinalsplus/src/did/did-document.ts).  Each returns a copy,  *)
(* but a shallow one: the list of verification methods, and the lists of   *)
(* references to them, are those of the document it was made from.  So a   *)
(* document names lists, and the lists are kept apart from it.             *)
(*                                                                         *)
(* One relationship stands for the five, which are treated alike.          *)
(***************************************************************************)
EXTENDS Naturals, Sequences, SequencesExt, Functions

CONSTANTS
    MaxVersions,    \* bound: documents returned
    MaxOwnIds,      \* bound: key ids a caller chooses, numbered like the default ones
    MaxTimes        \* bound: milliseconds in which a key is rotated

ASSUME DocumentsAssumption ==
    MaxVersions \in Nat \ {0} /\ MaxOwnIds \in Nat /\ MaxTimes \in Nat

VARIABLES
    versions,       \* documents returned so far: the lists they name, deactivated
    methods,        \* lists of verification methods: id, revoked
    references,     \* lists of ids of a relationship, whose order says nothing
    taken,          \* history: ids that rotations made of the time
    branched,       \* history: an operation was given another document than the last
    chosen,         \* history: a caller chose an id of its own
    rushed          \* history: two rotations were in one millisecond

documentVars == <<versions, methods, references, taken, branched, chosen, rushed>>

Method(id) == [id |-> id, revoked |-> FALSE]
Ids(d) == {m.id : m \in ToSet(methods[versions[d].methods])}
IndexOf(list, id) == CHOOSE i \in DOMAIN list :
                        list[i].id = id /\ \A j \in 1..(i - 1) : list[j].id # id

\* createDidDocument.
DocumentsInit ==
    /\ versions = <<[methods |-> 1, references |-> 1, deactivated |-> FALSE]>>
    /\ methods = << <<Method(1)>> >>
    /\ references = << {1} >>
    /\ taken = {} /\ branched = FALSE /\ chosen = FALSE /\ rushed = FALSE

Returns(d, copy) ==
    /\ Len(versions) < MaxVersions
    /\ versions' = Append(versions, copy)
    /\ branched' = (branched \/ d # Len(versions))

Change(d, list) == methods' = [methods EXCEPT ![versions[d].methods] = list]

Gives(id, defaults) == chosen' = (chosen \/ id \notin defaults)

\* addKeyToDidDocument: the id is the caller's, or counts the methods.
DefaultId(d) == Len(methods[versions[d].methods]) + 1

AddKey(d, id, related) ==
    /\ ~versions[d].deactivated
    /\ id \in 1..MaxOwnIds \cup {DefaultId(d)}
    /\ Returns(d, versions[d])
    /\ Change(d, Append(methods[versions[d].methods], Method(id)))
    /\ references' = IF related
                     THEN [references EXCEPT ![versions[d].references] = @ \cup {id}]
                     ELSE references
    /\ Gives(id, {DefaultId(d)})
    /\ UNCHANGED <<taken, rushed>>

\* rotateKeyInDidDocument: the id is the caller's, or made of the millisecond it
\* is, in which there may have been another rotation; what referred to the old key
\* refers to the new one.
TimeIds == (MaxOwnIds + MaxVersions + 1)..(MaxOwnIds + MaxVersions + MaxTimes)

RotateKey(d, old, new, keep) ==
    LET list == methods[versions[d].methods]
        i    == IndexOf(list, old)
    IN  /\ ~versions[d].deactivated
        /\ old \in Ids(d) /\ new \in 1..MaxOwnIds \cup TimeIds
        /\ Returns(d, versions[d])
        /\ Change(d, IF keep THEN Append([list EXCEPT ![i].revoked = TRUE], Method(new))
                     ELSE [list EXCEPT ![i] = Method(new)])
        /\ references' = [references EXCEPT ![versions[d].references] =
                             {IF r = old THEN new ELSE r : r \in @}]
        /\ Gives(new, TimeIds)
        /\ taken' = taken \cup ({new} \cap TimeIds) /\ rushed' = (rushed \/ new \in taken)

\* (mutant of DropReferences) the relationships are left as they are
KeepReferences(d, id) == references[versions[d].references]

DropReferences(d, id) == references[versions[d].references] \ {id}

\* revokeKeyInDidDocument: here the copy gets a list of references of its own.
RevokeKey(d, id) ==
    LET list == methods[versions[d].methods] IN
    /\ ~versions[d].deactivated
    /\ id \in Ids(d)
    /\ Returns(d, [versions[d] EXCEPT !.references = Len(references) + 1])
    /\ Change(d, [list EXCEPT ![IndexOf(list, id)].revoked = TRUE])
    /\ references' = Append(references, DropReferences(d, id))
    /\ UNCHANGED <<taken, chosen, rushed>>

\* deactivateDidDocument, which asks nothing of the document.
Deactivate(d) ==
    /\ Returns(d, [versions[d] EXCEPT !.deactivated = TRUE])
    /\ UNCHANGED <<methods, references, taken, chosen, rushed>>

\* serializeDidDocument and deserializeDidDocument, which accepts what the operations
\* return: the copy has lists of its own, with the same entries.
Restore(d) ==
    /\ Returns(d, [versions[d] EXCEPT !.methods = Len(methods) + 1,
                                      !.references = Len(references) + 1])
    /\ methods' = Append(methods, methods[versions[d].methods])
    /\ references' = Append(references, references[versions[d].references])
    /\ UNCHANGED <<taken, chosen, rushed>>

DocumentsNext ==
    \E d \in DOMAIN versions :
        \/ \E id \in 1..(MaxOwnIds + MaxVersions), related \in BOOLEAN : AddKey(d, id, related)
        \/ \E id \in Ids(d) :
             \/ RevokeKey(d, id)
             \/ \E new \in 1..MaxOwnIds \cup TimeIds, keep \in BOOLEAN : RotateKey(d, id, new, keep)
        \/ Deactivate(d) \/ Restore(d)

DocumentsSpec == DocumentsInit /\ [][DocumentsNext]_documentVars

-----------------------------------------------------------------------------
DocumentsTypeOK ==
    /\ Len(versions) \in 1..MaxVersions
    /\ \A d \in DOMAIN versions :
         versions[d].methods \in DOMAIN methods /\ versions[d].references \in DOMAIN references
    /\ taken \subseteq TimeIds
    /\ branched \in BOOLEAN /\ chosen \in BOOLEAN /\ rushed \in BOOLEAN

\* Whoever goes on from the document the last operation returned has a document
\* whose references all name a key that it lists and that is not revoked, also
\* when it gives an id twice; and ids a caller leaves to the operations tell the
\* keys of every list apart unless two rotations were in one millisecond, whatever
\* documents the operations are given, as copies that share a list count together
\* (did-document.ts:168-215, 242-332, 371-394).
ReferencesLive ==
    LET d    == Len(versions)
        list == methods[versions[d].methods]
    IN  /\ ~branched => \A id \in references[versions[d].references] : Method(id) \in ToSet(list)
        /\ ~chosen /\ ~rushed =>
             \A l \in DOMAIN methods : IsInjective([i \in DOMAIN methods[l] |-> methods[l][i].id])

\* Expected to fail: the key that is found under the id of a reference, the first
\* with that id, is not revoked, when the operations choose the ids.
FoundIsLive ==
    LET d    == Len(versions)
        list == methods[versions[d].methods]
    IN  ~branched /\ ~chosen =>
            \A id \in references[versions[d].references] : ~list[IndexOf(list, id)].revoked
=============================================================================
