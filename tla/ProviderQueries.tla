--------------------------- MODULE ProviderQueries ---------------------------
(***************************************************************************)
(* What an ord node or Ordiscan is asked about an address, its outputs and *)
(* the inscriptions of a satoshi                                           *)
(* (packages/ordinalsplus/src/resources/providers), the list of outputs    *)
(* that may be spent which is made of it (utils/address-utils.ts), and the *)
(* routes of the API that pass it on (ordinals-plus-api/src/routers/       *)
(* utxoRouter.ts, services/providerService.ts).                            *)
(*                                                                         *)
(* A question takes several requests: a list, and then one request for     *)
(* each of its items, all at once.  Blocks come in between.  A request     *)
(* that fails is put to another path; what counts is the one that answers, *)
(* or that none does.                                                      *)
(*                                                                         *)
(* All inscriptions are on one satoshi and so in one output, where another *)
(* inscription may join them.                                              *)
(***************************************************************************)
EXTENDS Integers, FiniteSets

CONSTANTS
    Outs,         \* outputs that an address may have
    MaxOnSat,     \* bound: inscriptions on the satoshi
    MaxSpends     \* bound: transactions

ASSUME QueriesAssumption ==
    /\ IsFiniteSet(Outs) /\ Outs # {} /\ MaxOnSat \in Nat /\ MaxSpends \in Nat

VARIABLES
    owned,        \* unspent outputs of the address
    gone,         \* spent ones
    holder,       \* the output with the satoshi
    inscribed,    \* how many inscriptions the satoshi has, in their order
    question,     \* what is asked: kind, provider, at, todo, got, dropped, bare, slice
    span          \* history: what was true at some time, and all the time, of the question

blocks == <<owned, gone, holder, inscribed>>
queryVars == <<blocks, question, span>>

QueryKinds == {"utxos", "locations", "collection", "resource", "has", "sat"}
Providers == {"ord", "ordiscan"}

\* The part of a satoshi's list that is asked for.
Slices == [from : 0..1, count : {1, MaxOnSat}]
SlicesOf(kind) ==
    CASE kind = "collection" -> Slices
      [] kind = "resource" -> {s \in Slices : s.count = 1}
      [] OTHER -> {[from |-> 0, count |-> 1]}

\* getProvider: a node that is configured, else Ordiscan with a key, which signet
\* does not have; signet has a node in any case.
ProviderFor(network, url, key) ==
    CASE network = "signet" -> "ord"
      [] network \in {"mainnet", "testnet"} -> IF url THEN "ord" ELSE IF key THEN "ordiscan" ELSE "none"
      [] OTHER -> "none"

Configured == {ProviderFor(network, url, key) :
                  network \in {"mainnet", "testnet", "signet", "other"}, url \in BOOLEAN, key \in BOOLEAN}

Inscribed(o) == o = holder /\ inscribed > 0
FreeOuts == {o \in owned : ~Inscribed(o)}

NoQuery == [at |-> "none"]

\* Outputs are alike.
QueriesInit ==
    /\ holder = (CHOOSE o \in Outs : TRUE) /\ owned = {holder} /\ gone = {} /\ inscribed = 0
    /\ question = NoQuery
    /\ span = [free |-> {}, allFree |-> {}, unspent |-> {}, holders |-> {}, first |-> 0]

(***************************************************************************)
(* Blocks.                                                                 *)
(***************************************************************************)
\* What a question may have seen once a block has come.
Observed ==
    span' = IF question.at \in {"list", "items"}
            THEN [span EXCEPT !.free = @ \cup FreeOuts', !.allFree = @ \cap FreeOuts',
                              !.unspent = @ \cup owned', !.holders = @ \cup {holder'}]
            ELSE span

Spending == Cardinality(gone) < MaxSpends

\* The satoshi moves to another output.
MoveSat(o) ==
    /\ Spending /\ o \in Outs \ (owned \cup gone)
    /\ owned' = (owned \ {holder}) \cup {o} /\ gone' = gone \cup {holder} /\ holder' = o
    /\ UNCHANGED <<inscribed, question>> /\ Observed

Receive(o) ==
    /\ o \in Outs \ (owned \cup gone)
    /\ owned' = owned \cup {o}
    /\ UNCHANGED <<gone, holder, inscribed, question>> /\ Observed

Spend(o) ==
    /\ Spending /\ o \in owned \ {holder}
    /\ owned' = owned \ {o} /\ gone' = gone \cup {o}
    /\ UNCHANGED <<holder, inscribed, question>> /\ Observed

InscribeSat ==
    /\ inscribed < MaxOnSat
    /\ inscribed' = inscribed + 1
    /\ UNCHANGED <<owned, gone, holder, question>> /\ Observed

(***************************************************************************)
(* Questions.  One with a list ("list") goes on with its items ("items").  *)
(***************************************************************************)
\* Without a provider the route answers with an error.
AskProvider(kind, provider, slice) ==
    /\ question.at \in {"none", "ended", "failed"} /\ provider # "none"
    /\ question' = [at |-> "list", kind |-> kind, provider |-> provider, slice |-> slice,
                 todo |-> {}, got |-> {}, dropped |-> {}, bare |-> {}]
    /\ span' = [free |-> FreeOuts, allFree |-> FreeOuts, unspent |-> owned,
                holders |-> {holder}, first |-> inscribed]
    /\ UNCHANGED blocks

Listing(kind) == question.at = "list" /\ question.kind = kind
Items(todo) == [question EXCEPT !.at = IF todo = {} THEN "ended" ELSE "items", !.todo = todo]
Ends(got) == [question EXCEPT !.at = "ended", !.got = got]
Throws == [question EXCEPT !.at = "failed"]

\* getAddressUtxos: the outputs that the node lists, or, if there are none or it
\* cannot tell, those that Esplora lists.  Ordiscan never can.
OutputsListed ==
    /\ Listing("utxos") /\ question' = Items(owned)
    /\ UNCHANGED <<blocks, span>>

OutputsNotListed ==
    /\ Listing("utxos") /\ question' = Throws
    /\ UNCHANGED <<blocks, span>>

\* getInscriptionLocationsByAddress: Ordiscan has ids and locations in one answer; of
\* a node a list that cannot be had is an empty one.
IdsListed ==
    /\ Listing("locations")
    /\ question' = IF question.provider = "ordiscan" THEN Ends((1..inscribed) \X {holder})
                ELSE Items(1..inscribed)
    /\ UNCHANGED <<blocks, span>>

IdsNotListed ==
    /\ Listing("locations")
    /\ question' = IF question.provider = "ordiscan" THEN Throws ELSE [Ends({}) EXCEPT !.dropped = 1..inscribed]
    /\ UNCHANGED <<blocks, span>>

\* resolveCollection: the part of the satoshi's list that is asked for.
PartOf(slice, n) == {i \in 1..n : slice.from < i /\ i <= slice.from + slice.count}

CollectionListed ==
    /\ Listing("collection") /\ question' = Items(PartOf(question.slice, inscribed))
    /\ UNCHANGED <<blocks, span>>

\* resolve: the inscription at an index; past the end of the list there is none, and
\* the request for it is refused.
ResourceListed ==
    /\ Listing("resource")
    /\ question' = IF question.slice.from < inscribed THEN Items({question.slice.from + 1}) ELSE Throws
    /\ UNCHANGED <<blocks, span>>

SatListFails ==
    /\ Listing("collection") \/ Listing("resource")
    /\ question' = Throws
    /\ UNCHANGED <<blocks, span>>

\* hasInscriptionInOutput: when no path answers, it has none.
HasAnswered(o) ==
    /\ Listing("has") /\ question.provider = "ord" /\ o \in owned
    /\ \/ question' = Ends({<<o, Inscribed(o)>>})
       \/ question' = Ends({<<o, FALSE>>})
    /\ UNCHANGED <<blocks, span>>

\* getSatNumber: the first satoshi of an output, or an error.
SatAnswered(o) ==
    /\ Listing("sat") /\ o \in owned
    /\ question' = Ends({o}) \/ question' = Throws
    /\ UNCHANGED <<blocks, span>>

-----------------------------------------------------------------------------
(* Items. *)
Reading(kind, item) == question.at = "items" /\ question.kind = kind /\ item \in question.todo

Done(item, found) ==
    LET left == question.todo \ {item} IN
    [question EXCEPT !.todo = left, !.got = @ \cup found, !.at = IF left = {} THEN "ended" ELSE "items"]

\* (mutant of OutputRead) an output is offered when it is unspent
OutputReadUnspent(o) ==
    /\ Reading("utxos", o) /\ question.provider = "ord"
    /\ question' = Done(o, IF o \in owned THEN {o} ELSE {})
    /\ UNCHANGED <<blocks, span>>

\* An output is offered when it is unspent and has no inscription.
OutputRead(o) ==
    /\ Reading("utxos", o) /\ question.provider = "ord"
    /\ question' = Done(o, IF o \in FreeOuts THEN {o} ELSE {})
    /\ UNCHANGED <<blocks, span>>

\* An answer without a list of inscriptions is read as one with an empty list: the
\* output is offered whatever it holds.
BareOutputRead(o) ==
    /\ Reading("utxos", o) /\ question.provider = "ord"
    /\ question' = [Done(o, {o} \cap owned) EXCEPT !.bare = @ \cup {o}]
    /\ UNCHANGED <<blocks, span>>

LocationRead(i) ==
    /\ Reading("locations", i)
    /\ question' = Done(i, {<<i, holder>>})
    /\ UNCHANGED <<blocks, span>>

ResourceRead(i) ==
    /\ Reading("collection", i) \/ Reading("resource", i)
    /\ question' = Done(i, {i})
    /\ UNCHANGED <<blocks, span>>

\* An output or an inscription that cannot be read is left out.
LeftOut(item) ==
    /\ Reading("utxos", item) \/ Reading("locations", item)
    /\ question' = [Done(item, {}) EXCEPT !.dropped = @ \cup {item}]
    /\ UNCHANGED <<blocks, span>>

\* One resource that cannot be had fails the whole collection.
ResourceFails(i) ==
    /\ Reading("collection", i) \/ Reading("resource", i)
    /\ question' = Throws
    /\ UNCHANGED <<blocks, span>>

QueriesNext ==
    \/ \E o \in Outs : MoveSat(o) \/ Receive(o) \/ Spend(o)
    \/ InscribeSat
    \/ \E kind \in QueryKinds, provider \in Configured :
          \E slice \in SlicesOf(kind) : AskProvider(kind, provider, slice)
    \/ OutputsListed \/ OutputsNotListed \/ IdsListed \/ IdsNotListed
    \/ CollectionListed \/ ResourceListed \/ SatListFails
    \/ \E o \in Outs : HasAnswered(o) \/ SatAnswered(o) \/ OutputRead(o) \/ BareOutputRead(o)
    \/ \E i \in 1..MaxOnSat : LocationRead(i) \/ ResourceRead(i) \/ ResourceFails(i)
    \/ \E item \in Outs \cup 1..MaxOnSat : LeftOut(item)

QueriesSpec == QueriesInit /\ [][QueriesNext]_queryVars

-----------------------------------------------------------------------------
QueriesTypeOK ==
    /\ owned \subseteq Outs /\ gone \subseteq Outs \ owned /\ holder \in owned
    /\ inscribed \in 0..MaxOnSat
    /\ question.at \in {"none", "list", "items", "ended", "failed"}
    /\ question.at # "none" => question.kind \in QueryKinds /\ question.provider \in Providers /\ question.slice \in Slices

\* An answer is true of the chain although its parts were read at different times:
\* an output that is offered for spending was unspent at some time of the question,
\* and without inscription at that time unless the node's answer had no list of
\* them; one that was so all the time is offered unless it could not be read; a
\* location was the inscription's at some time; a resource is the one with the index
\* asked for, a collection has the indices of one moment (address-utils.ts:30-93,
\* ord-node-provider.ts:236-340, 440-488, 588-614).
AnswersWereTrue ==
    question.at = "ended" =>
        /\ question.kind = "utxos" =>
              /\ question.got \subseteq span.unspent /\ question.got \ question.bare \subseteq span.free
              /\ span.allFree \subseteq question.got \cup question.dropped
        /\ question.kind = "locations" =>
              /\ \A l \in question.got : l[2] \in span.holders
              /\ 1..span.first \subseteq {l[1] : l \in question.got} \cup question.dropped
        /\ question.kind = "resource" => question.got = {question.slice.from + 1}
        /\ question.kind = "collection" =>
              \E n \in span.first..inscribed : question.got = PartOf(question.slice, n)

\* Expected to fail: no output is offered for spending that has had an inscription
\* since the question was asked.
OfferedIsFree ==
    question.at = "ended" /\ question.kind = "utxos" => question.got \subseteq span.free

\* Expected to fail: no inscription is said not to be there.
HasIsTrue ==
    question.at = "ended" /\ question.kind = "has" => <<holder, FALSE>> \notin question.got \/ inscribed = 0

\* Expected to fail: inscriptions of one satoshi are reported in one output.
LocationsAgree ==
    question.at = "ended" /\ question.kind = "locations" => \A l, m \in question.got : l[2] = m[2]

\* Expected to fail: a list of outputs is complete.
NothingLeftOut == question.at = "ended" => question.dropped = {}
=============================================================================
