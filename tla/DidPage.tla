------------------------------- MODULE DidPage -------------------------------
(***************************************************************************)
(* The explorer's page of a DID and its list of linked resources           *)
(* (pages/DIDPage.tsx, components/LinkedResourceList.tsx and the           *)
(* verification components of packages/ordinals-plus-explorer).            *)
(*                                                                         *)
(* The page asks the API to resolve the DID of the address whenever that   *)
(* changes.  Each inscription of the answer is shown on a card, which has  *)
(* its credential verified by itself; a document brings a list of linked   *)
(* resources, which is also a page of its own.  No request is cancelled:   *)
(* an answer reaches whatever component is still mounted.                  *)
(***************************************************************************)
EXTENDS Integers, Sequences

CONSTANTS
    Dids,          \* DIDs that are visited
    SatOf,         \* the satoshi of each
    CardsOn,       \* the inscriptions on each satoshi
    Subject,       \* the satoshi that the credential of an inscription is about
    NoDid, NoSat,
    Browse,        \* the address of the list of all resources
    Chains,        \* networks that may be selected
    FirstChain,
    MaxMoves,      \* bound: addresses visited after the first one
    MaxFetches     \* bound: loads of linked resources under way

Sats == DOMAIN CardsOn
Cards == UNION {CardsOn[s] : s \in Sats}
OwnSat(c) == CHOOSE s \in Sats : c \in CardsOn[s]

ASSUME DidPageAssumption ==
    /\ SatOf \in [Dids -> Sats] /\ NoDid \notin Dids /\ NoSat \notin Sats /\ Browse \notin Dids
    /\ \A s, t \in Sats : s # t => CardsOn[s] \cap CardsOn[t] = {}
    /\ Subject \in [Cards -> Sats \cup {NoSat}]
    /\ FirstChain \in Chains /\ MaxMoves \in Nat /\ MaxFetches \in Nat

VARIABLES
    place,         \* the DID in the address, or Browse
    onNet,         \* the selected network
    asked,         \* lookups of the mounted page that are not answered
    resolving, lookupError, document, resolution, inscribed,  \* the state of the page
    cards,         \* the cards that are mounted, and their verifications
    list,          \* the list of linked resources, if it is mounted
    alone,         \* history: no lookup was under way when the last one began
    moves

lookupVars == <<asked, resolving, lookupError, document, resolution, inscribed>>
didVars == <<place, onNet, lookupVars, cards, list, alone, moves>>

Kinds == {"document", "bare", "broken", "empty"}    \* answers of the resolver
Outcomes == {"valid", "invalid", "error"}           \* of a verification
NoResolution == [of |-> NoDid, kind |-> "none"]
FailedResolution == [of |-> NoDid, kind |-> "failed"]
NoCard == [on |-> FALSE, runs |-> 0, busy |-> FALSE, outcome |-> "none", cached |-> "none", against |-> NoSat]
NoKey == [of |-> NoDid]

-----------------------------------------------------------------------------
(* The list of linked resources. *)
Key(d, n, p, f) == [of |-> d, chain |-> n, page |-> p, filter |-> f]
NoList == [on |-> FALSE, key |-> NoKey, got |-> NoKey, failed |-> FALSE, busy |-> FALSE, fetches |-> <<>>]

\* The effect that fetches for a DID clears what is shown, the one for all does not.
Fetching(l, k) ==
    [l EXCEPT !.on = TRUE, !.key = k, !.busy = TRUE, !.failed = FALSE,
              !.got = IF k.of = Browse THEN @ ELSE NoKey,
              !.fetches = Append(@, k)]

\* A new list is mounted, and fetches.
Mounting(d, n) == Fetching(NoList, Key(d, n, 1, "all"))

RemoveAt(s, i) == SubSeq(s, 1, i - 1) \o SubSeq(s, i + 1, Len(s))

\* The answer to any fetch is shown.
ListArrives(i) ==
    /\ i \in DOMAIN list.fetches
    /\ list' = [list EXCEPT !.got = list.fetches[i], !.busy = FALSE, !.fetches = RemoveAt(@, i)]
    /\ UNCHANGED <<place, onNet, lookupVars, cards, alone, moves>>

ListFails(i) ==
    /\ i \in DOMAIN list.fetches
    /\ list' = [list EXCEPT !.failed = TRUE, !.busy = FALSE, !.fetches = RemoveAt(@, i),
                            !.got = IF list.fetches[i].of = Browse THEN NoKey ELSE @]
    /\ UNCHANGED <<place, onNet, lookupVars, cards, alone, moves>>

\* The effect runs again for another network; the lookup of the DID does not.
SelectChain(n) ==
    /\ n # onNet /\ Len(list.fetches) < MaxFetches
    /\ onNet' = n
    /\ list' = IF list.on THEN Fetching(list, [list.key EXCEPT !.chain = n]) ELSE list
    /\ UNCHANGED <<place, lookupVars, cards, alone, moves>>

\* Filters of the list of all resources go back to its first page; its pages
\* can be turned while entries are shown.
Refilter(f) ==
    /\ place = Browse /\ f # list.key.filter /\ Len(list.fetches) < MaxFetches
    /\ list' = Fetching(list, [list.key EXCEPT !.filter = f, !.page = 1])
    /\ UNCHANGED <<place, onNet, lookupVars, cards, alone, moves>>

TurnTo(p) ==
    /\ place = Browse /\ list.got # NoKey /\ ~list.failed
    /\ p # list.key.page /\ Len(list.fetches) < MaxFetches
    /\ list' = Fetching(list, [list.key EXCEPT !.page = p])
    /\ UNCHANGED <<place, onNet, lookupVars, cards, alone, moves>>

-----------------------------------------------------------------------------
(* The cards. *)

\* A card that is mounted makes a verification service and verifies at once.
MountedCard == [NoCard EXCEPT !.on = TRUE, !.runs = 1, !.busy = TRUE]

\* A card that stays and gets the metadata of another answer verifies again, unless
\* its service has a result by then.
Reverified(card) ==
    IF card.cached # "none" THEN [card EXCEPT !.busy = FALSE]
    ELSE [card EXCEPT !.runs = @ + 1, !.busy = TRUE]

\* The cards once the inscriptions of DID d are shown; replaced says whether they
\* came with this very answer.
CardsFor(d, replaced) ==
    [c \in Cards |->
        IF d = NoDid \/ c \notin CardsOn[SatOf[d]] THEN NoCard
        ELSE IF ~cards[c].on THEN MountedCard
        ELSE IF replaced THEN Reverified(cards[c]) ELSE cards[c]]

\* The satoshi that is passed to the cards.
\* (mutant of ExpectedSat) it is taken from the address
ExpectedByAddress == IF place \in Dids THEN SatOf[place] ELSE NoSat
ExpectedSat == IF resolution.kind \in Kinds \ {"empty"} THEN SatOf[resolution.of] ELSE NoSat

\* verifyInscription: whatever the API answers is a result, which is cached, and is
\* shown although another run may be under way.  The checks are made from it once,
\* with the satoshi that is expected then.
VerificationEnds(c, outcome) ==
    /\ cards[c].runs > 0
    /\ cards' = [cards EXCEPT ![c].runs = @ - 1, ![c].busy = FALSE,
                              ![c].outcome = outcome, ![c].cached = outcome,
                              ![c].against = ExpectedSat]
    /\ UNCHANGED <<place, onNet, lookupVars, list, alone, moves>>

\* The checks of a credential that a card shows.
Checks(c) ==
    LET card == cards[c]
    IN {<<"signature", card.outcome = "valid">>,
        <<"satValidation", Subject[c] = NoSat \/ card.against \in {NoSat, Subject[c]}>>}
       \cup (IF card.outcome = "error" THEN {<<"error", FALSE>>} ELSE {})

Judged(c) == cards[c].on /\ ~cards[c].busy /\ cards[c].outcome # "none"

-----------------------------------------------------------------------------
(* The page. *)

\* What a lookup clears before it begins.
Cleared ==
    /\ lookupError' = "none" /\ resolution' = NoResolution /\ inscribed' = NoDid
    /\ document' = NoDid

DidPageInit ==
    /\ place \in Dids
    /\ onNet = FirstChain
    /\ asked = {[of |-> place, n |-> 0]}
    /\ resolving = TRUE /\ lookupError = "none" /\ document = NoDid
    /\ resolution = NoResolution /\ inscribed = NoDid
    /\ cards = [c \in Cards |-> NoCard] /\ list = NoList
    /\ alone = TRUE /\ moves = 0

\* Another DID is visited: the page stays if it is shown, and so do its lookups.
\* While it is resolving neither cards nor list are mounted.
Visit(d) ==
    /\ d # place /\ moves < MaxMoves
    /\ place' = d /\ moves' = moves + 1
    /\ asked' = asked \cup {[of |-> d, n |-> moves + 1]}
    /\ alone' = (asked = {})
    /\ resolving' = TRUE
    /\ Cleared
    /\ cards' = [c \in Cards |-> NoCard] /\ list' = NoList
    /\ UNCHANGED onNet

\* The list of all resources is visited: the page and its lookups are gone.
VisitList ==
    /\ place # Browse /\ moves < MaxMoves
    /\ place' = Browse /\ moves' = moves + 1
    /\ asked' = {} /\ alone' = TRUE /\ resolving' = FALSE
    /\ lookupError' = "none" /\ resolution' = NoResolution /\ inscribed' = NoDid /\ document' = NoDid
    /\ cards' = [c \in Cards |-> NoCard] /\ list' = Mounting(Browse, onNet)
    /\ UNCHANGED onNet

\* A list that is mounted stays, another one is mounted for a document.
ListBeside(doc) ==
    IF doc = NoDid THEN NoList ELSE IF list.on THEN list ELSE Mounting(place, onNet)

\* The resolver answers: a document with its inscriptions, inscriptions without a
\* document (of which some refer to the DID or none do), or none.  A document that
\* is shown is not taken away, nor is an error.
Resolved(l, kind) ==
    /\ l \in asked
    /\ asked' = asked \ {l}
    /\ resolving' = FALSE
    /\ resolution' = [of |-> l.of, kind |-> kind]
    /\ inscribed' = IF kind = "empty" THEN NoDid ELSE l.of
    /\ document' = IF kind = "document" THEN l.of ELSE document
    /\ lookupError' = IF kind \in {"broken", "empty"} THEN kind ELSE lookupError
    /\ cards' = CardsFor(inscribed', TRUE) /\ list' = ListBeside(document')
    /\ UNCHANGED <<place, onNet, alone, moves>>

\* The request fails: document and inscriptions stay as they are.
NotResolved(l) ==
    /\ l \in asked
    /\ asked' = asked \ {l}
    /\ resolving' = FALSE
    /\ resolution' = FailedResolution /\ lookupError' = "failed"
    /\ cards' = CardsFor(inscribed, FALSE) /\ list' = ListBeside(document)
    /\ UNCHANGED <<place, onNet, document, inscribed, alone, moves>>

DidPageNext ==
    \/ \E d \in Dids : Visit(d)
    \/ VisitList
    \/ \E l \in asked : NotResolved(l) \/ \E kind \in Kinds : Resolved(l, kind)
    \/ \E c \in Cards, outcome \in Outcomes : VerificationEnds(c, outcome)
    \/ \E i \in 1..MaxFetches : ListArrives(i) \/ ListFails(i)
    \/ \E n \in Chains : SelectChain(n)
    \/ \E f \in {"all", "image"} : Refilter(f)
    \/ \E p \in 1..2 : TurnTo(p)

DidPageSpec == DidPageInit /\ [][DidPageNext]_didVars

-----------------------------------------------------------------------------
DidPageTypeOK ==
    /\ place \in Dids \cup {Browse} /\ onNet \in Chains
    /\ asked \subseteq [of : Dids, n : 0..MaxMoves]
    /\ {resolving, alone, list.on, list.busy, list.failed} \subseteq BOOLEAN
    /\ lookupError \in {"none", "failed", "broken", "empty"}
    /\ {document, inscribed, resolution.of} \subseteq Dids \cup {NoDid}
    /\ resolution.kind \in Kinds \cup {"none", "failed"}
    /\ \A c \in Cards :
          /\ cards[c].runs \in Nat /\ cards[c].against \in Sats \cup {NoSat}
          /\ {cards[c].outcome, cards[c].cached} \subseteq Outcomes \cup {"none"}
    /\ list.fetches \in Seq([of : Dids \cup {Browse}, chain : Chains, page : 1..2, filter : {"all", "image"}])
    /\ moves \in 0..MaxMoves

\* A credential about its own satoshi is never reported as one about another, in
\* whatever order lookups and verifications end; on an undisturbed page one about
\* another satoshi always is (VerificationDetailsPanel.tsx:118-165).
ComparedWithOwnSat ==
    \A c \in Cards : Judged(c) =>
        /\ Subject[c] = OwnSat(c) => <<"satValidation", TRUE>> \in Checks(c)
        /\ alone /\ Subject[c] \notin {NoSat, OwnSat(c)} => <<"satValidation", FALSE>> \in Checks(c)

\* Expected to fail: once all is answered the page shows what was answered for its
\* DID.  A lookup is not cancelled, and the last to arrive is shown.
ShowsItsDid ==
    asked = {} /\ place \in Dids =>
        document \in {NoDid, place} /\ inscribed \in {NoDid, place}

\* Expected to fail: document and inscriptions come from one answer.
PageIsOfOneAnswer ==
    document # NoDid /\ inscribed # NoDid => document = inscribed

\* Expected to fail: no error is shown above a document that was found.
ErrorOrDocument == document = NoDid \/ lookupError = "none"

\* Expected to fail: the list shows what it was asked for last.
ListIsTheOneAskedFor ==
    list.fetches = <<>> /\ list.got # NoKey => list.got = list.key
=============================================================================
