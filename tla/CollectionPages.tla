--------------------------- MODULE CollectionPages ---------------------------
(***************************************************************************)
(* The explorer's pages of collections                                     *)
(* (packages/ordinals-plus-explorer/src/pages/CreateCollectionPage.tsx,    *)
(* CollectionsListPage.tsx, CollectionsGalleryPage.tsx,                    *)
(* CollectionVerificationPage.tsx with components/collection and           *)
(* components/collections).                                                *)
(*                                                                         *)
(* One page is mounted at a time, and a page that is left forgets its      *)
(* state.  Its requests go on: a collection that is created after its form *)
(* was left still brings the browser to the collection's page two seconds  *)
(* later.  What the API answers is anything it may answer; of a text only  *)
(* its emptiness and its length matter.                                    *)
(***************************************************************************)
EXTENDS Integers, Sequences, FiniteSets

CONSTANTS
    Fields,        \* texts that are required: "name", "description"
    Pieces,        \* inscriptions that can be selected
    Listable,      \* collections that the gallery may get
    Inscribed, Credentialed,   \* those with an inscription id, with a credential
    Rank,          \* how each order sorts them: order -> collection -> place
    Subjects,      \* pairs of ids that may be entered to be verified
    NoSubject,
    PerPage,       \* cards on a page of the gallery
    MaxMounts,     \* bound: pages visited, not counting those of one collection
    MaxSent,       \* bound: collections sent
    MaxAsks,       \* bound: requests for a page of the list
    MaxPages       \* bound: pages that the list has

ASSUME CollectionPagesAssumption ==
    /\ Inscribed \cup Credentialed \subseteq Listable
    /\ IsFiniteSet(Listable) /\ DOMAIN Rank # {}
    /\ \A o \in DOMAIN Rank :
          /\ Rank[o] \in [Listable -> 1..Cardinality(Listable)]
          /\ \A c, d \in Listable : Rank[o][c] = Rank[o][d] => c = d
    /\ NoSubject \notin Subjects /\ PerPage \in Nat \ {0}
    /\ {MaxMounts, MaxSent, MaxAsks, MaxPages} \subseteq Nat

VARIABLES
    shownPage,     \* "create", "list", "gallery", "verify", or "one" collection
    mounts,        \* the number of the page that is mounted
    draftForm,     \* CollectionCreationForm and InscriptionSelector
    sent,          \* the collections that were sent, in order
    departures,    \* those whose page the browser is about to open
    listPage, gallery, verifyPage

pagesVars == <<shownPage, mounts, draftForm, sent, departures, listPage, gallery, verifyPage>>

Texts == {"", "fits", "too long"}
Filters == {"all", "inscribed", "not inscribed"}

BlankForm == [step |-> 0, texts |-> [field \in Fields |-> ""], items |-> <<>>,
              ordered |-> <<>>, loaded |-> FALSE, errors |-> {}, busy |-> FALSE, failed |-> FALSE, done |-> FALSE]
NoPage == [page |-> 0, pages |-> 0]
BlankList == [page |-> 1, asked |-> {}, asks |-> 0, busy |-> FALSE, failed |-> FALSE, got |-> NoPage]
BlankGallery == [busy |-> FALSE, failed |-> FALSE, all |-> {}, filter |-> "all",
                 order |-> CHOOSE o \in DOMAIN Rank : TRUE, page |-> 1]
BlankVerify == [entered |-> NoSubject, asked |-> NoSubject, result |-> NoSubject,
                valid |-> FALSE, failed |-> FALSE]

-----------------------------------------------------------------------------
(* The list: an effect asks for a page whenever the page or the category   *)
(* changes; the category is not part of the request.                       *)
AskingList(l, p) == [l EXCEPT !.page = p, !.busy = TRUE, !.failed = FALSE, !.asks = @ + 1,
                          !.asked = @ \cup {[page |-> p, n |-> l.asks]}]

\* A new page is mounted in its initial state; list and gallery ask at once.
OpenPage(p) ==
    /\ shownPage' = p /\ mounts' = mounts + 1
    /\ draftForm' = BlankForm /\ verifyPage' = BlankVerify
    /\ listPage' = IF p = "list" THEN AskingList(BlankList, 1) ELSE BlankList
    /\ gallery' = [BlankGallery EXCEPT !.busy = (p = "gallery")]

PagesInit ==
    /\ shownPage = "create" /\ mounts = 0
    /\ draftForm = BlankForm /\ sent = <<>> /\ departures = {}
    /\ listPage = BlankList /\ gallery = BlankGallery /\ verifyPage = BlankVerify

VisitPage(p) ==
    /\ p # shownPage /\ mounts < MaxMounts
    /\ OpenPage(p)
    /\ UNCHANGED <<sent, departures>>

-----------------------------------------------------------------------------
(* The form. *)
OnForm(next) ==
    /\ shownPage = "create"
    /\ draftForm' = next
    /\ UNCHANGED <<shownPage, mounts, listPage, gallery, verifyPage>>

Enter(field, text) ==
    /\ draftForm.step = 0 /\ draftForm.texts[field] # text
    /\ OnForm([draftForm EXCEPT !.texts[field] = text])
    /\ UNCHANGED <<sent, departures>>

\* validateForm: the fields whose errors it sets; it clears the others.
Faults(f) ==
    {field \in Fields : f.texts[field] # "fits"}
        \cup (IF f.items = <<>> THEN {"items"} ELSE {})

\* The selector is mounted with the selection, and loads what can be selected.
StepOn ==
    /\ ~draftForm.busy
    /\ \/ /\ draftForm.step = 0
          /\ OnForm(IF \E field \in Fields : draftForm.texts[field] = ""
                    THEN [draftForm EXCEPT !.errors = Faults(draftForm)]
                    ELSE [draftForm EXCEPT !.step = 1, !.loaded = FALSE,
                                           !.ordered = draftForm.items])
       \/ /\ draftForm.step = 1
          /\ OnForm(IF draftForm.items = <<>>
                    THEN [draftForm EXCEPT !.errors = @ \cup {"items"}]
                    ELSE [draftForm EXCEPT !.step = 2])
    /\ UNCHANGED <<sent, departures>>

StepBack ==
    /\ ~draftForm.busy /\ draftForm.step > 0
    /\ OnForm(IF draftForm.step = 2
              THEN [draftForm EXCEPT !.step = 1, !.loaded = FALSE, !.ordered = draftForm.items]
              ELSE [draftForm EXCEPT !.step = 0])
    /\ UNCHANGED <<sent, departures>>

SelectorOpen == shownPage = "create" /\ draftForm.step = 1 /\ draftForm.loaded

PiecesLoaded ==
    /\ draftForm.step = 1 /\ ~draftForm.loaded
    /\ OnForm([draftForm EXCEPT !.loaded = TRUE])
    /\ UNCHANGED <<sent, departures>>

Selected(seq) == {seq[i] : i \in DOMAIN seq}

\* filter: the elements that are in S, in their order.
Only(seq, S) ==
    LET kept[n \in 0..Len(seq)] ==
            IF n = 0 THEN <<>>
            ELSE IF seq[n] \in S THEN Append(kept[n - 1], seq[n]) ELSE kept[n - 1]
    IN  kept[Len(seq)]

\* The effect of the selector on a new selection: its own order stands, what is
\* new comes last, what is gone is taken out.
Reordered(ordered, items) ==
    Only(ordered, Selected(items)) \o Only(items, Pieces \ Selected(ordered))

\* (mutant of Toggled) what is selected comes first
ToggledFirst(items, p) ==
    IF p \in Selected(items) THEN Only(items, Pieces \ {p}) ELSE <<p>> \o items

\* toggleItemSelection
Toggled(items, p) ==
    IF p \in Selected(items) THEN Only(items, Pieces \ {p}) ELSE Append(items, p)

Toggle(p) ==
    /\ SelectorOpen
    /\ LET items == Toggled(draftForm.items, p)
       IN  OnForm([draftForm EXCEPT !.items = items, !.ordered = Reordered(@, items)])
    /\ UNCHANGED <<sent, departures>>

Swapped(seq, i, j) == [seq EXCEPT ![i] = seq[j], ![j] = seq[i]]

\* moveItemUp, moveItemDown: the order of the selector becomes the selection.
Move(i, j) ==
    /\ SelectorOpen /\ {i, j} \subseteq DOMAIN draftForm.ordered /\ j \in {i - 1, i + 1}
    /\ LET items == Swapped(draftForm.ordered, i, j)
       IN  OnForm([draftForm EXCEPT !.items = items, !.ordered = items])
    /\ UNCHANGED <<sent, departures>>

\* The button of the last step, disabled while a request is under way; or the Enter
\* key in the search field of the selector, the only text field of a step that has
\* no button to submit, which is not.
MaySubmit == IF draftForm.step = 1 THEN draftForm.loaded ELSE draftForm.step = 2 /\ ~draftForm.busy

\* (mutant of Submit) the form is sent unchecked
SubmitUnchecked ==
    /\ MaySubmit /\ Len(sent) < MaxSent
    /\ OnForm([draftForm EXCEPT !.busy = TRUE, !.failed = FALSE])
    /\ sent' = Append(sent, [items |-> draftForm.items, ordered |-> draftForm.ordered,
                             texts |-> draftForm.texts,
                             step |-> draftForm.step, from |-> mounts, open |-> TRUE])
    /\ UNCHANGED departures

\* handleSubmit
Submit ==
    /\ MaySubmit /\ Len(sent) < MaxSent
    /\ IF Faults(draftForm) # {}
       THEN /\ OnForm([draftForm EXCEPT !.errors = Faults(draftForm)])
            /\ UNCHANGED sent
       ELSE /\ OnForm([draftForm EXCEPT !.busy = TRUE, !.failed = FALSE, !.errors = {}])
            /\ sent' = Append(sent,
                 [items |-> draftForm.items, ordered |-> draftForm.ordered,
                  texts |-> draftForm.texts, step |-> draftForm.step, from |-> mounts, open |-> TRUE])
    /\ UNCHANGED departures

\* The answer reaches the form if that is still there; success is never taken back,
\* and the browser is to leave for the collection wherever it is by then.
Created(i, well) ==
    /\ i \in DOMAIN sent /\ sent[i].open
    /\ sent' = [sent EXCEPT ![i].open = FALSE]
    /\ departures' = IF well THEN departures \cup {i} ELSE departures
    /\ draftForm' = IF shownPage = "create" /\ sent[i].from = mounts
                    THEN [draftForm EXCEPT !.busy = FALSE, !.done = @ \/ well,
                                           !.failed = @ \/ ~well]
                    ELSE draftForm
    /\ UNCHANGED <<shownPage, mounts, listPage, gallery, verifyPage>>

\* The timer of a success.
Depart(i) ==
    /\ i \in departures /\ departures' = departures \ {i}
    /\ OpenPage("one")
    /\ UNCHANGED sent

-----------------------------------------------------------------------------
(* The list, continued. *)
OnList(next) ==
    /\ shownPage = "list"
    /\ listPage' = next
    /\ UNCHANGED <<shownPage, mounts, draftForm, sent, departures, gallery, verifyPage>>

\* Another category, from a select that is always there.
Recategorise ==
    /\ listPage.asks < MaxAsks
    /\ OnList(AskingList(listPage, 1))

TurnList(p) ==
    LET l == listPage IN
    /\ ~l.busy /\ ~l.failed /\ l.got.page \in 1..l.got.pages /\ l.got.pages > 1
    /\ l.asks < MaxAsks
    /\ \/ l.page # 1 /\ p = l.page - 1
       \/ l.page # l.got.pages /\ p = IF l.page < l.got.pages THEN l.page + 1 ELSE l.got.pages
    /\ OnList(AskingList(l, p))

\* The answer to any request is shown.
ListAnswered(a, pages) ==
    /\ a \in listPage.asked
    /\ OnList([listPage EXCEPT !.asked = @ \ {a}, !.busy = FALSE,
                               !.got = [page |-> a.page, pages |-> pages]])

ListFailed(a) ==
    /\ a \in listPage.asked
    /\ OnList([listPage EXCEPT !.asked = @ \ {a}, !.busy = FALSE, !.failed = TRUE])

-----------------------------------------------------------------------------
(* The gallery: one request when it is mounted, the rest is done here. *)
Matching(g) ==
    {c \in g.all : \/ g.filter = "all"
                   \/ g.filter = "inscribed" /\ c \in Inscribed
                   \/ g.filter = "not inscribed" /\ c \notin Inscribed}

Place(g, c) == Cardinality({d \in Matching(g) : Rank[g.order][d] <= Rank[g.order][c]})
GalleryPages(g) == (Cardinality(Matching(g)) + PerPage - 1) \div PerPage
Visible(g) == {c \in Matching(g) : Place(g, c) \in (g.page - 1) * PerPage + 1 .. g.page * PerPage}

\* What a card says of its collection.
ShownVerified(c) == c \in Inscribed \cup Credentialed

OnGallery(next) ==
    /\ shownPage = "gallery"
    /\ gallery' = next
    /\ UNCHANGED <<shownPage, mounts, draftForm, sent, departures, listPage, verifyPage>>

GalleryAnswered(cs) ==
    /\ gallery.busy
    /\ OnGallery([gallery EXCEPT !.busy = FALSE, !.all = cs, !.page = 1])

GalleryFailed ==
    /\ gallery.busy
    /\ OnGallery([gallery EXCEPT !.busy = FALSE, !.failed = TRUE])

\* (mutant of Refine) the page stays
RefineInPlace(f, o) ==
    /\ <<f, o>> # <<gallery.filter, gallery.order>>
    /\ OnGallery([gallery EXCEPT !.filter = f, !.order = o])

\* The effect on filters and order goes back to the first page.
Refine(f, o) ==
    /\ <<f, o>> # <<gallery.filter, gallery.order>>
    /\ OnGallery([gallery EXCEPT !.filter = f, !.order = o, !.page = 1])

\* nextPage, prevPage and goToPage
GoToPage(p) ==
    /\ p \in 1..GalleryPages(gallery) \ {gallery.page}
    /\ OnGallery([gallery EXCEPT !.page = p])

-----------------------------------------------------------------------------
(* The verification of a collection. *)
OnVerify(next) ==
    /\ shownPage = "verify"
    /\ verifyPage' = next
    /\ UNCHANGED <<shownPage, mounts, draftForm, sent, departures, listPage, gallery>>

EnterIds(ids) ==
    /\ ids # verifyPage.entered
    /\ OnVerify([verifyPage EXCEPT !.entered = ids])

\* Without both ids there is an error and no request; the button is disabled
\* while one is under way.
Verify ==
    /\ verifyPage.asked = NoSubject
    /\ OnVerify(IF verifyPage.entered = NoSubject
                THEN [verifyPage EXCEPT !.failed = TRUE]
                ELSE [verifyPage EXCEPT !.asked = verifyPage.entered, !.failed = FALSE])

VerifyAnswered(valid) ==
    /\ verifyPage.asked # NoSubject
    /\ OnVerify([verifyPage EXCEPT !.asked = NoSubject, !.result = verifyPage.asked,
                                   !.valid = valid])

\* The result there was stays.
VerifyFailed ==
    /\ verifyPage.asked # NoSubject
    /\ OnVerify([verifyPage EXCEPT !.asked = NoSubject, !.failed = TRUE])

\* viewCollection, or a collection of the list or the gallery.
ViewCollection ==
    /\ \/ shownPage = "verify" /\ verifyPage.result # NoSubject
       \/ shownPage = "list" /\ ~listPage.busy /\ ~listPage.failed /\ listPage.got.page \in 1..listPage.got.pages
       \/ shownPage = "gallery" /\ ~gallery.busy /\ Visible(gallery) # {}
    /\ OpenPage("one")
    /\ UNCHANGED <<sent, departures>>

PagesNext ==
    \/ \E p \in {"create", "list", "gallery", "verify"} : VisitPage(p)
    \/ \E field \in Fields, text \in Texts : Enter(field, text)
    \/ StepOn \/ StepBack \/ PiecesLoaded \/ Submit
    \/ \E p \in Pieces : Toggle(p)
    \/ \E i, j \in 1..Cardinality(Pieces) : Move(i, j)
    \/ \E i \in 1..MaxSent : Depart(i) \/ \E well \in BOOLEAN : Created(i, well)
    \/ Recategorise
    \/ \E p \in 1..MaxPages : TurnList(p)
    \/ \E a \in listPage.asked : ListFailed(a) \/ \E pages \in 0..MaxPages : ListAnswered(a, pages)
    \/ GalleryFailed \/ \E cs \in SUBSET Listable : GalleryAnswered(cs)
    \/ \E f \in Filters, o \in DOMAIN Rank : Refine(f, o)
    \/ \E p \in 1..Cardinality(Listable) : GoToPage(p)
    \/ \E ids \in Subjects \cup {NoSubject} : EnterIds(ids)
    \/ Verify \/ VerifyFailed \/ \E valid \in BOOLEAN : VerifyAnswered(valid)
    \/ ViewCollection

PagesSpec == PagesInit /\ [][PagesNext]_pagesVars

-----------------------------------------------------------------------------
PagesTypeOK ==
    /\ shownPage \in {"create", "list", "gallery", "verify", "one"}
    /\ mounts \in 0..(MaxMounts + MaxSent + 1)
    /\ draftForm.step \in 0..2 /\ draftForm.texts \in [Fields -> Texts]
    /\ {draftForm.items, draftForm.ordered} \subseteq Seq(Pieces)
    /\ draftForm.errors \subseteq Fields \cup {"items"}
    /\ Len(sent) <= MaxSent /\ departures \subseteq DOMAIN sent
    /\ listPage.page \in 1..MaxPages /\ listPage.asks \in 0..MaxAsks
    /\ gallery.all \subseteq Listable /\ gallery.filter \in Filters /\ gallery.page \in Nat
    /\ {verifyPage.entered, verifyPage.asked, verifyPage.result} \subseteq Subjects \cup {NoSubject}

\* What was picked is what is sent, and what matches is what can be seen: every
\* collection is sent with the pieces in the order the selector showed last, none
\* of them twice, and with texts that pass the form's checks, in whatever order
\* they were selected, moved and deselected before; and the gallery is not empty
\* while something matches (CollectionCreationForm.tsx:90-104,
\* InscriptionSelector.tsx:55-92, CollectionGalleryGrid.tsx:39-96).
PickedIsKept ==
    /\ \A i \in DOMAIN sent :
          /\ sent[i].items = sent[i].ordered /\ sent[i].items # <<>>
          /\ \A j, k \in DOMAIN sent[i].items : sent[i].items[j] = sent[i].items[k] => j = k
          /\ \A field \in Fields : sent[i].texts[field] = "fits"
    /\ Matching(gallery) # {} => Visible(gallery) # {}

\* Expected to fail: a collection is reviewed before it is created (the third step,
\* 'Review & Create').  The Enter key in the search field of the second step sends it.
ReviewedBeforeSent == \A i \in DOMAIN sent : sent[i].step = 2

\* Expected to fail: a form creates one collection.  After a success it can be sent
\* again for two seconds, and by the Enter key while a request is under way.
CreatedOnce == \A i, j \in departures : sent[i].from = sent[j].from => i = j

\* Expected to fail: a refusal is seen.  A name that is too long passes the first
\* step, and its error is shown in that step only.
RefusalSeen ==
    draftForm.step = 2 => draftForm.errors \cap Fields = {}

\* Expected to fail: the browser leaves only from the form that was sent.
LeavesFromItsForm ==
    [][\A i \in departures \ departures' : shownPage = "create" /\ sent[i].from = mounts]_pagesVars

\* Expected to fail: with no request under way the list shows the page it names.
ListShowsItsPage ==
    listPage.asked = {} /\ ~listPage.failed /\ listPage.got # NoPage => listPage.got.page = listPage.page

\* Expected to fail: the filter for those not verified shows no card that says
\* verified.
FilterAgreesWithCards ==
    gallery.filter = "not inscribed" => \A c \in Visible(gallery) : ~ShownVerified(c)

\* Expected to fail: a verdict is about the ids above it.
VerdictIsOfEntered ==
    verifyPage.result \in {NoSubject, verifyPage.entered}
=============================================================================
