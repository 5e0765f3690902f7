------------------------ MODULE InscriptionContents ------------------------
(***************************************************************************)
(* What an inscription holds: the page of the wizard where its content is  *)
(* chosen (packages/ordinals-plus-explorer/src/components/inscription/     *)
(* ContentSelectionStep.tsx), the click that inscribes it                  *)
(* (TransactionStep.tsx, ordinalsplus/src/transactions), and the functions *)
(* of the library that make the script (ordinalsplus/src/inscription),     *)
(* which applications call as well.                                        *)
(*                                                                         *)
(* A content is an item in a form: its text as it is spelled, its bytes,   *)
(* the text of its data URL, or the spelling that JSON.stringify gives to  *)
(* what its text parses to.  Each form has a size of its own.  Fees,       *)
(* funding and the other pages are those of InscriptionWizard.             *)
(***************************************************************************)
EXTENDS Naturals

CONSTANTS
    Typable, Files,     \* what the user may type, and the files there are
    JsonItems,          \* those of both that are JSON
    JsonObjects,        \* those of them that are objects
    Blank,              \* the files with nothing in them
    Oversize,           \* the contents that exceed MAX_INSCRIPTION_SIZE (350 KB)
    FileType,           \* the type a browser gives a file, "" when it knows none
    Signature,          \* the type that the first bytes of a file tell
    Offerable,          \* supportedContentTypes of the page
    Metas,              \* what the metadata says of its type
    Orders,             \* clicks on "Create Inscription"
    MaxReads            \* bound: files read at once

Items == Typable \cup Files
Contained == [as : {"text", "bytes", "data URL", "compact"}, of : Items]
Json == "application/json"
JsonUtf8 == "application/json;charset=utf-8"
TextTypes == {"text/plain", Json}
ImageTypes == {"image/png", "image/jpeg"}
Binary == "application/octet-stream"

ASSUME ContentsAssumption ==
    /\ JsonObjects \subseteq JsonItems /\ JsonItems \subseteq Items
    /\ Blank \subseteq Files \ JsonItems /\ Oversize \subseteq Contained
    /\ DOMAIN FileType = Files /\ DOMAIN Signature = Files
    /\ \A f \in Files : Signature[f] \in ImageTypes \cup {Binary}
    /\ "text/plain" \in Offerable /\ Offerable \subseteq TextTypes \cup ImageTypes
    /\ Metas \subseteq {"untyped", "credential", "context", "other"}
    /\ MaxReads \in Nat

VARIABLES
    contentPage,    \* ContentSelectionStep is mounted
    chosen,         \* its contentType
    draft,          \* its content
    contentData,    \* contentData of the reducer: type and content
    fileReads,      \* file readers: the file, and whether their page is still mounted
    orders,         \* [Orders -> how far the call of inscribeWithSatpoint is]
    published,      \* inscriptions the node accepted
    applied         \* what an application had prepared

contentVars == <<contentPage, chosen, draft, contentData, fileReads, orders, published, applied>>

NoContent == [as |-> "text", of |-> "nothing"]
AsText(i) == [as |-> "text", of |-> i]
AsBytes(i) == [as |-> "bytes", of |-> i]
AsDataUrl(i) == [as |-> "data URL", of |-> i]
AsCompact(i) == [as |-> "compact", of |-> i]
NoOrder == [at |-> "not made"]
NotApplied == [at |-> "not applied"]

IsJsonText(c) == c.as = "text" /\ c.of \in JsonItems

(***************************************************************************)
(* Preparing a content (content/mime-handling.ts).                         *)
(***************************************************************************)

\* detectContentType: only by the extension, if there is a name; JSON that is not
\* an object is text to it.
Detected(extension, c) ==
    CASE extension # "" -> IF extension \in Offerable THEN extension ELSE Binary
      [] c.as = "bytes"  -> Binary
      [] OTHER           -> IF c.of \in JsonObjects THEN Json ELSE "text/plain"

\* guessMimeType: by the content if the extension is none that it knows.
Guessed(extension, c) ==
    CASE extension \in Offerable -> extension
      [] c.as = "bytes"          -> Signature[c.of]
      [] OTHER                   -> IF IsJsonText(c) THEN Json ELSE "text/plain"

Fits(c) == c \notin Oversize

\* (mutant of Accepts) what is to be JSON is not parsed
AcceptsAny(c, type) == c # NoContent /\ Fits(c)

\* validateContent, and the parsing of prepareContent.
Accepts(c, type) ==
    /\ c # NoContent /\ Fits(c)
    /\ type = Json /\ c.as # "bytes" => IsJsonText(c)

\* prepareContent: what is JSON is spelled anew, and not measured again.
PreparedBody(c, type) == IF type = Json /\ c.as # "bytes" THEN AsCompact(c.of) ELSE c

\* createOrdinalInscription, of what prepareContent returns.
Inscription(c, type, meta) == [type |-> type, body |-> PreparedBody(c, type), meta |-> meta]

(***************************************************************************)
(* Keys of the commit address (scripts/ordinal-reveal.ts).  "zero" is a    *)
(* key of zeros; of "generated" the caller is given the private key.       *)
(***************************************************************************)
RevealKeys == {"none", "given", "zero"}
RecoveryKeys == {"none", "recovery", "zero"}
ScriptKey(revealKey) == IF revealKey = "none" THEN "generated" ELSE revealKey
InternalKey(revealKey, recovery) ==
    IF recovery \notin {"none", "zero"} THEN recovery ELSE ScriptKey(revealKey)

\* prepareInscription; the private key of the emergency key is dropped.
SingleAddress(revealKey, recovery) ==
    [script |-> ScriptKey(revealKey),
     internal |-> IF InternalKey(revealKey, recovery) = "zero" THEN "emergency"
                  ELSE InternalKey(revealKey, recovery)]

\* prepareBatchInscription, where btc.p2tr takes no internal key of zeros.
BatchAddress(revealKey, recovery) ==
    [script |-> ScriptKey(revealKey), internal |-> InternalKey(revealKey, recovery)]

Held == {"given", "generated", "recovery"}

(***************************************************************************)
(* ContentSelectionStep.                                                   *)
(***************************************************************************)
ContentsInit ==
    /\ contentPage = TRUE /\ chosen = "text/plain" /\ draft = NoContent
    /\ contentData = [type |-> "text/plain", content |-> NoContent]
    /\ fileReads = {}
    /\ orders = [k \in Orders |-> NoOrder]
    /\ published = {}
    /\ applied = NotApplied

ChooseType(t) ==
    /\ contentPage
    /\ chosen' = t
    /\ draft' = IF (t \in TextTypes) = (chosen \in TextTypes) THEN draft ELSE NoContent
    /\ contentData' = [type |-> t, content |-> draft']
    /\ UNCHANGED <<contentPage, fileReads, orders, published, applied>>

TypeText(i) ==
    /\ contentPage /\ chosen \in TextTypes
    /\ draft' = AsText(i)
    /\ contentData' = [type |-> chosen, content |-> draft']
    /\ UNCHANGED <<contentPage, chosen, fileReads, orders, published, applied>>

\* processFile, of the file dialogue or of a file that is dropped, whatever
\* its type.
DropFile(f) ==
    /\ contentPage /\ chosen \notin TextTypes
    /\ \E n \in 1..MaxReads :
         /\ \A r \in fileReads : r.n # n
         /\ fileReads' = fileReads \cup {[n |-> n, file |-> f, here |-> TRUE]}
    /\ UNCHANGED <<contentPage, chosen, draft, contentData, orders, published, applied>>

Loaded(f) == IF FileType[f] \in TextTypes THEN AsText(f) ELSE AsDataUrl(f)

\* onload: the type of the file goes to the reducer and not to the page.  An empty
\* text is an error.
FileIsRead(r) ==
    /\ r \in fileReads
    /\ ~(r.file \in Blank /\ FileType[r.file] \in TextTypes)
    /\ fileReads' = fileReads \ {r}
    /\ contentData' = [type |-> FileType[r.file], content |-> Loaded(r.file)]
    /\ draft' = IF r.here THEN Loaded(r.file) ELSE draft
    /\ UNCHANGED <<contentPage, chosen, orders, published, applied>>

FileIsNotRead(r) ==
    /\ r \in fileReads
    /\ fileReads' = fileReads \ {r}
    /\ UNCHANGED <<contentPage, chosen, draft, contentData, orders, published, applied>>

\* validateField and validateStep of the form that was rendered.
FormIsValid(content) ==
    /\ content # NoContent /\ contentData.content # NoContent
    /\ contentData.type # ""
    /\ contentData.type = Json => IsJsonText(content) /\ IsJsonText(contentData.content)

\* handleContinue: the type of the page goes to the reducer; what is validated
\* is the form as it was before.  That the button is disabled while an error is
\* shown is left out: choosing the type again removes the error.
ContinueContent ==
    /\ contentPage
    /\ contentData' = [type |-> chosen, content |-> draft]
    /\ contentPage' = ~FormIsValid(draft)
    /\ fileReads' = {[r EXCEPT !.here = r.here /\ contentPage'] : r \in fileReads}
    /\ UNCHANGED <<chosen, draft, orders, published, applied>>

ReturnToContent ==
    /\ ~contentPage
    /\ contentPage' = TRUE
    /\ chosen' = IF contentData.type = "" THEN "text/plain" ELSE contentData.type
    /\ draft' = contentData.content
    /\ contentData' = [contentData EXCEPT !.type = chosen']
    /\ UNCHANGED <<fileReads, orders, published, applied>>

(***************************************************************************)
(* handleInscribeWithSatpoint and inscribeWithSatpoint.                    *)
(***************************************************************************)

\* A data URL becomes its bytes if the type is an image's.  That of an empty file has
\* nothing behind the comma, is not matched, and stays the text it is.
Processed(c, type) ==
    IF c.as = "data URL" /\ type \in ImageTypes /\ c.of \notin Blank THEN AsBytes(c.of) ELSE c

\* prepareResourceInscription: `type` of the metadata, which said nothing of it, was
\* a credential by its type, or by its context only, or had another type.
Typed(meta) == IF meta = "credential" THEN "credential" ELSE "resource"

\* The click reads the form; everything up to the reveal is made of that.
MakeOrder(k, meta) ==
    /\ ~contentPage /\ orders[k] = NoOrder
    /\ LET type == IF contentData.type = "" THEN "text/plain" ELSE contentData.type
           c == Processed(contentData.content, type)
       IN  orders' = [orders EXCEPT ![k] =
              IF Accepts(c, type)
              THEN [at |-> "commit", form |-> contentData, meta |-> meta,
                    made |-> Inscription(c, type, Typed(meta))]
              ELSE [at |-> "failed"]]
    /\ UNCHANGED <<contentPage, chosen, draft, contentData, fileReads, published, applied>>

OrderFails(k) ==
    /\ orders[k].at \in {"commit", "reveal"}
    /\ orders' = [orders EXCEPT ![k] = [at |-> "failed"]]
    /\ UNCHANGED <<contentPage, chosen, draft, contentData, fileReads, published, applied>>

OrderCommits(k) ==
    /\ orders[k].at = "commit"
    /\ orders' = [orders EXCEPT ![k].at = "reveal"]
    /\ UNCHANGED <<contentPage, chosen, draft, contentData, fileReads, published, applied>>

\* The reveal shows the script that the commit was made for.
OrderReveals(k) ==
    /\ orders[k].at = "reveal"
    /\ published' = published \cup {[order |-> k, shows |-> orders[k].made]}
    /\ orders' = [orders EXCEPT ![k].at = "done"]
    /\ UNCHANGED <<contentPage, chosen, draft, contentData, fileReads, applied>>

WizardAtRest ==
    /\ contentPage /\ contentData = [type |-> "text/plain", content |-> NoContent]
    /\ fileReads = {} /\ \A k \in Orders : orders[k] = NoOrder

(***************************************************************************)
(* createInscription, called by an application with a type or the name of  *)
(* a file, or with a type it had detected; and prepareBatchInscription.    *)
(***************************************************************************)
Givable == {AsText(i) : i \in Items} \cup {AsBytes(f) : f \in Files}
Extensions == Offerable \cup {"", "other"}

TypesFor(c) ==
    Offerable \cup {JsonUtf8, Binary}
      \cup {Detected(x, c) : x \in Extensions} \cup {Guessed(x, c) : x \in Extensions}

CreateInscription(c, type, revealKey, recovery) ==
    /\ Accepts(c, type)
    /\ applied' = [at |-> "single", address |-> SingleAddress(revealKey, recovery),
                   shows |-> {Inscription(c, type, "other")}]
    /\ UNCHANGED <<contentPage, chosen, draft, contentData, fileReads, orders, published>>

PrepareBatchInscription(cs, type, revealKey, recovery) ==
    /\ \A c \in cs : Accepts(c, type)
    /\ BatchAddress(revealKey, recovery).internal # "zero"
    /\ applied' = [at |-> "batch", address |-> BatchAddress(revealKey, recovery),
                   shows |-> {Inscription(c, type, "other") : c \in cs}]
    /\ UNCHANGED <<contentPage, chosen, draft, contentData, fileReads, orders, published>>

ContentsNext ==
    \/ /\ applied = NotApplied
       /\ \/ \E t \in Offerable : ChooseType(t)
          \/ \E i \in Typable : TypeText(i)
          \/ \E f \in Files : DropFile(f)
          \/ \E r \in fileReads : FileIsRead(r) \/ FileIsNotRead(r)
          \/ ContinueContent \/ ReturnToContent
          \/ \E k \in Orders :
               \/ \E meta \in Metas : MakeOrder(k, meta)
               \/ OrderFails(k) \/ OrderCommits(k) \/ OrderReveals(k)
    \/ /\ applied = NotApplied /\ WizardAtRest
       /\ \E revealKey \in RevealKeys, recovery \in RecoveryKeys :
            \/ \E c \in Givable : \E type \in TypesFor(c) :
                 CreateInscription(c, type, revealKey, recovery)
            \/ \E c, d \in Givable, type \in Offerable :
                 PrepareBatchInscription({c, d}, type, revealKey, recovery)

ContentsSpec == ContentsInit /\ [][ContentsNext]_contentVars

-----------------------------------------------------------------------------
ContentsTypeOK ==
    /\ contentPage \in BOOLEAN
    /\ chosen \in Offerable \cup {FileType[f] : f \in Files}
    /\ contentData.content = NoContent \/ contentData.content.of \in Items
    /\ fileReads \subseteq [n : 1..MaxReads, file : Files, here : BOOLEAN]
    /\ \A k \in Orders : orders[k].at \in {"not made", "commit", "reveal", "done", "failed"}
    /\ \A p \in published : p.order \in Orders

Made == {p.shows : p \in published} \cup IF applied = NotApplied THEN {} ELSE applied.shows

\* Whatever is typed, dropped or read late before and after the click, and although
\* the page validates the form of the render before: a published inscription is the
\* one its order was placed for, an image's data URL inscribed as bytes unless the file
\* is empty; and nothing is made as JSON of a text that is not, nor of what exceeds
\* MAX_INSCRIPTION_SIZE in the form it was measured in, JSON in the spelling that was
\* given (TransactionStep.handleInscribeWithSatpoint, mime-handling.prepareContent).
InscribedAsPrepared ==
    /\ \A p \in published :
         LET form == orders[p.order].form
             body == p.shows.body
         IN  /\ form.type \in {p.shows.type, ""} /\ body.of = form.content.of
             /\ body.as = "data URL" => p.shows.type \notin ImageTypes \/ body.of \in Blank
    /\ \A i \in Made :
         /\ i.body.as # "compact" => Fits(i.body)
         /\ i.body.as = "compact" => Fits(AsText(i.body.of)) /\ i.body.of \in JsonItems
         /\ i.type = Json => i.body.as \in {"compact", "bytes"}

(***************************************************************************)
(* Expected of this code, and not so.                                      *)
(***************************************************************************)

\* "Content size exceeds maximum allowed size" (mime-handling.ts:292): what is
\* inscribed of JSON is spelled anew after it was measured, and may be longer.
NothingOversizeMade == \A i \in Made : Fits(i.body)

\* What is published of a file has the type of that file: Continue replaces the
\* type that processFile stored by the one of the selector.
TypeIsOfFile ==
    \A p \in published :
        p.shows.body.of \in Files => p.shows.type = FileType[p.shows.body.of]

\* What is published as an image is bytes: a text file that is dropped while an
\* image type is selected is inscribed as the image, as its text, and an empty image
\* as the text of its data URL.
ImagesAreBytes ==
    \A p \in published : p.shows.type \in ImageTypes => p.shows.body.as = "bytes"

\* "If caller provided a Verifiable Credential or any explicit type, do not
\* override it" (resource-creation.ts:52): another type becomes "resource".
ExplicitTypeKept ==
    \A p \in published : orders[p.order].meta = "other" => p.shows.meta # "resource"

\* Somebody holds a key that opens the commit address: the private key of the
\* emergency key is dropped, and a script with a key of zeros opens for nobody.
AddressesOpen ==
    applied # NotApplied => applied.address.script \in Held \/ applied.address.internal \in Held

\* What an application inscribes as JSON is JSON: with a charset, or as bytes,
\* it is not parsed.
JsonIsJson ==
    applied # NotApplied =>
        \A i \in applied.shows : i.type \in {Json, JsonUtf8} => i.body.of \in JsonItems

\* A file that the page accepts (up to 10 MB) can be inscribed: the library
\* refuses what exceeds 350 KB, at the click.
AcceptedIsInscribable ==
    ~contentPage => Accepts(Processed(contentData.content, contentData.type), contentData.type)
=============================================================================
