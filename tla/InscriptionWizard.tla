-------------------------- MODULE InscriptionWizard --------------------------
(***************************************************************************)
(* The explorer's resource inscription wizard                              *)
(* (packages/ordinals-plus-explorer/src/components/inscription) with the   *)
(* library call behind its button (ordinalsplus/src/transactions/          *)
(* inscribe-with-satpoint.ts) and the API routes that relay a transaction  *)
(* and its status (ordinals-plus-api/src/routers/transactionRouter.ts).    *)
(*                                                                         *)
(* The five pages share one reducer.  Every await of a page - a list of    *)
(* UTXOs, a sat number, a file, a credential exchange, the wallet, the     *)
(* broadcasts, a status check - goes on when its page is left and acts on  *)
(* the reducer when it is answered, whatever page is shown by then.  What  *)
(* awaits is a set or a phase here, and its answer an action.              *)
(*                                                                         *)
(* An attempt is one click on "Create Inscription"; its number stands for  *)
(* its key, its two transactions and their txids.  Amounts are small       *)
(* numbers, contents model values.                                         *)
(***************************************************************************)
EXTENDS Integers, FiniteSets, FiniteSetsExt

CONSTANTS
    Utxos, Value,           \* the wallet's UTXOs and their values
    Contents, Malformed,    \* contents to inscribe; those with a broken data URL
    Rates, DefaultRate,     \* fee rates offered, and the one a new page starts with
    Required(_, _),         \* the amount needed for a content at a rate
    MaxAttempts,            \* bound: clicks on "Create Inscription"
    MaxAwaits,              \* bound: awaits of the pages under way together
    MaxMined,               \* bound: transactions that are mined
    None

ASSUME WizardAssumption ==
    /\ Value \in [Utxos -> Nat] /\ None \notin Utxos \cup Contents \cup (1..MaxAttempts)
    /\ Malformed \subseteq Contents /\ DefaultRate \in Rates
    /\ MaxAttempts \in Nat \ {0} /\ MaxAwaits \in Nat /\ MaxMined \in Nat

VARIABLES
    \* the reducer
    step,       \* currentStep
    utxo,       \* inscriptionUtxo
    content,    \* contentData.content, once it passes validateContent
    funding,    \* fundingUtxos
    status,     \* transactionInfo.status
    shown,      \* transactionInfo.commitTx and revealTx: an attempt
    \* the TransactionStep that is mounted
    rate,       \* selectedFeeRate
    polled,     \* commitTxid and revealTxid
    timer,      \* the commitTxid that the 30 s interval asks about
    loading,    \* isLoading
    own,        \* the attempts it started
    \* what awaits an answer
    looking,    \* getSatNumber calls, by UTXO
    reading,    \* file readers, by content
    exchanging, \* credential exchanges: "none", "here" (the page is mounted), "left"
    checks,     \* getTransactionStatus calls, numbered, each with its attempt
    phase,      \* [attempts -> where the await stands]
    sat,        \* [attempts -> the UTXO it inscribes]
    tries,      \* [attempts -> reveals refused for their fee so far]
    \* the network
    chain,      \* transactions the node has accepted
    mined

reducer == <<step, utxo, content, funding, status, shown>>
page == <<rate, polled, timer, loading, own>>
attempts == <<phase, sat, tries>>
network == <<chain, mined>>
pending == <<looking, reading, exchanging, checks>>
wizardVars == <<reducer, page, pending, attempts, network>>

Attempts == 1..MaxAttempts
Statuses == {"not_started", "broadcasting", "confirming", "completed", "failed"}
Pages == 0..4                      \* WIZARD_STEPS
TransactionPage == 3

\* What renderTransactionStatus offers to click.
Offers == {<<"not_started", "create">>, <<"not_started", "rate">>, <<"not_started", "fund">>,
           <<"confirming", "check">>, <<"failed", "again">>}
Offered(button) == step = TransactionPage /\ <<status, button>> \in Offers

Awaits ==
    Cardinality(looking) + Cardinality(reading) + Cardinality(checks) + IF exchanging = "none" THEN 0 ELSE 1
MayAwait == Awaits < MaxAwaits
Running(a) == phase[a] \notin {"unused", "ended"}
Total(S) == MapThenSumSet(LAMBDA u : Value[u], S)
Suffices(u, amount) == u # None /\ Value[u] >= amount

\* The funding that the page leaves selected when it computes what is required.
Refunded(c, r) ==
    IF Suffices(utxo, Required(c, r)) \/ Total(funding) < Required(c, r) THEN {} ELSE funding

\* createResourceInscription, for a page that shows status s.
Prepared(s) == IF utxo # None /\ content \in Malformed THEN "failed" ELSE s

WizardInit ==
    /\ step = 0 /\ utxo = None /\ content = None
    /\ funding = {} /\ status = "not_started" /\ shown = None
    /\ rate = DefaultRate /\ polled = None /\ timer = None /\ loading = FALSE /\ own = {}
    /\ looking = {} /\ reading = {} /\ exchanging = "none" /\ checks = {}
    /\ phase = [a \in Attempts |-> "unused"]
    /\ sat = [a \in Attempts |-> None]
    /\ tries = [a \in Attempts |-> 0]
    /\ chain = {} /\ mined = {}

(***************************************************************************)
(* Pages.  A page that is left unmounts; a TransactionStep that is mounted *)
(* starts from the reducer (useState, the mount effect, the interval).     *)
(***************************************************************************)
Mounted(k, s) ==
    LET here == k = TransactionPage IN
    /\ rate' = DefaultRate /\ polled' = shown
    /\ own' = {} /\ loading' = FALSE
    /\ status' = IF here /\ s = "not_started" THEN Prepared(s) ELSE s
    /\ timer' = IF here /\ s = "confirming" THEN shown ELSE None
    /\ funding' = IF here THEN Refunded(content, DefaultRate) ELSE funding

Show(k, s) ==
    /\ step' = k
    /\ IF k = step THEN status' = s /\ UNCHANGED <<page, funding>> ELSE Mounted(k, s)

Left == IF exchanging = "here" THEN "left" ELSE exchanging

\* goToStep from the indicator, which is open to earlier steps at any time;
\* previousStep, which TransactionStep disables while it is loading, is one.
GoBack(k) ==
    /\ k < step
    /\ Show(k, status)
    /\ exchanging' = Left
    /\ UNCHANGED <<utxo, content, shown, looking, reading, checks, attempts, network>>

\* handleContinue of the first three pages, behind validateStep.
Continue ==
    /\ \/ step = 0 /\ utxo # None
       \/ step = 1 /\ content # None
       \/ step = 2 /\ exchanging # "here"
    /\ Show(step + 1, status)
    /\ UNCHANGED <<utxo, content, shown, pending, attempts, network>>

Fresh ==
    /\ step' = 0 /\ utxo' = None /\ content' = None
    /\ funding' = {} /\ status' = "not_started" /\ shown' = None

\* handleStartNew of the completion page.
StartNew ==
    /\ step = 4
    /\ Fresh
    /\ UNCHANGED <<page, pending, attempts, network>>

\* The tab is closed or reloaded: every await is gone, the transactions stay.
Reload ==
    /\ \E a \in Attempts : Running(a)
    /\ Fresh
    /\ rate' = DefaultRate /\ polled' = None /\ timer' = None /\ loading' = FALSE /\ own' = {}
    /\ looking' = {} /\ reading' = {} /\ exchanging' = "none" /\ checks' = {}
    /\ phase' = [a \in Attempts |-> IF Running(a) THEN "ended" ELSE phase[a]]
    /\ tries' = [a \in Attempts |-> 0]
    /\ UNCHANGED <<sat, network>>

(***************************************************************************)
(* UTXOSelectionStep and ContentSelectionStep.  A selected UTXO counts     *)
(* when its sat number is known; the one that is selected automatically    *)
(* counts at once, and again when its number is known.                     *)
(***************************************************************************)
SelectUtxo(u) ==
    /\ step = 0 /\ MayAwait
    /\ looking' = looking \cup {u}
    /\ UNCHANGED <<reducer, page, reading, exchanging, checks, attempts, network>>

SelectLargest(u) ==
    /\ step = 0 /\ MayAwait
    /\ \A v \in Utxos : Value[v] <= Value[u]
    /\ utxo' = u
    /\ looking' = looking \cup {u}
    /\ UNCHANGED <<step, content, funding, status, shown, page, reading, exchanging, checks,
                   attempts, network>>

Deselect ==
    /\ step = 0 /\ utxo # None
    /\ utxo' = None
    /\ UNCHANGED <<step, content, funding, status, shown, page, pending, attempts, network>>

SatNumberAnswered(u) ==
    /\ u \in looking /\ looking' = looking \ {u}
    /\ \/ utxo' = u
       \/ UNCHANGED utxo
    /\ UNCHANGED <<step, content, funding, status, shown, page, reading, exchanging, checks,
                   attempts, network>>

\* None stands for what validateContent refuses.
EnterText(c) ==
    /\ step = 1
    /\ content' = c
    /\ UNCHANGED <<step, utxo, funding, status, shown, page, pending, attempts, network>>

ReadFile(c) ==
    /\ step = 1 /\ MayAwait
    /\ reading' = reading \cup {c}
    /\ UNCHANGED <<reducer, page, looking, exchanging, checks, attempts, network>>

FileLoaded(c) ==
    /\ c \in reading /\ reading' = reading \ {c}
    /\ content' = c
    /\ funding' = IF step = TransactionPage THEN Refunded(c, rate) ELSE funding
    /\ UNCHANGED <<step, utxo, status, shown, page, looking, exchanging, checks, attempts, network>>

(***************************************************************************)
(* MetadataStep: a credential exchange continues to the next page when it  *)
(* is answered, wherever the user is.                                      *)
(***************************************************************************)
StartExchange ==
    /\ step = 2 /\ exchanging = "none" /\ MayAwait
    /\ exchanging' = "here"
    /\ UNCHANGED <<reducer, page, looking, reading, checks, attempts, network>>

ExchangeAnswered ==
    /\ exchanging # "none" /\ exchanging' = "none"
    /\ Show(IF step = 4 THEN 4 ELSE step + 1, status)
    /\ UNCHANGED <<utxo, content, shown, looking, reading, checks, attempts, network>>

ExchangeFails ==
    /\ exchanging # "none" /\ exchanging' = "none"
    /\ UNCHANGED <<reducer, page, looking, reading, checks, attempts, network>>

(***************************************************************************)
(* TransactionStep: fee rate and funding.                                  *)
(***************************************************************************)
SelectRate(r) ==
    /\ Offered("rate")
    /\ rate' = r
    /\ funding' = Refunded(content, r)
    /\ UNCHANGED <<step, utxo, content, status, shown, polled, timer, loading, own, pending,
                   attempts, network>>

SelectFunding(S) ==
    /\ Offered("fund") /\ ~Suffices(utxo, Required(content, rate))
    /\ funding' = S
    /\ UNCHANGED <<step, utxo, content, status, shown, page, pending, attempts, network>>

(***************************************************************************)
(* handleInscribeWithSatpoint.  The button is not disabled while an        *)
(* attempt waits for the wallet's UTXOs, so a second click is a second     *)
(* attempt.                                                                *)
(***************************************************************************)
Create(a) ==
    /\ Offered("create") /\ utxo # None
    /\ Suffices(utxo, Required(content, rate)) \/ Total(funding) >= Required(content, rate)
    /\ phase[a] = "unused" /\ \A b \in Attempts : b < a => phase[b] # "unused"
    /\ phase' = [phase EXCEPT ![a] = "list"]
    /\ sat' = [sat EXCEPT ![a] = utxo]
    /\ loading' = TRUE /\ own' = own \cup {a}
    /\ UNCHANGED <<reducer, rate, polled, timer, pending, tries, network>>

\* setTransactionInfo({status}), with the effects that depend on the status.
SetStatus(s) ==
    /\ status' = s
    /\ funding' = IF step = TransactionPage THEN Refunded(content, rate) ELSE funding
    /\ timer' = IF s # "confirming" \/ step # TransactionPage THEN None
                ELSE IF status = "confirming" THEN timer ELSE polled'

Answered(a) ==
    /\ loading' = (loading /\ a \notin own)
    /\ phase' = [phase EXCEPT ![a] = "ended"]

\* The catch of the handler, which every error of the call reaches.
Fail(a) ==
    /\ Answered(a)
    /\ polled' = polled
    /\ SetStatus("failed")
    /\ UNCHANGED shown

Succeed(a) ==
    /\ Answered(a)
    /\ polled' = IF a \in own THEN a ELSE polled
    /\ SetStatus("confirming")
    /\ shown' = a

\* getUtxos of the wallet, and the call of the library.
Listed(a) ==
    /\ phase[a] = "list"
    /\ \/ /\ phase' = [phase EXCEPT ![a] = "sign"]
          /\ polled' = polled
          /\ SetStatus("broadcasting")
          /\ UNCHANGED <<shown, loading>>
       \/ Fail(a)
    /\ UNCHANGED <<step, utxo, content, rate, own, pending, sat, tries, network>>

\* The inscription and its commit are prepared, and the wallet signs, unless
\* the list has no such UTXO, the amounts do not add up or the user rejects.
Signed(a) ==
    /\ phase[a] = "sign"
    /\ \/ phase' = [phase EXCEPT ![a] = "commit"] /\ UNCHANGED <<page, funding, status, shown>>
       \/ Fail(a) /\ UNCHANGED <<rate, own>>
    /\ UNCHANGED <<step, utxo, content, pending, sat, tries, network>>

Spent(u) == \E b \in Attempts : <<"commit", b>> \in chain /\ sat[b] = u

\* POST /transactions/broadcast: accepted or not, and answered or not.
CommitSent(a) ==
    /\ phase[a] = "commit"
    /\ \/ /\ ~Spent(sat[a])
          /\ chain' = chain \cup {<<"commit", a>>}
          /\ \/ phase' = [phase EXCEPT ![a] = "reveal"] /\ UNCHANGED <<page, funding, status, shown>>
             \/ Fail(a) /\ UNCHANGED <<rate, own>>
       \/ Fail(a) /\ UNCHANGED <<rate, own, chain>>
    /\ UNCHANGED <<step, utxo, content, pending, sat, tries, mined>>

RevealTries == 3    \* the first one and two at a higher fee

\* The call is over, and its count with it.
Over(a) == tries' = [tries EXCEPT ![a] = 0] /\ UNCHANGED <<rate, own>>

\* (mutant of RevealRefused) the last refusal is not thrown again
LastRefusalSwallowed(a) ==
    IF tries[a] + 1 = RevealTries
    THEN Succeed(a) /\ Over(a)
    ELSE tries' = [tries EXCEPT ![a] = @ + 1] /\ UNCHANGED <<page, funding, status, shown, phase>>

\* "min relay fee not met": another attempt at a higher fee, twice.
RevealRefused(a) ==
    IF tries[a] + 1 = RevealTries
    THEN Fail(a) /\ Over(a)
    ELSE tries' = [tries EXCEPT ![a] = @ + 1] /\ UNCHANGED <<page, funding, status, shown, phase>>

RevealSent(a) ==
    /\ phase[a] = "reveal"
    /\ \/ /\ chain' = chain \cup {<<"reveal", a>>}
          /\ Succeed(a) \/ Fail(a)
          /\ Over(a)
       \/ RevealRefused(a) /\ UNCHANGED chain
       \/ Fail(a) /\ Over(a) /\ UNCHANGED chain
    /\ UNCHANGED <<step, utxo, content, pending, sat, mined>>

\* "Try Again" of a failed attempt.
TryAgain ==
    /\ Offered("again")
    /\ shown' = None /\ polled' = None
    /\ loading' = FALSE
    /\ SetStatus(Prepared("not_started"))
    /\ UNCHANGED <<step, utxo, content, rate, own, pending, attempts, network>>

(***************************************************************************)
(* checkTransactionConfirmation, from the button and from the interval.    *)
(***************************************************************************)
Check(a) ==
    /\ \/ Offered("check") /\ a = polled
       \/ step = TransactionPage /\ a = timer
    /\ a # None /\ MayAwait
    /\ checks' = checks \cup {<<CHOOSE n \in 1..MaxAwaits : \A c \in checks : c[1] # n, a>>}
    /\ UNCHANGED <<reducer, page, looking, reading, exchanging, attempts, network>>

\* Only the commit transaction is asked about.
CheckAnswered(c) ==
    /\ c \in checks /\ checks' = checks \ {c}
    /\ \/ /\ <<"commit", c[2]>> \in mined
          /\ Show(IF step = 4 THEN 4 ELSE step + 1, "completed")
          /\ exchanging' = Left
       \/ UNCHANGED <<step, funding, status, page, exchanging>>
    /\ UNCHANGED <<utxo, content, shown, looking, reading, attempts, network>>

\* A block takes a transaction whose parent is mined.
Mine(t) ==
    /\ t \in chain \ mined /\ Cardinality(mined) < MaxMined
    /\ t[1] = "reveal" => <<"commit", t[2]>> \in mined
    /\ mined' = mined \cup {t}
    /\ UNCHANGED <<reducer, page, pending, attempts, chain>>

User ==
    \/ \E k \in Pages : GoBack(k)
    \/ Continue \/ StartNew \/ Reload \/ Deselect \/ StartExchange \/ TryAgain
    \/ \E u \in Utxos : SelectUtxo(u) \/ SelectLargest(u)
    \/ \E c \in Contents \cup {None} : EnterText(c)
    \/ \E c \in Contents : ReadFile(c)
    \/ \E r \in Rates : SelectRate(r)
    \/ \E S \in SUBSET Utxos : SelectFunding(S)
    \/ \E a \in Attempts : Create(a)

Answer ==
    \/ \E u \in Utxos : SatNumberAnswered(u)
    \/ \E c \in Contents : FileLoaded(c)
    \/ ExchangeAnswered \/ ExchangeFails
    \/ \E a \in Attempts : Listed(a) \/ Signed(a) \/ CommitSent(a) \/ RevealSent(a)
    \/ \E c \in checks : CheckAnswered(c)

WizardNext ==
    \/ User
    \/ Answer
    \/ \E a \in Attempts : Check(a)
    \/ \E t \in chain : Mine(t)

WizardSpec == WizardInit /\ [][WizardNext]_wizardVars

-----------------------------------------------------------------------------
Transactions == {"commit", "reveal"} \X Attempts

WizardTypeOK ==
    /\ step \in Pages /\ utxo \in Utxos \cup {None} /\ content \in Contents \cup {None}
    /\ funding \subseteq Utxos /\ status \in Statuses
    /\ {shown, polled, timer} \subseteq Attempts \cup {None}
    /\ rate \in Rates /\ loading \in BOOLEAN /\ own \subseteq Attempts
    /\ looking \subseteq Utxos /\ reading \subseteq Contents
    /\ exchanging \in {"none", "here", "left"} /\ (exchanging = "here" => step = 2)
    /\ checks \subseteq (1..MaxAwaits) \X Attempts
    /\ phase \in [Attempts -> {"unused", "list", "sign", "commit", "reveal", "ended"}]
    /\ \A a \in Attempts : phase[a] = "unused" <=> sat[a] = None
    /\ tries \in [Attempts -> 0..(RevealTries - 1)]
    /\ mined \subseteq chain /\ chain \subseteq Transactions

(* What the page waits for exists: while it says that the inscription waits  *)
(* for its confirmation, the commit and the reveal it shows are of one       *)
(* attempt and both accepted by the node, whatever was refused on the way,   *)
(* clicked twice or answered after the page was left or reset                *)
(* (TransactionStep.tsx:634-727, inscribe-with-satpoint.ts:203-250).         *)
ConfirmingIsOnChain ==
    status = "confirming" => shown # None /\ {"commit", "reveal"} \X {shown} \subseteq chain

(* CompletionStep.tsx:89: "Your resource has been successfully inscribed on  *)
(* the Bitcoin blockchain."  Expected to fail: the check asks only about the *)
(* commit transaction, and a late answer of a credential exchange moves on   *)
(* to this page from a page where nothing was inscribed.                     *)
CompletionIsInscribed ==
    step = 4 => \E a \in Attempts : <<"reveal", a>> \in mined
=============================================================================
