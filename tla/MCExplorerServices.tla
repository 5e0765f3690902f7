------------------------- MODULE MCExplorerServices -------------------------
(***************************************************************************)
(* The stateful pages of the explorer (packages/ordinals-plus-explorer)    *)
(* side by side: the inscription wizard, the batch inscription, the wallet *)
(* with the network context, the page of a DID, the credentials of VC API  *)
(* providers, the content of an inscription (a step of the wizard, with    *)
(* the functions of the library that make the script), and the pages of    *)
(* collections.  Each has its own state, so a behaviour of all of them is  *)
(* one behaviour of each: one part moves, and it is the same part          *)
(* throughout.                                                             *)
(***************************************************************************)
EXTENDS InscriptionWizard, BatchFlow, ExplorerWallet, DidPage, VcExchange,
        InscriptionContents, CollectionPages, TLC

VARIABLE part    \* the part whose behaviours these are

vars == <<wizardVars, batchVars, walletVars, didVars, vcVars, contentVars, pagesVars, part>>

Parts == {"wizard", "batch", "wallet", "did", "vc", "contents", "collections"}

\* What a part may choose at the start it chooses only when it is the one that moves.
Init ==
    /\ part \in Parts
    /\ WizardInit
    /\ BatchInit
    /\ WalletInit /\ (part # "wallet" => detected = {} /\ stored = "mainnet" /\ unisatNet = "mainnet")
    /\ DidPageInit /\ (part # "did" => place = CHOOSE d \in Dids : TRUE)
    /\ VcInit /\ (part # "vc" => environment = CHOOSE env \in Environments : TRUE)
    /\ ContentsInit
    /\ PagesInit

Next ==
    /\ UNCHANGED part
    /\ \/ /\ part = "wizard"
          /\ WizardNext
          /\ UNCHANGED <<batchVars, walletVars, didVars, vcVars, contentVars, pagesVars>>
       \/ /\ part = "batch"
          /\ BatchNext
          /\ UNCHANGED <<wizardVars, walletVars, didVars, vcVars, contentVars, pagesVars>>
       \/ /\ part = "wallet"
          /\ WalletNext
          /\ UNCHANGED <<wizardVars, batchVars, didVars, vcVars, contentVars, pagesVars>>
       \/ /\ part = "did"
          /\ DidPageNext
          /\ UNCHANGED <<wizardVars, batchVars, walletVars, vcVars, contentVars, pagesVars>>
       \/ /\ part = "vc"
          /\ VcNext
          /\ UNCHANGED <<wizardVars, batchVars, walletVars, didVars, contentVars, pagesVars>>
       \/ /\ part = "contents"
          /\ ContentsNext
          /\ UNCHANGED <<wizardVars, batchVars, walletVars, didVars, vcVars, pagesVars>>
       \/ /\ part = "collections"
          /\ PagesNext
          /\ UNCHANGED <<wizardVars, batchVars, walletVars, didVars, vcVars, contentVars>>

Spec == Init /\ [][Next]_vars

-----------------------------------------------------------------------------
\* The type invariants of all parts.
TypeOK ==
    /\ WizardTypeOK
    /\ BatchTypeOK
    /\ ExplorerWalletTypeOK
    /\ DidPageTypeOK
    /\ VcTypeOK
    /\ ContentsTypeOK
    /\ PagesTypeOK
    /\ part \in Parts

-----------------------------------------------------------------------------
\* The instance for TLC: of two UTXOs the small one needs funding at the default
\* rate; UniSat is on either network and Xverse on mainnet; two of three DIDs
\* are of one satoshi, and each satoshi has one inscription with a credential about s;
\* the API is started with two providers of credentials or with none; of the texts
\* both are JSON, note an object and array one that grows when it is spelled anew; of
\* the files one is an image, one an empty image, one text that is not JSON and one too
\* large, of a type not known; the gallery has up to three collections.

CONSTANTS small, large, text, broken, p1, p2, a, a2, b, s, t, cs, ct,
          note, array, picture, hollow, prose, film, r1, r2, g1, g2, g3

MCUtxos == {small, large}
MCValue == small :> 2 @@ large :> 3
MCContents == {text, broken}
MCRequired(c, r) == r + 1
MCSatOf == a :> s @@ a2 :> s @@ b :> t
MCCardsOn == s :> {cs} @@ t :> {ct}
MCNames == 1 :> {"x"} @@ 2 :> {"y"} @@ Placeholder :> {}
MCSubject == cs :> s @@ ct :> s
MCFileType == picture :> "image/jpeg" @@ hollow :> "image/png" @@ prose :> "text/plain" @@ film :> ""
MCOversize == [as : {"text", "bytes", "data URL"}, of : {film}] \cup {AsCompact(array)}
MCSignature == picture :> "image/jpeg" @@ hollow :> "application/octet-stream" @@ prose :> "application/octet-stream"
                 @@ film :> "application/octet-stream"
MCRank == "newest" :> (g1 :> 1 @@ g2 :> 2 @@ g3 :> 3) @@ "name" :> (g1 :> 3 @@ g2 :> 1 @@ g3 :> 2)
=============================================================================
